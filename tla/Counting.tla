------------------------------ MODULE Counting ------------------------------
(***************************************************************************)
(* The arithmetic of Provider::Controller (provider.cpp 52-72): a counter  *)
(* below zero is disabled and ignores starts and stops.                    *)
(***************************************************************************)
EXTENDS Integers

Incremented(n) == IF n < 0 THEN n ELSE n + 1
Decremented(n) == IF n < 0 THEN n ELSE n - 1
=============================================================================
