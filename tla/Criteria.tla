------------------------------ MODULE Criteria ------------------------------
(***************************************************************************)
(* What a client asks of the measurements it gets (criteria.h), and how    *)
(* two such criteria are merged (criteria.cpp 51-99).                      *)
(***************************************************************************)
EXTENDS Integers

CONSTANTS
  Features,     \* position, altitude, velocity, heading
  Optionals,    \* accuracies that may be left open: vertical, velocity, heading
  Unspecified   \* an Optional that is not set

ASSUME CriteriaAssumption == Unspecified \notin Nat

Criterion ==
  [requires : SUBSET Features, horizontal : Nat,
   accuracy : [Optionals -> Nat \union {Unspecified}]]

\* What the documentation means by "satisfies" (criteria.h 36-41 and 60-62):
\* what m offers is at least what c asks for.  The function of that name is no
\* such relation, it is never true (criteria.cpp 21-49).
Meets(m, c) ==
  /\ c.requires \subseteq m.requires
  /\ m.horizontal <= c.horizontal
  /\ \A k \in Optionals :
       c.accuracy[k] # Unspecified =>
         m.accuracy[k] # Unspecified /\ m.accuracy[k] <= c.accuracy[k]

\* Mutant: an accuracy that the left side leaves open stays open.
Tighter_Open(a, b) ==
  IF a # Unspecified /\ b # Unspecified /\ b < a THEN b ELSE a

Tighter(a, b) ==
  IF a = Unspecified \/ (b # Unspecified /\ b < a) THEN b ELSE a

\* operator+
Merged(a, b) ==
  [requires |-> a.requires \union b.requires,
   horizontal |-> IF b.horizontal < a.horizontal THEN b.horizontal ELSE a.horizontal,
   accuracy |-> [k \in Optionals |-> Tighter(a.accuracy[k], b.accuracy[k])]]

(***************************************************************************)
(* "operator + merges lhs and rhs such that satisfying the new criteria    *)
(* satisfies lhs and rhs" (criteria.h 60-62), and it asks for no more.     *)
(***************************************************************************)
MergedMeansBoth(m, a, b) ==
  Meets(m, Merged(a, b)) <=> Meets(m, a) /\ Meets(m, b)
=============================================================================
