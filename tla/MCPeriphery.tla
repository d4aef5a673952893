----------------------------- MODULE MCPeriphery -----------------------------
(* The parts of Periphery, the JsonObjects and the Values, side by side in   *)
(* one run.                                                                  *)
EXTENDS Periphery, Criteria, JsonObjects

CONSTANTS Lengths, Candidates, Weakest, Strongest

VARIABLES
  side,    \* which of the three moves; chosen once
  input

Content == INSTANCE Values

ASSUME JsonAssumption == ObjectsAssumption

ContentsAreSound == side = "contents" => Content!ContentsAreSound

\* The input while others move.
NoInput == [kind |-> "none"]

MCInit ==
  /\ side \in {"periphery", "objects", "contents"}
  /\ side # "periphery" => part = "pool"
  /\ PeripheryInit
  /\ JsonInit
  /\ \/ side # "contents" /\ input = NoInput
     \/ side = "contents" /\ Content!Init

MCNext ==
  /\ side' = side
  /\ \/ side = "periphery" /\ PeripheryNext /\ UNCHANGED <<input, jsonVars>>
     \/ side = "objects" /\ JsonNext /\ UNCHANGED <<input, peripheryVars>>
     \/ side = "contents" /\ Content!Next /\ UNCHANGED <<jsonVars, peripheryVars>>
=============================================================================
