---------------------------- MODULE EngineSwitch ----------------------------
(***************************************************************************)
(* The engine, the settings and the service's properties implement         *)
(* PowerSwitch.  What they show in the middle of a request is nobody's     *)
(* business yet: until then the switch shows what it did when the request  *)
(* was taken.  `before' remembers that; it is written and never read.      *)
(***************************************************************************)
EXTENDS EngineInvariant

VARIABLE
  before            \* `requested' when the request being served was taken

switchVars == <<vars, before>>

SwitchInit == Init /\ before = requested

Takes == before' = IF Idle THEN requested ELSE before

SwitchNext ==
  \/ Dispatch /\ Takes
  \/ Request /\ Takes
  \/ Restart /\ before' = requested'

SwitchSpec == SwitchInit /\ [][SwitchNext]_switchVars

FairSwitchSpec == SwitchSpec /\ WF_switchVars(Dispatch /\ Takes)

-----------------------------------------------------------------------------
\* What each view of the switch shows.
View ==
  [engine_state |-> engine_state # "off",
   settings     |-> settings # "off",
   is_online    |-> is_online,
   state        |-> service_state # "disabled"]

Switch == INSTANCE PowerSwitch WITH
  busy <- ~Idle,
  target <- requested,
  shown <- IF Idle THEN View
           ELSE [w \in {"engine_state", "settings", "is_online", "state"} |-> before]

(***************************************************************************)
(* The slots that engine and service connect to each other's properties    *)
(* (engine.cpp 52-111 and 208-217, service/implementation.cpp 69-122) do   *)
(* what one atomic switch would: between requests the engine, what is      *)
(* persisted, is_online and the state shown agree on what the last client  *)
(* asked for, and a crash in a request takes nothing from that to what     *)
(* neither it nor a client before it had asked for.                        *)
(***************************************************************************)
ImplementsPowerSwitch == Switch!Spec

-----------------------------------------------------------------------------
(* Why: a request that leaves the switch where it was never lets a call    *)
(* into the stack that moves it.                                           *)

SwitchesOff(c) ==
  \/ c.op \in {"set_engine_state", "engine_slot", "persist", "service_slot",
               "set_is_online"} /\ c.v = "off"
  \/ c.op = "set_service_state" /\ c.v = "disabled"

StaysOn ==
  /\ engine_state # "off"
  /\ settings # "off"
  /\ \A i \in Positions : ~SwitchesOff(todo[i])

StaysOff ==
  /\ engine_state = "off"
  /\ settings = "off"
  /\ \A p \in Providers : Refuses(p)
  /\ \A i \in Positions : ~SwitchesOn(todo[i])

(***************************************************************************)
(* While a request is served that found the service on and leaves it on,   *)
(* neither the engine nor what is persisted is ever off, and the other way *)
(* round (engine.cpp 96-111): wherever the crash comes, it does no harm.   *)
(***************************************************************************)
UnmovedSwitchStays ==
  ~Idle /\ before = requested => IF requested THEN StaysOn ELSE StaysOff

SwitchInv == before \in BOOLEAN /\ UnmovedSwitchStays
=============================================================================
