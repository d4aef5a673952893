---------------------------- MODULE PowerSwitch -----------------------------
(***************************************************************************)
(* What switching the service on and off promises to a client, with none   *)
(* of the slots that bring it about: a request is taken when the one       *)
(* before it has been served, and when it is served every place that shows *)
(* whether the service is on shows what the last client asked for.  A      *)
(* crash comes up again in the state from before the request it interrupts *)
(* or in the one asked for, and is never the reason for a third.           *)
(***************************************************************************)

VARIABLES
  busy,    \* is a request being served, or the daemon coming up?
  target,  \* the state the last client asked for
  shown    \* [Views -> BOOLEAN]: the state in force, wherever it shows

vars == <<busy, target, shown>>

Views == {"engine_state", "settings", "is_online", "state"}

Everywhere(v) == [w \in Views |-> v]

Init ==
  /\ busy = TRUE
  /\ target = TRUE
  /\ shown = Everywhere(TRUE)

\* A client writes is_online.
Ask(v) ==
  /\ ~busy
  /\ busy' = TRUE
  /\ target' = v
  /\ UNCHANGED shown

\* A client asks for something else: a session, or satellites.
AskOther ==
  /\ ~busy
  /\ busy' = TRUE
  /\ UNCHANGED <<target, shown>>

Serve ==
  /\ busy
  /\ busy' = FALSE
  /\ shown' = Everywhere(target)
  /\ UNCHANGED target

Crash ==
  /\ busy' = TRUE
  /\ target' \in {target} \union {shown[w] : w \in Views}
  /\ shown' = Everywhere(target')

Next == (\E v \in BOOLEAN : Ask(v)) \/ AskOther \/ Serve \/ Crash

Spec == Init /\ [][Next]_vars
=============================================================================
