-------------------------- MODULE RemoteProperties --------------------------
(***************************************************************************)
(* What a remote provider must keep in step with the Stub's controller.    *)
(***************************************************************************)
EXTENDS RemoteProvider

Pending(p, f) ==
  \E op \in {"start", "stop"} :
    \/ Called(op, p, f)
    \/ \E i \in 1 .. Len(tasks) : tasks[i] = [op |-> op, p |-> p, f |-> f]

(***************************************************************************)
(* Unless its own daemon crashes, once the calls for a feature have been   *)
(* made the remote source runs exactly if the Stub's controller says so:   *)
(* the posted calls are neither reordered nor dropped, also when the call  *)
(* of another Stub on the same queue fails (provider.cpp 386-481).         *)
(***************************************************************************)
InStep ==
  \A p \in Remotes \ crashed, f \in Features :
    ~Pending(p, f) => (hardware[p][f] <=> counter[p][f] > 0)

(***************************************************************************)
(* Whatever crashes, comes up again and misses calls: a remote source      *)
(* nobody wants and nothing is pending for is not running.                 *)
(***************************************************************************)
UnwantedIsOff ==
  \A p \in Remotes, f \in Features :
    ~Pending(p, f) /\ counter[p][f] = 0 => ~hardware[p][f]

(***************************************************************************)
(* A start reaches the remote source, unless it is taken back or the       *)
(* daemon crashes, although all Stubs share one task thread.               *)
(***************************************************************************)
StartsArrive ==
  \A p \in Remotes, f \in Features :
    counter[p][f] > 0 ~> hardware[p][f] \/ counter[p][f] = 0 \/ p \in crashed

(***************************************************************************)
(* Loading ends for every provider, whether or not its daemon comes up:    *)
(* the service starts with those that did (daemon.cpp 178-202).            *)
(***************************************************************************)
LoadingEnds == <>(\A p \in Remotes : phase[p] \in {"ready", "failed"})
=============================================================================
