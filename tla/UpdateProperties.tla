-------------------------- MODULE UpdateProperties --------------------------
(***************************************************************************)
(* What the engine, a session and its client may know of the positions     *)
(* that the providers deliver.                                             *)
(***************************************************************************)
EXTENDS Updates

\* No delivery is under way.
Quiet == \A p \in Providers : at[p] \in {"idle", "posted"}

\* All providers report on the task thread.
OneThread == remote = Providers

(***************************************************************************)
(* The reference never falls behind the updates the policy has seen by     *)
(* more than the limit of the policy, or the delay of an update if that is *)
(* longer, however accurate it is and whatever the threads do: "the best   *)
(* update possible is chosen within a reasonable time bracket"             *)
(* (time_based_update_policy.h 32).                                        *)
(***************************************************************************)
ReferenceLagIsBounded ==
  verified - last.when <= Later(Limit, MaxDelay)

(***************************************************************************)
(* The reference handed to providers and harvester is one that a provider  *)
(* has measured, never the position the policy was made with               *)
(* (time_based_update_policy.cpp 39-64).                                   *)
(***************************************************************************)
ReferenceWasMeasured ==
  \A u \in {reference, told} : u # NoUpdate => u.source \in Providers

(***************************************************************************)
(* verify_update returns a reference that is used without its lock, and    *)
(* the property announces a value that it has copied: while one thread     *)
(* delivers all updates, engine, policy and listeners agree afterwards.    *)
(***************************************************************************)
ReferenceIsVerified ==
  OneThread /\ Quiet =>
    /\ told = reference
    /\ last = (IF reference = NoUpdate THEN Nothing ELSE reference)

(***************************************************************************)
(* A session never falls behind the updates its FusionProvider was offered *)
(* by more than the cutoff, however accurate its last one is               *)
(* (newer_or_more_accurate_update_selector.h 34-61).                       *)
(***************************************************************************)
SessionLagIsBounded ==
  OneThread /\ Quiet /\ fused # NoUpdate =>
    offered - fused.when <= Cutoff

(***************************************************************************)
(* The FusionProvider reads and writes its last position in two steps      *)
(* (fusion_provider.cpp 46-49), which delivery by one thread protects:     *)
(* when everything has been delivered, the session has what was selected   *)
(* for it last, time included: an update at the place of the last one is   *)
(* not taken for the same.                                                 *)
(***************************************************************************)
SessionIsUpToDate == OneThread /\ Quiet => position = fused
=============================================================================
