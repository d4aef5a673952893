------------------------------ MODULE Updates ------------------------------
(***************************************************************************)
(* The way of a position through the service: measured by a provider,      *)
(* verified by the engine's update policy and announced as the new         *)
(* reference (engine.cpp 204-207, time_based_update_policy.cpp), selected  *)
(* for a session by its FusionProvider (fusion_provider.cpp 36-55), kept   *)
(* by the session and sent to its client.                                  *)
(*                                                                         *)
(* A local provider reports on a thread of its own.  Remote providers      *)
(* report on the one task thread, and what they send is a position without *)
(* its time: the Stub makes a new update of it, measured "now"             *)
(* (remote/interface.h 78, remote/provider.cpp 242-256).                   *)
(***************************************************************************)
EXTENDS Integers

CONSTANTS
  Providers,
  Nobody,        \* the source of the position a policy starts with
  Accuracies,    \* radii; the smaller the better
  NoAccuracy,    \* a position that does not know how accurate it is
  NoUpdate,
  Limit,         \* TimeBasedUpdatePolicy::default_timeout()
  Cutoff,        \* of NewerOrMoreAccurateUpdateSelector
  MaxDelay,      \* the policy sees an update at most so late
  MaxTime,       \* bound: how far the clock goes
  MaxUpdates     \* bound: how many updates are measured

ASSUME UpdatesAssumption ==
  /\ Nobody \notin Providers
  /\ Accuracies \subseteq Nat /\ NoAccuracy \notin Nat
  /\ Limit \in Nat /\ Cutoff \in Nat /\ MaxDelay \in Nat
  /\ MaxTime \in Nat /\ MaxUpdates \in Nat

VARIABLES
  remote,      \* providers in daemons of their own; chosen once
  now,         \* Clock::now()
  measured,    \* how many updates have been measured
  at,          \* [Providers -> Label]: how far the delivery of its update is
  update,      \* [Providers -> Update]: the update it delivers
  local,       \* [Providers -> Update]: the value its thread holds
  last,        \* TimeBasedUpdatePolicy::last_position_update
  reference,   \* Engine::updates.last_known_location
  told,        \* the reference its listeners have been told last
  fused,       \* FusionProvider::last_position
  position,    \* updates().position of the session; a change is sent to the client
  verified,    \* the newest time the policy has dealt with (history)
  offered      \* the newest time the FusionProvider has dealt with (history)

clockVars == <<now, measured>>
threadVars == <<at, update, local>>
engineVars == <<last, reference, told, verified>>
sessionVars == <<fused, position, offered>>
vars == <<remote, clockVars, threadVars, engineVars, sessionVars>>

\* measured is when the position was taken; nobody in the code knows it but
\* through when.
Update ==
  [source : Providers \union {Nobody}, measured : Int, when : Int,
   accuracy : Accuracies \union {NoAccuracy}]
Optional == Update \union {NoUpdate}

ASSUME NoUpdateAssumption == NoUpdate \notin Update

Label ==
  {"idle", "posted", "write", "assign", "announce", "select", "fuse", "deliver"}

TypeOK ==
  /\ remote \subseteq Providers
  /\ now \in Int /\ measured \in Nat
  /\ at \in [Providers -> Label]
  /\ update \in [Providers -> Optional]
  /\ local \in [Providers -> Optional]
  /\ last \in Update
  /\ {reference, told, fused, position} \subseteq Optional
  /\ verified \in Int /\ offered \in Int

\* Mutant: the policy begins without a position.
Nothing_Absent == NoUpdate

\* An Update made of nothing: Position{} and the time the policy was made.
Nothing == [source |-> Nobody, measured |-> 0, when |-> 0, accuracy |-> NoAccuracy]

Init ==
  /\ remote \in SUBSET Providers
  /\ now = 0 /\ measured = 0
  /\ at = [p \in Providers |-> "idle"]
  /\ update = [p \in Providers |-> NoUpdate]
  /\ local = [p \in Providers |-> NoUpdate]
  /\ last = Nothing
  /\ reference = NoUpdate /\ told = NoUpdate
  /\ fused = NoUpdate /\ position = NoUpdate
  /\ verified = 0 /\ offered = 0

-----------------------------------------------------------------------------
\* The clock of the system, never set back.  That no update takes longer than
\* MaxDelay to reach the policy is all that is assumed of the scheduling.
Tick ==
  /\ now < MaxTime
  /\ \A p \in Providers :
       at[p] \in {"posted", "write"} => now - update[p].measured < MaxDelay
  /\ now' = now + 1
  /\ UNCHANGED <<remote, measured, threadVars, engineVars, sessionVars>>

Go(p, label) == at' = [at EXCEPT ![p] = label]
Hold(p, v) == local' = [local EXCEPT ![p] = v]

\* A provider measures a position.
Measure(p) ==
  /\ at[p] = "idle"
  /\ measured < MaxUpdates
  /\ measured' = measured + 1
  /\ \E a \in Accuracies \union {NoAccuracy} :
       update' = [update EXCEPT ![p] =
                    [source |-> p, measured |-> now, when |-> now, accuracy |-> a]]
  /\ Go(p, "posted")
  /\ UNCHANGED <<remote, local, now, engineVars, sessionVars>>

-----------------------------------------------------------------------------
(* Engine: updates.last_known_location = update_policy->verify_update(src). *)

\* Mutant: every provider reports on a thread of its own.
MayDeliver_Alone(p) == p \in Providers

\* The task thread delivers one update after the other.
MayDeliver(p) ==
  p \in remote => \A q \in remote \ {p} : at[q] \in {"idle", "posted"}

\* is_significantly_newer, is_significantly_older
SignificantlyNewer(old, new) == new.when - old.when > Limit
SignificantlyOlder(old, new) == new.when - old.when < -Limit

\* Mutant: an update must be more accurate than the last one, known or not.
UsesNew_AccurateOnly(old, new) ==
  \/ SignificantlyNewer(old, new)
  \/ /\ ~SignificantlyOlder(old, new)
     /\ old.accuracy # NoAccuracy /\ new.accuracy # NoAccuracy
     /\ old.accuracy >= new.accuracy

\* Mutant: accuracy decides whatever the age.
UsesNew_Timeless(old, new) ==
  \/ old.accuracy = NoAccuracy
  \/ new.accuracy # NoAccuracy /\ old.accuracy >= new.accuracy

\* use_new_update
UsesNew(old, new) ==
  \/ SignificantlyNewer(old, new)
  \/ /\ ~SignificantlyOlder(old, new)
     /\ \/ old.accuracy = NoAccuracy
        \/ new.accuracy # NoAccuracy /\ old.accuracy >= new.accuracy

Later(a, b) == IF a >= b THEN a ELSE b

\* What provider p delivers: for a remote one an update made on delivery.
Delivered(p) ==
  IF p \in remote THEN [update[p] EXCEPT !.when = now] ELSE update[p]

\* verify_update takes its lock and decides.  What it returns is a reference:
\* to its argument, or to its member (here: the thread holds nothing).
VerifyUpdate(p) ==
  /\ at[p] = "posted"
  /\ MayDeliver(p)
  /\ \A q \in Providers : at[q] # "write"
  /\ update' = [update EXCEPT ![p] = Delivered(p)]
  /\ IF UsesNew(last, Delivered(p))
       THEN Go(p, "write") /\ UNCHANGED verified
       ELSE Go(p, "assign") /\ verified' = Later(verified, Delivered(p).when)
  /\ UNCHANGED <<remote, local, clockVars, last, reference, told, sessionVars>>

\* last_position_update = update, still under the lock.
StoreVerified(p) ==
  /\ at[p] = "write"
  /\ last' = update[p]
  /\ verified' = Later(verified, update[p].when)
  /\ Hold(p, update[p])
  /\ Go(p, "assign")
  /\ UNCHANGED <<remote, update, clockVars, reference, told, sessionVars>>

\* What is read of last_position_update without the lock: while another
\* thread writes it, any mixture of the old and the new.
Read ==
  {last} \union
  UNION { {update[q],
           [last EXCEPT !.when = update[q].when, !.measured = update[q].measured],
           [update[q] EXCEPT !.when = last.when, !.measured = last.measured]} :
          q \in {r \in Providers : at[r] = "write"} }

\* Mutant: the engine takes the update as it came.
ReturnedBy_Source(p) == {update[p]}

ReturnedBy(p) == IF local[p] = NoUpdate THEN Read ELSE {local[p]}

\* The property compares and assigns; it announces only what is different.
AssignReference(p) ==
  /\ at[p] = "assign"
  /\ \E v \in ReturnedBy(p) :
       IF v = reference
         THEN Go(p, "select") /\ Hold(p, NoUpdate) /\ UNCHANGED reference
         ELSE Go(p, "announce") /\ Hold(p, v) /\ reference' = v
  /\ UNCHANGED <<remote, update, clockVars, last, told, verified, sessionVars>>

\* changed(): on_reference_location_updated of every provider, then
\* Harvester::report_position_update.
Announce(p) ==
  /\ at[p] = "announce"
  /\ told' = local[p]
  /\ Hold(p, NoUpdate)
  /\ Go(p, "select")
  /\ UNCHANGED <<remote, update, clockVars, last, reference, verified, sessionVars>>

-----------------------------------------------------------------------------
(* The session. *)

\* Mutant: the comparison that favours new updates is left out.
Selected_Accuracy(older, newer) ==
  IF \/ newer.source = older.source
     \/ older.accuracy = NoAccuracy
     \/ newer.accuracy # NoAccuracy /\ newer.accuracy < older.accuracy
    THEN newer ELSE older

\* NewerOrMoreAccurateUpdateSelector::select
Selected(older, newer) ==
  IF \/ newer.source = older.source
     \/ newer.when > older.when + Cutoff
     \/ older.accuracy = NoAccuracy
     \/ newer.accuracy # NoAccuracy /\ newer.accuracy < older.accuracy
    THEN newer ELSE older

\* The slot of the FusionProvider reads *last_position, without a lock.
Select(p) ==
  /\ at[p] = "select"
  /\ Hold(p, IF fused = NoUpdate THEN update[p] ELSE Selected(fused, update[p]))
  /\ Go(p, "fuse")
  /\ UNCHANGED <<remote, update, clockVars, engineVars, sessionVars>>

\* last_position = ...
Fuse(p) ==
  /\ at[p] = "fuse"
  /\ fused' = local[p]
  /\ offered' = IF fused = NoUpdate THEN update[p].when ELSE Later(offered, update[p].when)
  /\ Go(p, "deliver")
  /\ UNCHANGED <<remote, update, local, clockVars, engineVars, position>>

\* Mutant: updates are equal if their positions are.
SameUpdate_Value(u, v) ==
  u # NoUpdate /\ v # NoUpdate /\ u.source = v.source /\ u.accuracy = v.accuracy

\* Update::operator==
SameUpdate(u, v) == u = v

\* updates().position = update; Skeleton::on_position_changed sends what is
\* new to the client, whether or not it has enabled its updates.
Deliver(p) ==
  /\ at[p] = "deliver"
  /\ position' = IF SameUpdate(position, local[p]) THEN position ELSE local[p]
  /\ Go(p, "idle")
  /\ update' = [update EXCEPT ![p] = NoUpdate]
  /\ Hold(p, NoUpdate)
  /\ UNCHANGED <<remote, clockVars, engineVars, fused, offered>>

-----------------------------------------------------------------------------
Next ==
  \/ Tick
  \/ \E p \in Providers :
       \/ Measure(p)
       \/ VerifyUpdate(p) \/ StoreVerified(p) \/ AssignReference(p) \/ Announce(p)
       \/ Select(p) \/ Fuse(p) \/ Deliver(p)

Spec == Init /\ [][Next]_vars
=============================================================================
