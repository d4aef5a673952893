--------------------------- MODULE PeripheryProofs ---------------------------
(***************************************************************************)
(* What Periphery says of its parts, for every value of their constants.   *)
(* A step moves one part and leaves the others as they are, so the         *)
(* invariant is kept part by part: for each there are lemmas about its     *)
(* first states, its steps and what its invariant means.                   *)
(***************************************************************************)
EXTENDS Periphery, Sequences, TLAPS

-----------------------------------------------------------------------------
(* Updates: what UpdateProperties says of the positions the engine and a   *)
(* session know, for every number of providers and updates, every limit,   *)
(* cutoff and delay, and every mixture of providers with and without a     *)
(* thread of their own.                                                    *)

\* An update on its way is one that its provider has measured, not before the
\* clock began, and not more than MaxDelay ago if the policy has yet to see
\* it or to store it.
Carried(p) ==
  at[p] # "idle" =>
    /\ update[p] \in Update
    /\ update[p].source \in Providers
    /\ 0 <= update[p].measured
    /\ update[p].measured <= update[p].when
    /\ update[p].when <= now

\* A thread holds a value only while it delivers.
Waiting(p) == at[p] \in {"idle", "posted", "write"} => local[p] = NoUpdate

OnTime(p) == at[p] \in {"posted", "write"} => now - update[p].measured <= MaxDelay

\* What verify_update returns came from a provider, be it the update that it
\* stored or, after it refused one, what it had stored before.
Returned(p) ==
  /\ at[p] = "assign" =>
       IF local[p] = NoUpdate THEN last.source \in Providers
                              ELSE local[p].source \in Providers
  /\ at[p] = "announce" => local[p].source \in Providers

Kept(p) == Carried(p) /\ OnTime(p) /\ Waiting(p) /\ Returned(p)

Origin == last = Nothing \/ last.source \in Providers

\* The clock begins at 0, and nothing that the policy or the FusionProvider
\* has dealt with is newer than now.
NotAhead == 0 <= now /\ verified <= now /\ offered <= now

IInv ==
  /\ TypeOK
  /\ \A p \in Providers : Kept(p)
  /\ Origin
  /\ NotAhead
  /\ ReferenceLagIsBounded
  /\ ReferenceWasMeasured

-----------------------------------------------------------------------------
LEMMA LaterIsBoth ==
  ASSUME NEW a \in Int, NEW b \in Int
  PROVE  /\ Later(a, b) \in {a, b}
         /\ Later(a, b) >= a /\ Later(a, b) >= b
BY DEF Later

LEMMA NothingIsAnUpdate == Nothing \in Update
BY DEF Nothing, Update

\* A delivered update is the one that was measured, now or when it was.
LEMMA DeliveredIsTheUpdate ==
  ASSUME NEW p, update[p] \in Update, now \in Int
  PROVE  /\ Delivered(p) \in Update
         /\ Delivered(p).source = update[p].source
         /\ Delivered(p).measured = update[p].measured
         /\ Delivered(p).when = IF p \in remote THEN now ELSE update[p].when
<1>1. CASE p \in remote
  BY <1>1 DEF Delivered, Update
<1>2. CASE p \notin remote
  BY <1>2 DEF Delivered
<1> QED BY <1>1, <1>2

\* A policy that knows nothing yet takes what it gets.
LEMMA NothingIsReplaced ==
  ASSUME NEW new \in Update, 0 <= new.when
  PROVE  UsesNew(Nothing, new)
<1>1. new.when \in Int
  BY DEF Update
<1>2. Nothing.when = 0 /\ Nothing.accuracy = NoAccuracy
  BY DEF Nothing
<1>3. ~SignificantlyOlder(Nothing, new)
  BY <1>1, <1>2, UpdatesAssumption DEF SignificantlyOlder
<1> QED BY <1>2, <1>3 DEF UsesNew

\* What the engine reads of the policy is an update of a provider once the
\* policy has one.
LEMMA ReadIsMeasured ==
  ASSUME TypeOK, \A q \in Providers : Carried(q), NEW v \in Read
  PROVE  /\ v \in Update
         /\ last.source \in Providers => v.source \in Providers
<1>1. last \in Update
  BY DEF TypeOK
<1>2. CASE v = last
  BY <1>1, <1>2
<1>3. ASSUME NEW q \in Providers, at[q] = "write",
             v \in {update[q],
                    [last EXCEPT !.when = update[q].when, !.measured = update[q].measured],
                    [update[q] EXCEPT !.when = last.when, !.measured = last.measured]}
      PROVE  /\ v \in Update
             /\ last.source \in Providers => v.source \in Providers
  <2>1. update[q] \in Update /\ update[q].source \in Providers
    BY <1>3 DEF Carried
  <2>2. CASE v = update[q]
    BY <2>1, <2>2
  <2>3. CASE v = [last EXCEPT !.when = update[q].when, !.measured = update[q].measured]
    BY <1>1, <2>1, <2>3 DEF Update
  <2>4. CASE v = [update[q] EXCEPT !.when = last.when, !.measured = last.measured]
    BY <1>1, <2>1, <2>4 DEF Update
  <2> QED BY <1>3, <2>2, <2>3, <2>4
<1> QED BY <1>2, <1>3 DEF Read

\* The bound is not negative, and neither limit exceeds it.
LEMMA BoundIsLarger ==
  /\ Later(Limit, MaxDelay) \in Nat
  /\ Later(Limit, MaxDelay) >= Limit /\ Later(Limit, MaxDelay) >= MaxDelay
BY UpdatesAssumption DEF Later

LEMMA InitImpliesIInv == Init => IInv
<1> SUFFICES ASSUME Init PROVE IInv
  OBVIOUS
<1>1. TypeOK
  BY NothingIsAnUpdate DEF Init, TypeOK, Optional, Label
<1>2. \A p \in Providers : Kept(p)
  BY DEF Init, Kept, Carried, OnTime, Waiting, Returned
<1>3. Origin /\ NotAhead /\ ReferenceWasMeasured
  BY DEF Init, Origin, NotAhead, ReferenceWasMeasured
<1>4. ReferenceLagIsBounded
  <2>1. verified = 0 /\ last.when = 0
    BY DEF Init, Nothing
  <2> QED BY <2>1, BoundIsLarger DEF ReferenceLagIsBounded
<1> QED BY <1>1, <1>2, <1>3, <1>4 DEF IInv

-----------------------------------------------------------------------------
(* One lemma per action. *)

LEMMA TickKeepsIInv == IInv /\ Tick => IInv'
<1> SUFFICES ASSUME IInv, Tick PROVE IInv'
  OBVIOUS
<1> USE DEF IInv, Kept, Tick, threadVars, engineVars, sessionVars
<1>1. TypeOK'
  BY DEF TypeOK
<1>2. now \in Int /\ now' = now + 1
  BY DEF TypeOK
<1>3. ASSUME NEW p \in Providers PROVE Kept(p)'
  <2>1. Carried(p)'
    <3> SUFFICES ASSUME at[p] # "idle" PROVE Carried(p)'
      BY DEF Carried
    <3>1. update[p] \in Update /\ update[p].when \in Int /\ update[p].when <= now
      BY DEF Carried, Update
    <3> QED BY <1>2, <3>1 DEF Carried
  <2>2. OnTime(p)'
    <3> SUFFICES ASSUME at[p] \in {"posted", "write"} PROVE OnTime(p)'
      BY DEF OnTime
    <3>1. update[p].measured \in Int
      BY DEF Carried, Update
    <3>2. now - update[p].measured < MaxDelay
      OBVIOUS
    <3> QED BY <1>2, <3>1, <3>2, UpdatesAssumption DEF OnTime
  <2>3. Waiting(p)' /\ Returned(p)'
    BY DEF Waiting, Returned
  <2> QED BY <2>1, <2>2, <2>3
<1>4. Origin' /\ ReferenceWasMeasured' /\ ReferenceLagIsBounded'
  BY DEF Origin, ReferenceWasMeasured, ReferenceLagIsBounded
<1>5. NotAhead'
  BY <1>2 DEF NotAhead, TypeOK
<1> QED BY <1>1, <1>3, <1>4, <1>5

\* What a step of provider p leaves of the others, if it changes neither the
\* clock nor what the policy holds.
LEMMA OthersAreKept ==
  ASSUME IInv, NEW p \in Providers, NEW q \in Providers, q # p,
         now' = now, last' = last \/ last'.source \in Providers,
         at'[q] = at[q], update'[q] = update[q], local'[q] = local[q]
  PROVE  Kept(q)'
BY DEF IInv, Kept, Carried, OnTime, Waiting, Returned

LEMMA MeasureKeepsIInv ==
  ASSUME IInv, NEW p \in Providers, Measure(p) PROVE IInv'
<1> USE DEF IInv, Kept, Measure, Go, engineVars, sessionVars
<1>1. PICK a \in Accuracies \union {NoAccuracy} :
        update' = [update EXCEPT ![p] =
                     [source |-> p, measured |-> now, when |-> now, accuracy |-> a]]
  OBVIOUS
<1>2. now \in Int /\ measured \in Nat
  BY DEF TypeOK
<1>3. update'[p] = [source |-> p, measured |-> now, when |-> now, accuracy |-> a]
  BY <1>1 DEF TypeOK
<1>4. update'[p] \in Update
  BY <1>2, <1>3 DEF Update
<1>5. TypeOK'
  <2>1. update' \in [Providers -> Optional]
    BY <1>1, <1>3, <1>4 DEF TypeOK, Optional
  <2> QED BY <2>1, <1>2 DEF TypeOK, Label
<1>6. Kept(p)'
  <2>1. at'[p] = "posted"
    BY DEF TypeOK
  <2>2. 0 <= now
    BY DEF NotAhead
  <2> QED BY <1>2, <1>3, <1>4, <2>1, <2>2, UpdatesAssumption DEF Carried, OnTime, Waiting, Returned
<1>7. ASSUME NEW q \in Providers, q # p PROVE Kept(q)'
  BY <1>1, <1>7, OthersAreKept DEF TypeOK
<1>8. Origin' /\ NotAhead' /\ ReferenceWasMeasured' /\ ReferenceLagIsBounded'
  BY DEF Origin, NotAhead, ReferenceWasMeasured, ReferenceLagIsBounded
<1> QED BY <1>5, <1>6, <1>7, <1>8

LEMMA VerifyUpdateKeepsIInv ==
  ASSUME IInv, NEW p \in Providers, VerifyUpdate(p) PROVE IInv'
<1> USE DEF IInv, Kept, VerifyUpdate, Go, clockVars, sessionVars
<1> DEFINE d == Delivered(p)
<1>1. now \in Int /\ last \in Update /\ last.when \in Int /\ verified \in Int
  BY DEF TypeOK, Update
<1>2. update[p] \in Update /\ update[p].source \in Providers
  BY DEF Carried
<1>3. /\ d \in Update /\ d.source \in Providers
      /\ d.measured = update[p].measured
      /\ d.when = IF p \in remote THEN now ELSE update[p].when
  BY <1>1, <1>2, DeliveredIsTheUpdate
<1>4. /\ 0 <= d.measured /\ d.measured <= d.when /\ d.when <= now
      /\ now - d.measured <= MaxDelay
  BY <1>1, <1>2, <1>3 DEF Carried, OnTime, Update
<1>5. d.when \in Int /\ d.measured \in Int
  BY <1>3 DEF Update
<1> HIDE DEF d
<1>6. update' = [update EXCEPT ![p] = d]
  BY DEF d
<1>7. verified' = verified \/ verified' = Later(verified, d.when)
  BY DEF d
<1>8. TypeOK'
  <2>1. update' \in [Providers -> Optional]
    BY <1>3, <1>6 DEF TypeOK, Optional
  <2>2. verified' \in Int
    BY <1>1, <1>5, <1>7, LaterIsBoth
  <2>3. at' \in [Providers -> Label]
    BY DEF TypeOK, Label
  <2> QED BY <2>1, <2>2, <2>3 DEF TypeOK
<1>9. Kept(p)'
  <2>1. update'[p] = d /\ now' = now
    BY <1>6 DEF TypeOK
  <2>2. Carried(p)' /\ OnTime(p)' /\ Waiting(p)'
    BY <1>3, <1>4, <2>1 DEF Carried, OnTime, Waiting
  <2>3. CASE UsesNew(last, d)
    BY <2>2, <2>3 DEF Returned, TypeOK, d
  <2>4. CASE ~UsesNew(last, d)
    <3>1. 0 <= d.when
      BY <1>4, <1>5
    <3>2. last # Nothing
      BY <1>3, <2>4, <3>1, NothingIsReplaced
    <3>3. local[p] = NoUpdate
      BY DEF Waiting
    <3>4. at'[p] = "assign" /\ last' = last /\ local' = local
      BY <2>4 DEF TypeOK, d
    <3> QED BY <2>2, <3>2, <3>3, <3>4 DEF Returned, Origin
  <2> QED BY <2>2, <2>3, <2>4
<1>10. ASSUME NEW q \in Providers, q # p PROVE Kept(q)'
  <2>1. at'[q] = at[q] /\ update'[q] = update[q] /\ local' = local /\ last' = last
    BY <1>6, <1>10 DEF TypeOK
  <2> QED BY <1>10, <2>1, OthersAreKept
<1>11. Origin' /\ ReferenceWasMeasured'
  BY DEF Origin, ReferenceWasMeasured
<1>12. NotAhead'
  BY <1>1, <1>4, <1>5, <1>7, LaterIsBoth DEF NotAhead
<1>13. ReferenceLagIsBounded'
  <2>1. CASE UsesNew(last, d)
    BY <2>1 DEF ReferenceLagIsBounded, d
  <2>2. CASE ~UsesNew(last, d)
    <3>1. d.when - last.when <= Limit
      BY <1>1, <1>5, <2>2, UpdatesAssumption DEF UsesNew, SignificantlyNewer
    <3>2. verified' \in {verified, d.when} /\ last' = last
      BY <1>1, <1>5, <1>7, LaterIsBoth
    <3>3. verified - last.when <= Later(Limit, MaxDelay)
      BY DEF ReferenceLagIsBounded
    <3>4. d.when - last.when <= Later(Limit, MaxDelay)
      BY <1>1, <1>5, <3>1, BoundIsLarger, UpdatesAssumption
    <3> QED BY <3>2, <3>3, <3>4 DEF ReferenceLagIsBounded
  <2> QED BY <2>1, <2>2
<1> QED BY <1>8, <1>9, <1>10, <1>11, <1>12, <1>13

LEMMA StoreVerifiedKeepsIInv ==
  ASSUME IInv, NEW p \in Providers, StoreVerified(p) PROVE IInv'
<1> USE DEF IInv, Kept, StoreVerified, Go, Hold, clockVars, sessionVars
<1>1. now \in Int /\ verified \in Int
  BY DEF TypeOK
<1>2. /\ update[p] \in Update /\ update[p].source \in Providers
      /\ update[p].when \in Int /\ update[p].measured \in Int
      /\ update[p].measured <= update[p].when /\ update[p].when <= now
      /\ now - update[p].measured <= MaxDelay
  BY DEF Carried, OnTime, Update
<1>3. verified' \in {verified, update[p].when}
  BY <1>1, <1>2, LaterIsBoth
<1>4. TypeOK'
  BY <1>1, <1>2, <1>3 DEF TypeOK, Label, Optional
<1>5. at'[p] = "assign" /\ local'[p] = update[p] /\ last' = update[p] /\ update' = update
  BY DEF TypeOK
<1>6. Kept(p)'
  BY <1>2, <1>5 DEF Carried, OnTime, Waiting, Returned
<1>7. ASSUME NEW q \in Providers, q # p PROVE Kept(q)'
  <2>1. at'[q] = at[q] /\ local'[q] = local[q]
    BY <1>7 DEF TypeOK
  <2> QED BY <1>2, <1>5, <1>7, <2>1, OthersAreKept
<1>8. Origin' /\ ReferenceWasMeasured'
  BY <1>2, <1>5 DEF Origin, ReferenceWasMeasured
<1>9. NotAhead'
  BY <1>2, <1>3 DEF NotAhead
<1>10. ReferenceLagIsBounded'
  <2>1. verified' - update[p].when <= MaxDelay
    BY <1>1, <1>2, <1>3, UpdatesAssumption DEF NotAhead
  <2>2. verified' \in Int
    BY <1>1, <1>2, <1>3
  <2> QED BY <1>2, <1>5, <2>1, <2>2, BoundIsLarger, UpdatesAssumption DEF ReferenceLagIsBounded
<1> QED BY <1>4, <1>6, <1>7, <1>8, <1>9, <1>10

LEMMA AssignReferenceKeepsIInv ==
  ASSUME IInv, NEW p \in Providers, AssignReference(p) PROVE IInv'
<1> USE DEF IInv, Kept, AssignReference, Go, Hold, clockVars, sessionVars
<1>1. PICK v \in ReturnedBy(p) :
        IF v = reference
          THEN Go(p, "select") /\ Hold(p, NoUpdate) /\ UNCHANGED reference
          ELSE Go(p, "announce") /\ Hold(p, v) /\ reference' = v
  OBVIOUS
<1>2. v \in Optional /\ v.source \in Providers
  <2>1. CASE local[p] = NoUpdate
    <3>1. v \in Read /\ last.source \in Providers
      BY <2>1 DEF ReturnedBy, Returned
    <3> QED BY <3>1, ReadIsMeasured DEF Optional
  <2>2. CASE local[p] # NoUpdate
    BY <2>2 DEF ReturnedBy, Returned, TypeOK
  <2> QED BY <2>1, <2>2
<1>3. TypeOK'
  BY <1>1, <1>2 DEF TypeOK, Label, Optional
<1>4. Kept(p)'
  BY <1>1, <1>2 DEF Carried, OnTime, Waiting, Returned, TypeOK
<1>5. ASSUME NEW q \in Providers, q # p PROVE Kept(q)'
  <2>1. at'[q] = at[q] /\ local'[q] = local[q] /\ update' = update /\ last' = last
    BY <1>1, <1>5 DEF TypeOK
  <2> QED BY <1>5, <2>1, OthersAreKept
<1>6. ReferenceWasMeasured'
  BY <1>1, <1>2 DEF ReferenceWasMeasured
<1>7. Origin' /\ NotAhead' /\ ReferenceLagIsBounded'
  BY DEF Origin, NotAhead, ReferenceLagIsBounded
<1> QED BY <1>3, <1>4, <1>5, <1>6, <1>7

LEMMA AnnounceKeepsIInv ==
  ASSUME IInv, NEW p \in Providers, Announce(p) PROVE IInv'
<1> USE DEF IInv, Kept, Announce, Go, Hold, clockVars, sessionVars
<1>1. TypeOK'
  BY DEF TypeOK, Label, Optional
<1>2. Kept(p)'
  BY DEF Carried, OnTime, Waiting, Returned, TypeOK
<1>3. ASSUME NEW q \in Providers, q # p PROVE Kept(q)'
  BY <1>3, OthersAreKept DEF TypeOK
<1>4. ReferenceWasMeasured'
  BY DEF ReferenceWasMeasured, Returned
<1>5. Origin' /\ NotAhead' /\ ReferenceLagIsBounded'
  BY DEF Origin, NotAhead, ReferenceLagIsBounded
<1> QED BY <1>1, <1>2, <1>3, <1>4, <1>5

LEMMA SelectKeepsIInv ==
  ASSUME IInv, NEW p \in Providers, Select(p) PROVE IInv'
<1> USE DEF IInv, Kept, Select, Go, Hold, clockVars, engineVars, sessionVars
<1>1. local'[p] \in {fused, update[p]}
  BY DEF Selected, TypeOK
<1>2. TypeOK'
  <2>1. local' \in [Providers -> Optional]
    BY DEF TypeOK, Selected
  <2> QED BY <2>1 DEF TypeOK, Label
<1>3. Kept(p)'
  BY DEF Carried, OnTime, Waiting, Returned, TypeOK
<1>4. ASSUME NEW q \in Providers, q # p PROVE Kept(q)'
  BY <1>4, OthersAreKept DEF TypeOK
<1>5. Origin' /\ NotAhead' /\ ReferenceWasMeasured' /\ ReferenceLagIsBounded'
  BY DEF Origin, NotAhead, ReferenceWasMeasured, ReferenceLagIsBounded
<1> QED BY <1>2, <1>3, <1>4, <1>5

LEMMA FuseKeepsIInv ==
  ASSUME IInv, NEW p \in Providers, Fuse(p) PROVE IInv'
<1> USE DEF IInv, Kept, Fuse, Go, Hold, clockVars, engineVars
<1>1. update[p].when \in Int /\ update[p].when <= now /\ offered \in Int
  BY DEF Carried, Update, TypeOK
<1>2. offered' \in {offered, update[p].when}
  BY <1>1, LaterIsBoth
<1>3. TypeOK'
  BY <1>1, <1>2 DEF TypeOK, Label
<1>4. Kept(p)'
  BY DEF Carried, OnTime, Waiting, Returned, TypeOK
<1>5. ASSUME NEW q \in Providers, q # p PROVE Kept(q)'
  BY <1>5, OthersAreKept DEF TypeOK
<1>6. Origin' /\ NotAhead' /\ ReferenceWasMeasured' /\ ReferenceLagIsBounded'
  BY <1>1, <1>2 DEF Origin, NotAhead, ReferenceWasMeasured, ReferenceLagIsBounded
<1> QED BY <1>3, <1>4, <1>5, <1>6

LEMMA DeliverKeepsIInv ==
  ASSUME IInv, NEW p \in Providers, Deliver(p) PROVE IInv'
<1> USE DEF IInv, Kept, Deliver, Go, Hold, clockVars, engineVars
<1>1. TypeOK'
  BY DEF TypeOK, Label, Optional
<1>2. Kept(p)'
  BY DEF Carried, OnTime, Waiting, Returned, TypeOK
<1>3. ASSUME NEW q \in Providers, q # p PROVE Kept(q)'
  BY <1>3, OthersAreKept DEF TypeOK
<1>4. Origin' /\ NotAhead' /\ ReferenceWasMeasured' /\ ReferenceLagIsBounded'
  BY DEF Origin, NotAhead, ReferenceWasMeasured, ReferenceLagIsBounded
<1> QED BY <1>1, <1>2, <1>3, <1>4

LEMMA StutterKeepsIInv == IInv /\ UNCHANGED vars => IInv'
BY DEF IInv, TypeOK, Kept, Carried, OnTime, Waiting, Returned, Origin, NotAhead,
       ReferenceLagIsBounded, ReferenceWasMeasured, vars, clockVars, threadVars,
       engineVars, sessionVars

LEMMA IInvIsInductive == IInv /\ [Next]_vars => IInv'
BY TickKeepsIInv, MeasureKeepsIInv, VerifyUpdateKeepsIInv, StoreVerifiedKeepsIInv,
   AssignReferenceKeepsIInv, AnnounceKeepsIInv, SelectKeepsIInv, FuseKeepsIInv,
   DeliverKeepsIInv, StutterKeepsIInv
   DEF Next

LEMMA IInvHolds == Spec => []IInv
BY InitImpliesIInv, IInvIsInductive, PTL DEF Spec

(***************************************************************************)
(* Every variable has its type (engine.cpp 204-207, fusion_provider.cpp    *)
(* 36-55).                                                                 *)
(***************************************************************************)
THEOREM UpdatesAreTyped == Spec => []TypeOK
BY IInvHolds, PTL DEF IInv

(***************************************************************************)
(* The reference does not fall behind what the policy has seen by more     *)
(* than its limit or the delay of an update, whatever the threads of the   *)
(* providers do (time_based_update_policy.cpp 39-122).                     *)
(***************************************************************************)
THEOREM ReferenceKeepsUp == Spec => []ReferenceLagIsBounded
BY IInvHolds, PTL DEF IInv

(***************************************************************************)
(* The reference and what its listeners were told come from a provider     *)
(* (time_based_update_policy.cpp 39-64, engine.cpp 204-207).               *)
(***************************************************************************)
THEOREM ReferenceIsMeasured == Spec => []ReferenceWasMeasured
BY IInvHolds, PTL DEF IInv

-----------------------------------------------------------------------------
(* What holds while one thread delivers all updates. *)

\* Nobody delivers but p.
Alone(p) == \A q \in Providers \ {p} : at[q] \in {"idle", "posted"}

OneByOne == \A p \in Providers : at[p] \in {"idle", "posted"} \/ Alone(p)

\* The last update of the policy, as the engine knows it.
Known == IF reference = NoUpdate THEN Nothing ELSE reference

EngineInStep ==
  /\ (\A p \in Providers : at[p] \notin {"assign", "announce"})
       => told = reference /\ last = Known
  /\ \A p \in Providers :
       /\ at[p] = "assign" =>
            told = reference /\ last = IF local[p] = NoUpdate THEN Known ELSE local[p]
       /\ at[p] = "announce" =>
            reference = local[p] /\ reference # NoUpdate /\ last = reference

\* An update that the session has yet to see is the newest that it is offered.
SessionInStep ==
  /\ (\A p \in Providers : at[p] # "deliver") => position = fused
  /\ \A p \in Providers :
       /\ at[p] = "deliver" => local[p] = fused
       /\ at[p] \in {"write", "assign", "announce", "select", "fuse"} =>
            offered <= update[p].when
       /\ at[p] = "fuse" =>
            \/ local[p] = update[p]
            \/ /\ fused # NoUpdate /\ local[p] = fused
               /\ update[p].when <= fused.when + Cutoff
  /\ fused # NoUpdate => offered <= fused.when + Cutoff

InStep == OneByOne /\ EngineInStep /\ SessionInStep

ThreadInv == OneThread => InStep

\* With one thread, a step of p is one while nobody else delivers.
LEMMA StepsAreAlone ==
  ASSUME IInv, OneThread, OneByOne, NEW p \in Providers,
         VerifyUpdate(p) \/ at[p] \notin {"idle", "posted"}
  PROVE  Alone(p)
BY DEF OneByOne, OneThread, VerifyUpdate, MayDeliver, Alone

LEMMA StepsStayAlone ==
  ASSUME IInv, NEW p \in Providers, Alone(p), NEW label, at' = [at EXCEPT ![p] = label]
  PROVE  /\ OneByOne'
         /\ \A q \in Providers \ {p} : at'[q] \in {"idle", "posted"}
BY DEF IInv, TypeOK, OneByOne, Alone

LEMMA InitInStep == Init => InStep
BY UpdatesAssumption
   DEF Init, InStep, OneByOne, EngineInStep, SessionInStep, Known

LEMMA EarlyStepsKeepInStep ==
  ASSUME IInv, OneThread, InStep,
         Tick \/ UNCHANGED vars \/ \E p \in Providers : Measure(p)
  PROVE  InStep'
<1>1. CASE Tick
  BY <1>1 DEF Tick, InStep, OneByOne, EngineInStep, SessionInStep, Known, Alone,
              threadVars, engineVars, sessionVars
<1>2. CASE UNCHANGED vars
  BY <1>2 DEF vars, InStep, OneByOne, EngineInStep, SessionInStep, Known, Alone,
              threadVars, engineVars, sessionVars
<1>3. ASSUME NEW p \in Providers, Measure(p) PROVE InStep'
  <2>1. /\ at[p] = "idle" /\ at' = [at EXCEPT ![p] = "posted"]
        /\ \A q \in Providers \ {p} : update'[q] = update[q]
        /\ UNCHANGED <<local, last, reference, told, verified, fused, position, offered>>
    BY <1>3 DEF Measure, Go, engineVars, sessionVars, IInv, TypeOK
  <2>2. \A q \in Providers : at'[q] = IF q = p THEN "posted" ELSE at[q]
    BY <2>1 DEF IInv, TypeOK
  <2>3. OneByOne'
    BY <2>1, <2>2 DEF InStep, OneByOne, Alone
  <2>4. EngineInStep'
    BY <2>1, <2>2 DEF InStep, EngineInStep, Known
  <2>5. SessionInStep'
    BY <2>1, <2>2 DEF InStep, SessionInStep
  <2> QED BY <2>3, <2>4, <2>5 DEF InStep
<1> QED BY <1>1, <1>2, <1>3

LEMMA VerifyUpdateKeepsInStep ==
  ASSUME IInv, OneThread, InStep, NEW p \in Providers, VerifyUpdate(p) PROVE InStep'
<1>1. Alone(p)
  BY StepsAreAlone DEF InStep
<1>2. PICK label \in {"write", "assign"} : at' = [at EXCEPT ![p] = label]
  BY DEF VerifyUpdate, Go
<1>3. at'[p] = label /\ \A q \in Providers \ {p} : at'[q] \in {"idle", "posted"}
  BY <1>1, <1>2, StepsStayAlone DEF IInv, TypeOK
<1>4. /\ at[p] = "posted"
      /\ UNCHANGED <<local, last, reference, told, fused, position, offered>>
  BY DEF VerifyUpdate, sessionVars
<1>5. local[p] = NoUpdate
  BY <1>4 DEF IInv, Kept, Waiting
<1>6. OneByOne'
  BY <1>1, <1>2, StepsStayAlone
<1>7. EngineInStep'
  BY <1>1, <1>3, <1>4, <1>5 DEF InStep, EngineInStep, Known, Alone
<1>8. SessionInStep'
  <2>1. update[p] \in Update /\ now \in Int
    BY <1>4 DEF IInv, Kept, Carried, TypeOK
  <2>2. update'[p].when = now
    BY <2>1, DeliveredIsTheUpdate DEF VerifyUpdate, OneThread, IInv, TypeOK
  <2>3. offered <= update'[p].when
    BY <2>2 DEF IInv, NotAhead
  <2> QED BY <1>1, <1>3, <1>4, <2>3 DEF InStep, SessionInStep, Alone
<1> QED BY <1>6, <1>7, <1>8 DEF InStep

LEMMA StoreVerifiedKeepsInStep ==
  ASSUME IInv, OneThread, InStep, NEW p \in Providers, StoreVerified(p) PROVE InStep'
<1>1. Alone(p)
  BY StepsAreAlone DEF InStep, StoreVerified
<1>2. at' = [at EXCEPT ![p] = "assign"]
  BY DEF StoreVerified, Go
<1>3. at'[p] = "assign" /\ \A q \in Providers \ {p} : at'[q] \in {"idle", "posted"}
  BY <1>1, <1>2, StepsStayAlone DEF IInv, TypeOK
<1>4. /\ at[p] = "write" /\ last' = update[p] /\ local'[p] = update[p]
      /\ UNCHANGED <<update, reference, told, fused, position, offered>>
  BY DEF StoreVerified, Hold, sessionVars, IInv, TypeOK
<1>5. update[p] # NoUpdate
  BY <1>4, NoUpdateAssumption DEF IInv, Kept, Carried
<1>6. OneByOne'
  BY <1>1, <1>2, StepsStayAlone
<1>7. EngineInStep'
  BY <1>1, <1>3, <1>4, <1>5 DEF InStep, EngineInStep, Known, Alone
<1>8. SessionInStep'
  BY <1>1, <1>3, <1>4 DEF InStep, SessionInStep, Alone
<1> QED BY <1>6, <1>7, <1>8 DEF InStep

LEMMA AssignReferenceKeepsInStep ==
  ASSUME IInv, OneThread, InStep, NEW p \in Providers, AssignReference(p) PROVE InStep'
<1>1. Alone(p)
  BY StepsAreAlone DEF InStep, AssignReference
<1>2. PICK v \in ReturnedBy(p) :
        IF v = reference
          THEN Go(p, "select") /\ Hold(p, NoUpdate) /\ UNCHANGED reference
          ELSE Go(p, "announce") /\ Hold(p, v) /\ reference' = v
  BY DEF AssignReference
<1>3. /\ at[p] = "assign" /\ told = reference
      /\ last = IF local[p] = NoUpdate THEN Known ELSE local[p]
      /\ UNCHANGED <<update, last, told, fused, position, offered>>
  BY DEF AssignReference, sessionVars, InStep, EngineInStep
<1>4. v = last
  <2>1. CASE local[p] = NoUpdate
    <3>1. \A q \in Providers : at[q] # "write"
      BY <1>1, <1>3 DEF Alone
    <3>2. Read = {last}
      BY <3>1 DEF Read
    <3> QED BY <2>1, <3>2 DEF ReturnedBy
  <2>2. CASE local[p] # NoUpdate
    BY <1>3, <2>2 DEF ReturnedBy
  <2> QED BY <2>1, <2>2
<1>5. last # NoUpdate
  BY NoUpdateAssumption DEF IInv, TypeOK
<1>6. local[p] = NoUpdate => reference # NoUpdate /\ last = reference
  <2>1. local[p] = NoUpdate => last # Nothing
    BY <1>3, UpdatesAssumption DEF IInv, Kept, Returned, Nothing
  <2> QED BY <1>3, <2>1 DEF Known
<1>7. PICK label \in {"select", "announce"} : at' = [at EXCEPT ![p] = label]
  BY <1>2 DEF Go
<1>8. at'[p] = label /\ \A q \in Providers \ {p} : at'[q] \in {"idle", "posted"}
  BY <1>1, <1>7, StepsStayAlone DEF IInv, TypeOK
<1>9. OneByOne'
  BY <1>1, <1>7, StepsStayAlone
<1>10. EngineInStep'
  <2>1. CASE v = reference
    <3>1. at'[p] = "select" /\ reference' = reference /\ last' = reference
      BY <1>2, <1>3, <1>4, <2>1 DEF Go, IInv, TypeOK
    <3> QED BY <1>3, <1>4, <1>5, <1>8, <2>1, <3>1 DEF EngineInStep, Known
  <2>2. CASE v # reference
    <3>1. at'[p] = "announce" /\ reference' = last /\ local'[p] = last
      BY <1>2, <1>4, <2>2 DEF Go, Hold, IInv, TypeOK
    <3> QED BY <1>3, <1>5, <1>8, <3>1 DEF EngineInStep, Known
  <2> QED BY <2>1, <2>2
<1>11. SessionInStep'
  BY <1>1, <1>3, <1>8 DEF InStep, SessionInStep, Alone
<1> QED BY <1>9, <1>10, <1>11 DEF InStep

LEMMA AnnounceKeepsInStep ==
  ASSUME IInv, OneThread, InStep, NEW p \in Providers, Announce(p) PROVE InStep'
<1>1. Alone(p)
  BY StepsAreAlone DEF InStep, Announce
<1>2. at' = [at EXCEPT ![p] = "select"]
  BY DEF Announce, Go
<1>3. at'[p] = "select" /\ \A q \in Providers \ {p} : at'[q] \in {"idle", "posted"}
  BY <1>1, <1>2, StepsStayAlone DEF IInv, TypeOK
<1>4. /\ at[p] = "announce" /\ told' = local[p]
      /\ UNCHANGED <<update, last, reference, fused, position, offered>>
  BY DEF Announce, sessionVars
<1>5. OneByOne'
  BY <1>1, <1>2, StepsStayAlone
<1>6. EngineInStep'
  BY <1>3, <1>4 DEF InStep, EngineInStep, Known
<1>7. SessionInStep'
  BY <1>1, <1>3, <1>4 DEF InStep, SessionInStep, Alone
<1> QED BY <1>5, <1>6, <1>7 DEF InStep

LEMMA SelectKeepsInStep ==
  ASSUME IInv, OneThread, InStep, NEW p \in Providers, Select(p) PROVE InStep'
<1>1. Alone(p)
  BY StepsAreAlone DEF InStep, Select
<1>2. at' = [at EXCEPT ![p] = "fuse"]
  BY DEF Select, Go
<1>3. at'[p] = "fuse" /\ \A q \in Providers \ {p} : at'[q] \in {"idle", "posted"}
  BY <1>1, <1>2, StepsStayAlone DEF IInv, TypeOK
<1>4. /\ at[p] = "select"
      /\ local'[p] = IF fused = NoUpdate THEN update[p] ELSE Selected(fused, update[p])
      /\ UNCHANGED <<update, last, reference, told, fused, position, offered>>
  BY DEF Select, Hold, engineVars, sessionVars, IInv, TypeOK
<1>5. OneByOne'
  BY <1>1, <1>2, StepsStayAlone
<1>6. EngineInStep'
  BY <1>1, <1>3, <1>4 DEF InStep, EngineInStep, Known, Alone
<1>7. \/ local'[p] = update[p]
      \/ /\ fused # NoUpdate /\ local'[p] = fused
         /\ update[p].when <= fused.when + Cutoff
  <2>1. CASE fused = NoUpdate
    BY <1>4, <2>1
  <2>2. CASE fused # NoUpdate
    <3>1. fused \in Update /\ update[p] \in Update
      BY <1>4, <2>2 DEF IInv, TypeOK, Optional, Kept, Carried
    <3>2. fused.when \in Int /\ update[p].when \in Int
      BY <3>1 DEF Update
    <3> QED BY <1>4, <2>2, <3>2, UpdatesAssumption DEF Selected
  <2> QED BY <2>1, <2>2
<1>8. SessionInStep'
  BY <1>1, <1>3, <1>4, <1>7 DEF InStep, SessionInStep, Alone
<1> QED BY <1>5, <1>6, <1>8 DEF InStep

LEMMA FuseKeepsInStep ==
  ASSUME IInv, OneThread, InStep, NEW p \in Providers, Fuse(p) PROVE InStep'
<1>1. Alone(p)
  BY StepsAreAlone DEF InStep, Fuse
<1>2. at' = [at EXCEPT ![p] = "deliver"]
  BY DEF Fuse, Go
<1>3. at'[p] = "deliver" /\ \A q \in Providers \ {p} : at'[q] \in {"idle", "posted"}
  BY <1>1, <1>2, StepsStayAlone DEF IInv, TypeOK
<1>4. /\ at[p] = "fuse" /\ fused' = local[p]
      /\ offered' = IF fused = NoUpdate THEN update[p].when ELSE Later(offered, update[p].when)
      /\ UNCHANGED <<update, local, last, reference, told>>
  BY DEF Fuse, engineVars
<1>5. OneByOne'
  BY <1>1, <1>2, StepsStayAlone
<1>6. EngineInStep'
  BY <1>1, <1>3, <1>4 DEF InStep, EngineInStep, Known, Alone
<1>7. fused' # NoUpdate => offered' <= fused'.when + Cutoff
  <2>1. update[p].when \in Int /\ offered \in Int
    BY <1>4 DEF IInv, TypeOK, Kept, Carried, Update
  <2>2. offered <= update[p].when
    BY <1>4 DEF InStep, SessionInStep
  <2>3. offered' = update[p].when
    BY <1>4, <2>1, <2>2 DEF Later
  <2>4. \/ local[p] = update[p]
        \/ local[p] = fused /\ update[p].when <= fused.when + Cutoff
    BY <1>4 DEF InStep, SessionInStep
  <2> QED BY <1>4, <2>1, <2>3, <2>4, UpdatesAssumption
<1>8. SessionInStep'
  BY <1>3, <1>4, <1>7 DEF SessionInStep
<1> QED BY <1>5, <1>6, <1>8 DEF InStep

LEMMA DeliverKeepsInStep ==
  ASSUME IInv, OneThread, InStep, NEW p \in Providers, Deliver(p) PROVE InStep'
<1>1. Alone(p)
  BY StepsAreAlone DEF InStep, Deliver
<1>2. at' = [at EXCEPT ![p] = "idle"]
  BY DEF Deliver, Go
<1>3. at'[p] = "idle" /\ \A q \in Providers \ {p} : at'[q] \in {"idle", "posted"}
  BY <1>1, <1>2, StepsStayAlone DEF IInv, TypeOK
<1>4. /\ at[p] = "deliver" /\ position' = local[p]
      /\ UNCHANGED <<last, reference, told, fused, offered>>
  BY DEF Deliver, SameUpdate, engineVars
<1>5. OneByOne'
  BY <1>1, <1>2, StepsStayAlone
<1>6. EngineInStep'
  BY <1>1, <1>3, <1>4 DEF InStep, EngineInStep, Known, Alone
<1>7. SessionInStep'
  BY <1>3, <1>4 DEF InStep, SessionInStep
<1> QED BY <1>5, <1>6, <1>7 DEF InStep

LEMMA ThreadInvIsInductive == IInv /\ ThreadInv /\ [Next]_vars => ThreadInv'
<1> SUFFICES ASSUME IInv, ThreadInv, [Next]_vars, OneThread' PROVE InStep'
  BY DEF ThreadInv
<1>1. remote' = remote
  BY DEF Next, Tick, Measure, VerifyUpdate, StoreVerified, AssignReference, Announce,
         Select, Fuse, Deliver, vars
<1>2. OneThread /\ InStep
  BY <1>1 DEF OneThread, ThreadInv
<1> QED
  BY <1>2, EarlyStepsKeepInStep, VerifyUpdateKeepsInStep, StoreVerifiedKeepsInStep,
     AssignReferenceKeepsInStep, AnnounceKeepsInStep, SelectKeepsInStep,
     FuseKeepsInStep, DeliverKeepsInStep
     DEF Next

LEMMA ThreadInvMeansProperties ==
  IInv /\ ThreadInv => ReferenceIsVerified /\ SessionLagIsBounded /\ SessionIsUpToDate
<1> SUFFICES ASSUME IInv, ThreadInv, OneThread, Quiet
             PROVE  /\ told = reference /\ last = Known
                    /\ fused # NoUpdate => offered - fused.when <= Cutoff
                    /\ position = fused
  BY DEF ReferenceIsVerified, SessionLagIsBounded, SessionIsUpToDate, Known
<1>1. InStep /\ \A p \in Providers : at[p] \in {"idle", "posted"}
  BY DEF ThreadInv, Quiet
<1>2. told = reference /\ last = Known /\ position = fused
  BY <1>1 DEF InStep, EngineInStep, SessionInStep
<1>3. ASSUME fused # NoUpdate PROVE offered - fused.when <= Cutoff
  <2>1. fused.when \in Int /\ offered \in Int
    BY <1>3 DEF IInv, TypeOK, Optional, Update
  <2>2. offered <= fused.when + Cutoff
    BY <1>1, <1>3 DEF InStep, SessionInStep
  <2> QED BY <2>1, <2>2, UpdatesAssumption
<1> QED BY <1>2, <1>3

(***************************************************************************)
(* While one thread delivers all updates, the engine, its policy and its   *)
(* listeners agree after each of them, a session has what was selected for *)
(* it and does not fall behind by more than the cutoff (engine.cpp         *)
(* 204-207, fusion_provider.cpp 36-55).                                    *)
(***************************************************************************)
THEOREM OneThreadKeepsInStep ==
  Spec => [](ReferenceIsVerified /\ SessionLagIsBounded /\ SessionIsUpToDate)
<1>1. Init => ThreadInv
  BY InitInStep DEF ThreadInv
<1> QED BY <1>1, IInvHolds, ThreadInvIsInductive, ThreadInvMeansProperties, PTL DEF Spec

-----------------------------------------------------------------------------
(* Harvesting (harvester.cpp 38-79, ichnaea_reporter.cpp 223-246).         *)

LEMMA HarvestInitInv ==
  ASSUME Harvest!Init
  PROVE  Harvest!HarvestInv
  <1> USE HarvestAssumption DEF Harvest!Init, Harvest!Setters, Harvest!Label
  <1>1. Harvest!TypeOK
    <2>1. {hPatient, hWanted, hReporting, hRunning, hFailed, hKilled} \subseteq BOOLEAN
      OBVIOUS
    <2>2. hDoing \in [Harvest!Setters -> Harvest!Label] /\ hValue \in [Harvest!Setters -> BOOLEAN]
      OBVIOUS
    <2>3. hSets \in 0 .. MaxSets /\ hLate \in 0 .. 2
      OBVIOUS
    <2> QED
      BY <2>1, <2>2, <2>3 DEF Harvest!TypeOK
  <1>2. Harvest!LateOnce /\ Harvest!OneAtATime
    BY DEF Harvest!LateOnce, Harvest!OneAtATime
  <1>3. \A t \in Harvest!Setters : hDoing[t] \in {"read", "idle"}
    OBVIOUS
  <1>4. Harvest!WorkersFollow
    BY <1>3 DEF Harvest!WorkersFollow
  <1>5. Harvest!SwitchFollows
    BY <1>3 DEF Harvest!SwitchFollows, Harvest!Agrees, Harvest!Settled
  <1> QED
    BY <1>1, <1>2, <1>4, <1>5 DEF Harvest!HarvestInv

LEMMA HarvestTypeStep ==
  ASSUME Harvest!TypeOK, Harvest!Next \/ UNCHANGED harvestVars
  PROVE  Harvest!TypeOK'
  <1> USE HarvestAssumption DEF Harvest!TypeOK, Harvest!Setters, Harvest!Label, Harvest!Go
  <1>1. CASE Harvest!Construct
    BY <1>1 DEF Harvest!Construct
  <1>2. CASE Harvest!BeginReport
    BY <1>2 DEF Harvest!BeginReport
  <1>3. CASE Harvest!EndReport
    BY <1>3 DEF Harvest!EndReport
  <1>4. ASSUME NEW v \in BOOLEAN, Harvest!ClientSets(v)
        PROVE  Harvest!TypeOK'
    BY <1>4 DEF Harvest!ClientSets
  <1>5. ASSUME NEW t \in Harvest!Setters, Harvest!Assign(t)
        PROVE  Harvest!TypeOK'
    BY <1>5 DEF Harvest!Assign
  <1>6. ASSUME NEW t \in Harvest!Setters, Harvest!SetEngine(t)
        PROVE  Harvest!TypeOK'
    BY <1>6 DEF Harvest!SetEngine
  <1>7. ASSUME NEW t \in Harvest!Setters, Harvest!Check(t)
        PROVE  Harvest!TypeOK'
    BY <1>7 DEF Harvest!Check
  <1>8. ASSUME NEW t \in Harvest!Setters, Harvest!Exchange(t)
        PROVE  Harvest!TypeOK'
    BY <1>8 DEF Harvest!Exchange
  <1>9. ASSUME NEW t \in Harvest!Setters, Harvest!TellReporters(t)
        PROVE  Harvest!TypeOK'
    BY <1>9 DEF Harvest!TellReporters, Harvest!Joined
  <1>10. CASE UNCHANGED harvestVars
    BY <1>10 DEF harvestVars
  <1> QED
    BY <1>1, <1>2, <1>3, <1>4, <1>5, <1>6, <1>7, <1>8, <1>9, <1>10 DEF Harvest!Next

LEMMA LateStep ==
  ASSUME Harvest!TypeOK, Harvest!LateOnce, Harvest!Next \/ UNCHANGED harvestVars
  PROVE  Harvest!LateOnce'
  <1> USE DEF Harvest!TypeOK, Harvest!LateOnce, Harvest!Setters
  <1>1. CASE Harvest!BeginReport
    BY <1>1 DEF Harvest!BeginReport, Harvest!MayReport
  <1>2. CASE Harvest!EndReport
    BY <1>2 DEF Harvest!EndReport
  <1>3. ASSUME NEW t \in Harvest!Setters, Harvest!Exchange(t)
        PROVE  Harvest!LateOnce'
    BY <1>3 DEF Harvest!Exchange
  <1>4. CASE UNCHANGED <<hRunning, hLate, hReport>>
    BY <1>4
  <1> QED
    BY <1>1, <1>2, <1>3, <1>4 DEF Harvest!Next, Harvest!Construct, Harvest!ClientSets,
       Harvest!Assign, Harvest!SetEngine, Harvest!Check, Harvest!TellReporters, harvestVars

\* While clients wait, the other thread rests.
LEMMA OneAtATimeStep ==
  ASSUME Harvest!TypeOK, hPatient, Harvest!OneAtATime, Harvest!Next \/ UNCHANGED harvestVars
  PROVE  Harvest!OneAtATime'
  <1> USE DEF Harvest!TypeOK, Harvest!OneAtATime, Harvest!Setters, Harvest!Go
  <1>1. CASE Harvest!Construct
    BY <1>1 DEF Harvest!Construct
  <1>2. ASSUME NEW v \in BOOLEAN, Harvest!ClientSets(v)
        PROVE  Harvest!OneAtATime'
    BY <1>2 DEF Harvest!ClientSets
  <1>3. ASSUME NEW t \in Harvest!Setters, hDoing[t] # "idle", NEW l, Harvest!Go(t, l)
        PROVE  Harvest!OneAtATime'
    BY <1>3
  <1>4. CASE UNCHANGED hDoing
    BY <1>4
  <1>5. ASSUME NEW t \in Harvest!Setters,
               \/ Harvest!Assign(t) \/ Harvest!SetEngine(t) \/ Harvest!Check(t)
               \/ Harvest!Exchange(t) \/ Harvest!TellReporters(t)
        PROVE  Harvest!OneAtATime'
    <2>1. hDoing[t] # "idle" /\ \E l : Harvest!Go(t, l)
      BY <1>5 DEF Harvest!Assign, Harvest!SetEngine, Harvest!Check, Harvest!Exchange,
         Harvest!TellReporters
    <2> QED
      BY <1>3, <2>1
  <1> QED
    BY <1>1, <1>2, <1>4, <1>5 DEF Harvest!Next, Harvest!BeginReport, Harvest!EndReport, harvestVars

LEMMA WorkersStep ==
  ASSUME Harvest!TypeOK, hPatient, Harvest!OneAtATime, Harvest!WorkersFollow,
         Harvest!Next \/ UNCHANGED harvestVars
  PROVE  Harvest!WorkersFollow'
  <1> USE DEF Harvest!TypeOK, Harvest!OneAtATime, Harvest!Setters, Harvest!Go, Harvest!WorkersFollow
  <1>1. CASE Harvest!Construct
    BY <1>1 DEF Harvest!Construct
  <1>2. ASSUME NEW v \in BOOLEAN, Harvest!ClientSets(v)
        PROVE  Harvest!WorkersFollow'
    BY <1>2 DEF Harvest!ClientSets
  <1>3. ASSUME NEW t \in Harvest!Setters, Harvest!Assign(t)
        PROVE  Harvest!WorkersFollow'
    BY <1>3 DEF Harvest!Assign
  <1>4. ASSUME NEW t \in Harvest!Setters, Harvest!SetEngine(t)
        PROVE  Harvest!WorkersFollow'
    BY <1>4 DEF Harvest!SetEngine
  <1>5. ASSUME NEW t \in Harvest!Setters, Harvest!Check(t)
        PROVE  Harvest!WorkersFollow'
    BY <1>5 DEF Harvest!Check
  <1>6. ASSUME NEW t \in Harvest!Setters, Harvest!Exchange(t)
        PROVE  Harvest!WorkersFollow'
    BY <1>6 DEF Harvest!Exchange
  <1>7. ASSUME NEW t \in Harvest!Setters, Harvest!TellReporters(t)
        PROVE  Harvest!WorkersFollow'
    BY <1>7 DEF Harvest!TellReporters, Harvest!Joined
  <1>8. CASE UNCHANGED <<hRunning, hWorker, hDoing, hValue, hKilled>>
    BY <1>8
  <1> QED
    BY <1>1, <1>2, <1>3, <1>4, <1>5, <1>6, <1>7, <1>8 DEF Harvest!Next, Harvest!BeginReport,
       Harvest!EndReport, harvestVars

LEMMA SwitchStep ==
  ASSUME Harvest!TypeOK, hPatient, Harvest!OneAtATime, ~hFailed => Harvest!SwitchFollows,
         Harvest!WorkersFollow, ~hFailed', Harvest!Next \/ UNCHANGED harvestVars
  PROVE  Harvest!SwitchFollows'
  <1>0. ~hFailed
    BY DEF Harvest!Next, Harvest!Construct, Harvest!BeginReport, Harvest!EndReport,
       Harvest!ClientSets, Harvest!Assign, Harvest!SetEngine, Harvest!Check, Harvest!Exchange,
       Harvest!TellReporters, harvestVars
  <1> USE <1>0 DEF Harvest!TypeOK, Harvest!OneAtATime, Harvest!Setters, Harvest!Label, Harvest!Go, 
          Harvest!SwitchFollows, Harvest!Agrees, Harvest!Settled
  <1>1. CASE Harvest!Construct
    BY <1>1 DEF Harvest!Construct
  <1>2. ASSUME NEW v \in BOOLEAN, Harvest!ClientSets(v)
        PROVE  Harvest!SwitchFollows'
    BY <1>2 DEF Harvest!ClientSets
  <1>3. ASSUME NEW t \in Harvest!Setters, Harvest!Assign(t)
        PROVE  Harvest!SwitchFollows'
    BY <1>3 DEF Harvest!Assign
  <1>4. ASSUME NEW t \in Harvest!Setters, Harvest!SetEngine(t)
        PROVE  Harvest!SwitchFollows'
    BY <1>4 DEF Harvest!SetEngine
  <1>5. ASSUME NEW t \in Harvest!Setters, Harvest!Check(t)
        PROVE  Harvest!SwitchFollows'
    <2>1. hWanted = hValue[t] /\ hReporting = hValue[t] /\ \A u \in Harvest!Setters \ {t} : hDoing[u] = "idle"
      BY <1>5 DEF Harvest!Check
    <2>2. \A u \in Harvest!Setters \ {t} : hDoing'[u] = "idle"
      BY <1>5, <2>1 DEF Harvest!Check
    <2>3. CASE hRunning = hValue[t]
      <3>1. hDoing'[t] = "idle" /\ UNCHANGED <<hRunning, hWanted, hReporting, hValue>>
        BY <1>5, <2>3 DEF Harvest!Check
      <3> QED
        BY <2>1, <2>2, <2>3, <3>1
    <2>4. CASE hRunning # hValue[t]
      <3>1. hDoing'[t] = "exchange" /\ UNCHANGED <<hRunning, hWanted, hReporting, hValue>>
        BY <1>5, <2>4 DEF Harvest!Check
      <3> QED
        BY <2>1, <2>2, <3>1
    <2> QED
      BY <2>3, <2>4
  <1>6. ASSUME NEW t \in Harvest!Setters, Harvest!Exchange(t)
        PROVE  Harvest!SwitchFollows'
    BY <1>6 DEF Harvest!Exchange
  <1>7. ASSUME NEW t \in Harvest!Setters, Harvest!TellReporters(t)
        PROVE  Harvest!SwitchFollows'
    <2>1. /\ hWanted = hValue[t] /\ hReporting = hValue[t]
          /\ \A u \in Harvest!Setters \ {t} : hDoing[u] = "idle"
      BY <1>7 DEF Harvest!TellReporters
    <2>2. hRunning = hValue[t]
      BY <1>7 DEF Harvest!TellReporters, Harvest!WorkersFollow
    <2>3. /\ \A u \in Harvest!Setters : hDoing'[u] = "idle"
          /\ UNCHANGED <<hRunning, hWanted, hReporting, hValue>>
      BY <1>7, <2>1 DEF Harvest!TellReporters
    <2> QED
      BY <2>1, <2>2, <2>3
  <1>8. CASE UNCHANGED <<hRunning, hWanted, hReporting, hDoing, hValue>>
    BY <1>8
  <1> QED
    BY <1>1, <1>2, <1>3, <1>4, <1>5, <1>6, <1>7, <1>8 DEF Harvest!Next, Harvest!BeginReport,
       Harvest!EndReport, harvestVars

LEMMA HarvestStepInv ==
  ASSUME Harvest!HarvestInv, Harvest!Next \/ UNCHANGED harvestVars
  PROVE  Harvest!HarvestInv'
  <1>1. hPatient' = hPatient
    BY DEF Harvest!Next, Harvest!Construct, Harvest!BeginReport, Harvest!EndReport,
       Harvest!ClientSets, Harvest!Assign, Harvest!SetEngine, Harvest!Check, Harvest!Exchange,
       Harvest!TellReporters, harvestVars
  <1> QED
    BY <1>1, HarvestTypeStep, LateStep, OneAtATimeStep, WorkersStep, SwitchStep DEF Harvest!HarvestInv

LEMMA HarvestImplies ==
  ASSUME Harvest!HarvestInv
  PROVE  /\ Harvest!HarvestFollowsSwitch
         /\ Harvest!NoJoinableIsAssigned
         /\ Harvest!AtMostOneLateReport
  <1>1. ASSUME hPatient, ~hFailed, Harvest!Settled
        PROVE  hRunning = hWanted /\ hReporting = hWanted /\ hWorker = IF hWanted THEN Reporters ELSE {}
    <2>1. hRunning = hWanted /\ hReporting = hWanted
      BY <1>1 DEF Harvest!HarvestInv, Harvest!SwitchFollows
    <2>2. ~\E t \in Harvest!Setters : hDoing[t] = "reporter"
      BY <1>1 DEF Harvest!Settled
    <2>3. CASE hRunning
      BY <1>1, <2>1, <2>2, <2>3 DEF Harvest!HarvestInv, Harvest!WorkersFollow
    <2>4. CASE ~hRunning
      <3>1. hWanted = FALSE
        BY <2>1, <2>4 DEF Harvest!HarvestInv, Harvest!TypeOK
      <3>2. hWorker = {}
        <4>1. hRunning = FALSE
          BY <2>4 DEF Harvest!HarvestInv, Harvest!TypeOK
        <4> QED
          BY <1>1, <2>2, <4>1 DEF Harvest!HarvestInv, Harvest!WorkersFollow
      <3> QED
        BY <2>1, <3>1, <3>2
    <2> QED
      BY <2>1, <2>3, <2>4
  <1>2. hPatient => ~hKilled
    BY DEF Harvest!HarvestInv, Harvest!WorkersFollow
  <1> QED
    BY <1>1, <1>2 DEF Harvest!HarvestFollowsSwitch, Harvest!NoJoinableIsAssigned,
       Harvest!AtMostOneLateReport, Harvest!HarvestInv, Harvest!LateOnce

-----------------------------------------------------------------------------
(* The reference time (sntp_client.cpp 89-168, sntp_client.h).             *)

LEMMA SntpInitInv ==
  ASSUME Sntp!Init
  PROVE  Sntp!SntpInv
  BY DEF Sntp!Init, Sntp!SntpInv, Sntp!TypeOK, Sntp!TimerInv, Sntp!SocketInv, Sntp!Step

LEMMA SntpStepInv ==
  ASSUME Sntp!SntpInv, Sntp!Next \/ UNCHANGED sntpVars
  PROVE  Sntp!SntpInv'
  <1> USE DEF Sntp!SntpInv, Sntp!TypeOK, Sntp!TimerInv, Sntp!SocketInv, Sntp!Step
  <1>1. CASE Sntp!Expire
    BY <1>1 DEF Sntp!Expire
  <1>2. CASE Sntp!TimerHandler
    BY <1>2 DEF Sntp!TimerHandler
  <1>3. CASE Sntp!Complete
    BY <1>3 DEF Sntp!Complete
  <1>4. CASE Sntp!Resolve
    BY <1>4 DEF Sntp!Resolve, Sntp!Begin
  <1>5. CASE Sntp!Connect
    BY <1>5 DEF Sntp!Connect, Sntp!Begin
  <1>6. CASE Sntp!Transfer
    BY <1>6 DEF Sntp!Transfer, Sntp!Begin
  <1>7. CASE Sntp!Wake
    BY <1>7 DEF Sntp!Wake, Sntp!Waiting, Sntp!After
  <1>8. CASE Sntp!CheckDeadline
    BY <1>8 DEF Sntp!CheckDeadline
  <1>9. CASE Sntp!Answer
    BY <1>9 DEF Sntp!Answer
  <1>10. CASE UNCHANGED sntpVars
    BY <1>10 DEF sntpVars
  <1> QED
    BY <1>1, <1>2, <1>3, <1>4, <1>5, <1>6, <1>7, <1>8, <1>9, <1>10 DEF Sntp!Next

\* The seconds of a time, and what is left.
LEMMA Divided ==
  ASSUME NEW t \in Nat, NEW n \in Nat \ {0}
  PROVE  /\ t \div n \in Nat /\ (t % n) \in 0 .. (n - 1)
         /\ t = (t \div n) * n + (t % n)
  BY SMT

\* What Timestamp makes of a fraction of a second: nothing, or a unit.
LEMMA FractionIsLost ==
  ASSUME NEW x \in Nat, NEW n \in Nat \ {0, 1}
  PROVE  (x % n) \div (n - 1) \in {0, 1}
  <1> DEFINE y == x % n
             m == n - 1
             q == y \div m
  <1>1. y \in 0 .. m /\ m \in Nat \ {0}
    BY Divided
  <1> HIDE DEF y, m
  <1>2. q \in Nat /\ (y % m) \in 0 .. (m - 1) /\ y = q * m + (y % m)
    <2>1. y \in Nat
      BY <1>1
    <2>2. y \div m \in Nat /\ (y % m) \in 0 .. (m - 1) /\ y = (y \div m) * m + (y % m)
      BY <1>1, <2>1, Divided
    <2> QED
      BY <2>2
  <1> HIDE DEF q
  <1>3. ASSUME q >= 2 PROVE FALSE
    <2>1. q * m >= 2 * m
      BY <1>1, <1>2, <1>3
    <2> QED
      BY <2>1, <1>1, <1>2
  <1>4. q \in {0, 1}
    BY <1>2, <1>3
  <1> QED
    BY <1>4 DEF q, y, m

\* A stamp of this era is at most a second behind the time it was made of, and
\* a unit ahead.
LEMMA StampIsTrue ==
  ASSUME NEW t \in Nat, NEW f \in Nat, SntpAssumption, t \div Second + Since1900 < Range
  PROVE  LET stamp == [seconds |-> (t \div Second + Since1900) % Range, fraction |-> f]
         IN  /\ Sntp!ToMilliseconds(stamp) \in Int
             /\ Sntp!ToMilliseconds(stamp) <= t + 1
             /\ Sntp!ToMilliseconds(stamp) > t - Second
  <1> DEFINE q == t \div Second
             r == t % Second
             x == f * Second
             u == (x % Fraction) \div (Fraction - 1)
             stamp == [seconds |-> (q + Since1900) % Range, fraction |-> f]
  <1>1. Second \in Nat \ {0} /\ Fraction \in Nat \ {0, 1} /\ Since1900 \in Nat /\ Range \in Int
    BY DEF SntpAssumption
  <1>2. q \in Nat /\ r \in 0 .. (Second - 1) /\ t = q * Second + r
    BY <1>1, Divided
  <1>3. x \in Nat
    BY <1>1
  <1>4. u \in {0, 1}
    BY <1>1, <1>3, FractionIsLost
  <1>5. (q + Since1900) % Range = q + Since1900
    <2> HIDE DEF q
    <2> QED
      BY <1>1, <1>2 DEF q
  <1>6. Sntp!ToMilliseconds(stamp) = ((q + Since1900) - Since1900) * Second + u
    <2> HIDE DEF q
    <2> QED
      BY <1>5 DEF Sntp!ToMilliseconds
  <1> HIDE DEF q, r, u
  <1>7. ((q + Since1900) - Since1900) * Second + u = t - r + u
    BY <1>1, <1>2, <1>4
  <1>8. Sntp!ToMilliseconds(stamp) = t - r + u
    BY <1>6, <1>7
  <1> HIDE DEF stamp
  <1>9. /\ Sntp!ToMilliseconds(stamp) \in Int
        /\ Sntp!ToMilliseconds(stamp) <= t + 1
        /\ Sntp!ToMilliseconds(stamp) > t - Second
    BY <1>1, <1>2, <1>4, <1>8
  <1> QED
    BY <1>9 DEF stamp, q

LEMMA DivisionGrows ==
  ASSUME NEW a \in Nat, NEW b \in Nat, a <= b, NEW n \in Nat \ {0}
  PROVE  a \div n <= b \div n
  <1> DEFINE p == a \div n
             q == b \div n
  <1>1. p \in Nat /\ (a % n) \in 0 .. (n - 1) /\ a = p * n + (a % n)
    BY Divided
  <1>2. q \in Nat /\ (b % n) \in 0 .. (n - 1) /\ b = q * n + (b % n)
    BY Divided
  <1> HIDE DEF p, q
  <1>3. ASSUME p >= q + 1 PROVE FALSE
    <2>1. p * n >= (q + 1) * n
      BY <1>1, <1>2, <1>3
    <2>2. (q + 1) * n = q * n + n /\ q * n \in Nat /\ p * n \in Nat
      BY <1>1, <1>2
    <2> QED
      BY <2>1, <2>2, <1>1, <1>2
  <1> QED
    BY <1>1, <1>2, <1>3 DEF p, q

LEMMA HalvedIsClose ==
  ASSUME NEW d \in Int
  PROVE  /\ Sntp!Halved(d) \in Int
         /\ 2 * Sntp!Halved(d) <= d \/ (d < 0 /\ Sntp!Halved(d) <= 0)
         /\ 2 * Sntp!Halved(d) >= d - 1
  BY SMT DEF Sntp!Halved

\* Where the three stamps of a sample are.
LEMMA StampsAreTrue ==
  ASSUME SntpAssumption, NEW s \in Sntp!Sample
  PROVE  /\ Sntp!Originate(s) \in (s.start - Second + 1) .. (s.start + 1)
         /\ Sntp!Receive(s) \in
              (Sntp!ServerReceives(s) - Second + 1) .. (Sntp!ServerReceives(s) + 1)
         /\ Sntp!Transmit(s) \in (Sntp!ServerSends(s) - Second + 1) .. (Sntp!ServerSends(s) + 1)
  <1> DEFINE t0 == s.start
             t1 == Sntp!ServerReceives(s)
             t2 == Sntp!ServerSends(s)
  <1>1. /\ Second \in Nat \ {0} /\ Fraction \in Nat \ {0, 1} /\ Since1900 \in Nat
        /\ Range \in Nat \ {0}
        /\ t0 \div Second + Since1900 < Range
        /\ t2 \div Second + Since1900 < Range
    BY DEF SntpAssumption
  <1>2. t0 \in Nat /\ t1 \in Nat /\ t2 \in Nat /\ t1 <= t2
    <2>1. /\ s.start \in Nat /\ s.there \in Nat /\ s.thinks \in Nat /\ s.back \in Nat
          /\ s.offset \in Nat
      BY DEF SntpAssumption, Sntp!Sample
    <2> QED
      BY <2>1 DEF Sntp!ServerReceives, Sntp!ServerSends
  <1> HIDE DEF t0, t1, t2
  <1>3. t1 \div Second + Since1900 < Range
    <2>1. t1 \div Second <= t2 \div Second
      BY <1>1, <1>2, DivisionGrows
    <2>2. t1 \div Second \in Nat /\ t2 \div Second \in Nat
      BY <1>1, <1>2, Divided
    <2> QED
      BY <2>1, <2>2, <1>1
  <1>4. ASSUME NEW t \in Nat
        PROVE  /\ ((t % Second) * (Fraction - 1)) % Fraction \in Nat
               /\ ((t % Second) * Fraction) \div Second \in Nat
    <2>1. (t % Second) \in Nat
      BY <1>1, Divided
    <2>2. (t % Second) * (Fraction - 1) \in Nat /\ (t % Second) * Fraction \in Nat
      BY <1>1, <2>1
    <2>3. ((t % Second) * (Fraction - 1)) % Fraction \in 0 .. (Fraction - 1)
      BY <1>1, <2>2, Divided
    <2>4. ((t % Second) * Fraction) \div Second \in Nat
      BY <1>1, <2>2, Divided
    <2> QED
      BY <2>3, <2>4, <1>1
  <1>5. ASSUME NEW t \in Nat, t \div Second + Since1900 < Range
        PROVE  /\ Sntp!ToMilliseconds(Sntp!FromMilliseconds(t)) \in (t - Second + 1) .. (t + 1)
               /\ Sntp!ToMilliseconds(Sntp!ServerStamp(t)) \in (t - Second + 1) .. (t + 1)
    <2>1. ASSUME NEW f \in Nat
          PROVE  Sntp!ToMilliseconds([seconds |-> (t \div Second + Since1900) % Range, fraction |-> f])
                   \in (t - Second + 1) .. (t + 1)
      <3> DEFINE m == Sntp!ToMilliseconds(
                       [seconds |-> (t \div Second + Since1900) % Range, fraction |-> f])
      <3>1. m \in Int /\ m <= t + 1 /\ m > t - Second
        BY <1>5, StampIsTrue
      <3> HIDE DEF m
      <3>2. m \in (t - Second + 1) .. (t + 1)
        BY <1>1, <3>1
      <3> QED
        BY <3>2 DEF m
    <2> QED
      BY <1>4, <2>1 DEF Sntp!FromMilliseconds, Sntp!ServerStamp
  <1>6. /\ Sntp!Originate(s) \in (t0 - Second + 1) .. (t0 + 1)
        /\ Sntp!Receive(s) \in (t1 - Second + 1) .. (t1 + 1)
        /\ Sntp!Transmit(s) \in (t2 - Second + 1) .. (t2 + 1)
    <2>1. /\ Sntp!Originate(s) = Sntp!ToMilliseconds(Sntp!FromMilliseconds(t0))
          /\ Sntp!Receive(s) = Sntp!ToMilliseconds(Sntp!ServerStamp(t1))
          /\ Sntp!Transmit(s) = Sntp!ToMilliseconds(Sntp!ServerStamp(t2))
      BY DEF t0, t1, t2, Sntp!Originate, Sntp!Receive, Sntp!Transmit
    <2> QED
      BY <2>1, <1>1, <1>2, <1>3, <1>5
  <1> QED
    BY <1>6 DEF t0, t1, t2

\* Half the travel and a second: what the stamps lose and the ways differ.
LEMMA SampleIsTrue ==
  ASSUME SntpAssumption, NEW s \in Sntp!Sample
  PROVE  /\ 2 * Sntp!Error(s) <= Sntp!Travel(s) + Second + 1
         /\ -2 * Sntp!Error(s) <= Sntp!Travel(s) + 2 * Second + 1
  <1> DEFINE o == Sntp!Originate(s)
             r == Sntp!Receive(s)
             x == Sntp!Transmit(s)
             t == Sntp!AfterTime(s)
             d == (r - o) + (x - t)
             h == Sntp!Halved(d)
  <1>1. /\ s.start \in Nat /\ s.there \in Nat /\ s.thinks \in Nat /\ s.back \in Nat
        /\ s.offset \in Nat /\ Second \in Nat
    BY DEF SntpAssumption, Sntp!Sample
  <1>2. /\ o \in (s.start - Second + 1) .. (s.start + 1)
        /\ r \in (s.start + s.there + s.offset - Second + 1) .. (s.start + s.there + s.offset + 1)
        /\ x \in (s.start + s.there + s.offset + s.thinks - Second + 1)
                 .. (s.start + s.there + s.offset + s.thinks + 1)
        /\ t = s.start + s.there + s.thinks + s.back
    <2>1. /\ Sntp!ServerReceives(s) = s.start + s.there + s.offset
          /\ Sntp!ServerSends(s) = s.start + s.there + s.offset + s.thinks
          /\ t = s.start + s.there + s.thinks + s.back
      BY DEF Sntp!ServerReceives, Sntp!ServerSends, Sntp!AfterTime
    <2>2. /\ o \in (s.start - Second + 1) .. (s.start + 1)
          /\ r \in (Sntp!ServerReceives(s) - Second + 1) .. (Sntp!ServerReceives(s) + 1)
          /\ x \in (Sntp!ServerSends(s) - Second + 1) .. (Sntp!ServerSends(s) + 1)
      BY StampsAreTrue
    <2> HIDE DEF o, r, x, t
    <2> QED
      BY <1>1, <2>1, <2>2
  <1>3. Sntp!Error(s) = (t + h) - (t + s.offset)
    BY DEF Sntp!Error, Sntp!NtpTime, Sntp!Offset
  <1>4. Sntp!Travel(s) = s.there + s.back
    BY DEF Sntp!Travel
  <1> HIDE DEF o, r, x, t
  <1>5. d \in Int
    BY <1>1, <1>2
  <1>6. h \in Int /\ (2 * h <= d \/ (d < 0 /\ h <= 0)) /\ 2 * h >= d - 1
    BY <1>5, HalvedIsClose
  <1> HIDE DEF h
  <1> QED
    BY <1>1, <1>2, <1>3, <1>4, <1>6

LEMMA SntpImplies ==
  ASSUME SntpAssumption, Sntp!SntpInv
  PROVE  Sntp!WaitEnds /\ Sntp!SampleIsTrueToASecond
  <1>1. Sntp!WaitEnds
    BY DEF Sntp!SntpInv, Sntp!TypeOK, Sntp!TimerInv, Sntp!SocketInv, Sntp!WaitEnds
  <1>2. Sntp!SampleIsTrueToASecond
    BY SampleIsTrue DEF Sntp!SntpInv, Sntp!TypeOK, Sntp!SampleIsTrueToASecond
  <1> QED
    BY <1>1, <1>2

-----------------------------------------------------------------------------
(* Drivers with a worker of their own (dummy/provider.cpp,                 *)
(* skyhook/provider.cpp, geoclue/provider.cpp).                            *)

LEMMA DriverInitInv ==
  ASSUME Driver!Init
  PROVE  Driver!DriverInv
  <1> USE DEF Driver!Init
  <1>1. Driver!TypeOK
    <2>1. dUsed \subseteq Offered /\ dWanted \subseteq dUsed
      OBVIOUS
    <2>2. dKind \in Driver!Kinds /\ dPatient \in BOOLEAN /\ dResumes \in BOOLEAN
      OBVIOUS
    <2>3. /\ dState = "stopped" /\ ~dRequested /\ dWorker = "none" /\ dCall = "idle"
          /\ dCalls = 0 /\ dWifi = TRUE /\ ~dKilled /\ dLate = 0
          /\ dRequested \in BOOLEAN /\ dKilled \in BOOLEAN
      OBVIOUS
    <2> QED
      BY <2>1, <2>2, <2>3, DriverAssumption DEF Driver!TypeOK, Driver!Worker
  <1>2. Driver!LateOnce /\ Driver!NoJoinableIsReplaced
    BY DEF Driver!LateOnce, Driver!NoJoinableIsReplaced
  <1>3. Driver!DummyInStep
    BY DEF Driver!DummyInStep
  <1>4. Driver!SkyhookInStep /\ Driver!SkyhookServes
    BY DEF Driver!SkyhookInStep, Driver!SkyhookServes, Driver!Alive
  <1>5. Driver!GeoclueInStep /\ Driver!GeoclueServes
    BY DEF Driver!GeoclueInStep, Driver!GeoclueServes
  <1> QED
    BY <1>1, <1>2, <1>3, <1>4, <1>5 DEF Driver!DriverInv

\* What all starts and stops do.
LEMMA DriverCalls ==
  ASSUME Driver!TypeOK, NEW f \in Offered, Driver!Begin(f) \/ Driver!End(f)
  PROVE  /\ UNCHANGED <<dKind, dPatient, dUsed, dResumes, dWifi>>
         /\ dWanted' \subseteq dUsed
         /\ dCalls' \in 0 .. MaxCalls
         /\ dCall = "idle" /\ ~dKilled
         /\ dPatient => dWorker # "fresh" /\ dState # "stop_requested"
  BY DriverAssumption
     DEF Driver!TypeOK, Driver!Begin, Driver!End, Driver!MayCall, Driver!Settled, Driver!rigidVars

LEMMA DriverTypeStep ==
  ASSUME Driver!TypeOK, Driver!Next
  PROVE  Driver!TypeOK'
  <1> USE DriverAssumption DEF Driver!rigidVars
  <1>1. ASSUME NEW f \in Offered,
               \/ Driver!DummyStart(f) \/ Driver!SkyhookStart(f) \/ Driver!GeoclueStart(f)
        PROVE  Driver!TypeOK'
    <2>1. Driver!Begin(f)
      BY <1>1 DEF Driver!DummyStart, Driver!SkyhookStart, Driver!GeoclueStart
    <2>2. dCall' = dCall /\ dLate' = 0
      BY <2>1 DEF Driver!Begin
    <2>3. dKilled' \in BOOLEAN
      BY <1>1 DEF Driver!DummyStart, Driver!SkyhookStart, Driver!GeoclueStart,
                        Driver!Launch, Driver!TypeOK
    <2>4. dRequested' \in BOOLEAN /\ dWorker' \in Driver!Worker
      BY <1>1 DEF Driver!DummyStart, Driver!SkyhookStart, Driver!GeoclueStart,
                        Driver!Launch, Driver!TypeOK, Driver!Worker
    <2>5. dState' \in {"stopped", "started", "stopping", "stop_requested"}
      BY <1>1 DEF Driver!DummyStart, Driver!SkyhookStart, Driver!GeoclueStart, Driver!TypeOK
    <2> QED
      BY <2>1, <2>2, <2>3, <2>4, <2>5, DriverCalls DEF Driver!TypeOK
  <1>2. ASSUME NEW f \in Offered,
               \/ Driver!DummyStop(f) \/ Driver!SkyhookStop(f) \/ Driver!GeoclueStop(f)
        PROVE  Driver!TypeOK'
    <2>1. Driver!End(f)
      BY <1>2 DEF Driver!DummyStop, Driver!SkyhookStop, Driver!GeoclueStop
    <2>2. dKilled' = dKilled
      BY <2>1 DEF Driver!End
    <2>3. dWorker' = dWorker /\ dLate' = dLate /\ dRequested' \in BOOLEAN
      BY <1>2 DEF Driver!DummyStop, Driver!SkyhookStop, Driver!GeoclueStop, Driver!TypeOK
    <2>4. /\ dState' \in {"stopped", "started", "stopping", "stop_requested"}
          /\ dCall' \in {"idle", "join"}
      BY <1>2 DEF Driver!DummyStop, Driver!SkyhookStop, Driver!GeoclueStop, Driver!TypeOK,
                  Driver!Joining
    <2> QED
      BY <2>1, <2>2, <2>3, <2>4, DriverCalls DEF Driver!TypeOK
  <1> USE DEF Driver!TypeOK, Driver!Worker
  <1>3. CASE Driver!DummyRuns
    BY <1>3 DEF Driver!DummyRuns
  <1>4. CASE Driver!SkyhookCallback
    BY <1>4 DEF Driver!SkyhookCallback, Driver!StateAfterStop
  <1>5. CASE Driver!GeoclueRuns
    BY <1>5 DEF Driver!GeoclueRuns
  <1>6. CASE Driver!Deliver \/ Driver!Join
    BY <1>6 DEF Driver!Deliver, Driver!Join
  <1> QED
    BY <1>1, <1>2, <1>3, <1>4, <1>5, <1>6 DEF Driver!Next

\* The rigid variables, and what may happen for each kind.
LEMMA DriverCases ==
  ASSUME Driver!TypeOK, Driver!Next
  PROVE  /\ UNCHANGED <<dKind, dPatient, dUsed, dResumes>>
         /\ \/ /\ dKind = "dummy"
               /\ \/ \E f \in Offered : Driver!DummyStart(f) \/ Driver!DummyStop(f)
                  \/ Driver!DummyRuns
            \/ /\ dKind = "skyhook"
               /\ \/ \E f \in Offered : Driver!SkyhookStart(f) \/ Driver!SkyhookStop(f)
                  \/ Driver!SkyhookCallback
            \/ /\ dKind = "geoclue"
               /\ \/ \E f \in Offered : Driver!GeoclueStart(f) \/ Driver!GeoclueStop(f)
                  \/ Driver!GeoclueRuns
            \/ Driver!Deliver \/ Driver!Join
  <1>1. UNCHANGED <<dKind, dPatient, dUsed, dResumes>>
    BY DEF Driver!Next, Driver!DummyStart, Driver!DummyStop, Driver!SkyhookStart, Driver!SkyhookStop,
           Driver!GeoclueStart, Driver!GeoclueStop, Driver!Begin, Driver!End, Driver!DummyRuns,
           Driver!SkyhookCallback, Driver!GeoclueRuns, Driver!Deliver, Driver!Join, Driver!rigidVars
  <1>2. /\ \A f \in Offered : Driver!DummyStart(f) \/ Driver!DummyStop(f) => dKind = "dummy"
        /\ Driver!DummyRuns => dKind = "dummy"
    BY DEF Driver!DummyStart, Driver!DummyStop, Driver!DummyRuns
  <1>3. /\ \A f \in Offered : Driver!SkyhookStart(f) \/ Driver!SkyhookStop(f) => dKind = "skyhook"
        /\ Driver!SkyhookCallback => dKind = "skyhook"
    BY DEF Driver!SkyhookStart, Driver!SkyhookStop, Driver!SkyhookCallback
  <1>4. /\ \A f \in Offered : Driver!GeoclueStart(f) \/ Driver!GeoclueStop(f) => dKind = "geoclue"
        /\ Driver!GeoclueRuns => dKind = "geoclue"
    BY DEF Driver!GeoclueStart, Driver!GeoclueStop, Driver!GeoclueRuns
  <1> QED
    BY <1>1, <1>2, <1>3, <1>4, Zenon DEF Driver!Next

\* dummy::Provider (dummy/provider.cpp).
LEMMA DummyStep ==
  ASSUME Driver!TypeOK, Driver!Next, dKind = "dummy", dPatient, Driver!DummyInStep,
         Driver!LateOnce, ~dKilled
  PROVE  Driver!DummyInStep' /\ Driver!LateOnce' /\ ~dKilled'
  <1> USE DEF Driver!DummyInStep, Driver!LateOnce, Driver!TypeOK, Driver!Worker
  <1>1. ASSUME NEW f \in Offered, Driver!DummyStart(f)
        PROVE  Driver!DummyInStep' /\ Driver!LateOnce' /\ ~dKilled'
    BY <1>1 DEF Driver!DummyStart, Driver!Begin, Driver!MayCall, Driver!Settled, Driver!Launch,
                Driver!rigidVars
  <1>2. ASSUME NEW f \in Offered, Driver!DummyStop(f)
        PROVE  Driver!DummyInStep' /\ Driver!LateOnce' /\ ~dKilled'
    BY <1>2 DEF Driver!DummyStop, Driver!End, Driver!MayCall, Driver!Settled, Driver!Joining,
                Driver!rigidVars
  <1>3. CASE Driver!DummyRuns
    BY <1>3 DEF Driver!DummyRuns, Driver!rigidVars
  <1>4. CASE Driver!Deliver
    BY <1>4 DEF Driver!Deliver, Driver!rigidVars
  <1>5. CASE Driver!Join
    BY <1>5 DEF Driver!Join, Driver!rigidVars
  <1> QED
    BY <1>1, <1>2, <1>3, <1>4, <1>5, DriverCases

\* skyhook::Provider (skyhook/provider.cpp).
LEMMA SkyhookStep ==
  ASSUME Driver!TypeOK, Driver!Next, dKind = "skyhook", Driver!SkyhookInStep,
         Driver!LateOnce, ~dKilled
  PROVE  Driver!SkyhookInStep' /\ Driver!LateOnce' /\ ~dKilled'
  <1> USE DEF Driver!SkyhookInStep, Driver!LateOnce, Driver!TypeOK, Driver!Worker
  <1>1. ASSUME NEW f \in Offered, Driver!SkyhookStart(f)
        PROVE  Driver!SkyhookInStep' /\ Driver!LateOnce' /\ ~dKilled'
    BY <1>1 DEF Driver!SkyhookStart, Driver!Begin, Driver!MayCall, Driver!Launch, Driver!AfterJoin,
                Driver!rigidVars
  <1>2. ASSUME NEW f \in Offered, Driver!SkyhookStop(f)
        PROVE  Driver!SkyhookInStep' /\ Driver!LateOnce' /\ ~dKilled'
    BY <1>2 DEF Driver!SkyhookStop, Driver!End, Driver!MayCall, Driver!rigidVars
  <1>3. CASE Driver!SkyhookCallback
    BY <1>3 DEF Driver!SkyhookCallback, Driver!StateAfterStop, Driver!rigidVars
  <1>4. CASE Driver!Deliver
    BY <1>4 DEF Driver!Deliver, Driver!rigidVars
  <1>5. CASE Driver!Join
    BY <1>5 DEF Driver!Join, Driver!rigidVars
  <1> QED
    BY <1>1, <1>2, <1>3, <1>4, <1>5, DriverCases

LEMMA SkyhookServesStep ==
  ASSUME Driver!TypeOK, Driver!Next, dKind = "skyhook", Driver!SkyhookInStep, dPatient,
         dUsed = {"position"}, dWifi', dWifi => Driver!SkyhookServes
  PROVE  Driver!SkyhookServes'
  <1> USE DEF Driver!SkyhookServes, Driver!SkyhookInStep, Driver!Alive, Driver!TypeOK, Driver!Worker
  <1>1. ASSUME NEW f \in Offered, Driver!SkyhookStart(f)
        PROVE  Driver!SkyhookServes'
    BY <1>1 DEF Driver!SkyhookStart, Driver!Begin, Driver!MayCall, Driver!Settled, Driver!Launch,
                Driver!AfterJoin, Driver!rigidVars
  <1>2. ASSUME NEW f \in Offered, Driver!SkyhookStop(f)
        PROVE  Driver!SkyhookServes'
    BY <1>2 DEF Driver!SkyhookStop, Driver!End, Driver!MayCall, Driver!rigidVars
  <1>3. CASE Driver!SkyhookCallback
    BY <1>3 DEF Driver!SkyhookCallback, Driver!StateAfterStop, Driver!rigidVars
  <1>4. CASE Driver!Deliver
    BY <1>4 DEF Driver!Deliver, Driver!rigidVars
  <1>5. CASE Driver!Join
    BY <1>5 DEF Driver!Join, Driver!rigidVars
  <1> QED
    BY <1>1, <1>2, <1>3, <1>4, <1>5, DriverCases

\* geoclue::Provider (geoclue/provider.cpp).
LEMMA GeoclueStep ==
  ASSUME Driver!TypeOK, Driver!Next, dKind = "geoclue", Driver!GeoclueInStep, ~dKilled
  PROVE  Driver!GeoclueInStep' /\ ~dKilled'
  <1> USE DEF Driver!GeoclueInStep, Driver!TypeOK, Driver!Worker
  <1>1. ASSUME NEW f \in Offered, Driver!GeoclueStart(f)
        PROVE  Driver!GeoclueInStep' /\ ~dKilled'
    BY <1>1 DEF Driver!GeoclueStart, Driver!Begin, Driver!MayCall, Driver!Launch
  <1>2. ASSUME NEW f \in Offered, Driver!GeoclueStop(f)
        PROVE  Driver!GeoclueInStep' /\ ~dKilled'
    BY <1>2 DEF Driver!GeoclueStop, Driver!End, Driver!MayCall, Driver!Joining
  <1>3. CASE Driver!GeoclueRuns
    BY <1>3 DEF Driver!GeoclueRuns
  <1>4. CASE Driver!Deliver
    BY <1>4 DEF Driver!Deliver
  <1>5. CASE Driver!Join
    BY <1>5 DEF Driver!Join
  <1> QED
    BY <1>1, <1>2, <1>3, <1>4, <1>5, DriverCases

LEMMA GeoclueServesStep ==
  ASSUME Driver!TypeOK, Driver!Next, dKind = "geoclue", dPatient, Driver!GeoclueInStep,
         Driver!GeoclueServes, Driver!LateOnce
  PROVE  Driver!GeoclueServes' /\ Driver!LateOnce'
  <1> USE DEF Driver!GeoclueInStep, Driver!GeoclueServes, Driver!LateOnce, Driver!Alive,
              Driver!TypeOK, Driver!Worker, Driver!rigidVars
  <1>1. ASSUME NEW f \in Offered, Driver!GeoclueStart(f)
        PROVE  Driver!GeoclueServes' /\ Driver!LateOnce'
    BY <1>1 DEF Driver!GeoclueStart, Driver!Begin, Driver!MayCall, Driver!Settled, Driver!Launch
  <1>2. ASSUME NEW f \in Offered, Driver!GeoclueStop(f)
        PROVE  Driver!GeoclueServes' /\ Driver!LateOnce'
    BY <1>2 DEF Driver!GeoclueStop, Driver!End, Driver!MayCall, Driver!Settled, Driver!Joining
  <1>3. CASE Driver!GeoclueRuns
    <2>1. UNCHANGED <<dUsed, dResumes, dWanted, dCall, dLate>>
      BY <1>3 DEF Driver!GeoclueRuns
    <2>2. CASE dWorker = "fresh" /\ dWorker' = "running" /\ dRequested' = (dRequested /\ ~dResumes)
      <3>1. dCall = "idle"
        BY <2>2
      <3>2. dResumes => ~dRequested'
        BY <2>2
      <3> QED
        BY <2>1, <2>2, <3>1, <3>2
    <2>3. CASE dWorker = "running" /\ dRequested' = dRequested
      BY <1>3, <2>1, <2>3 DEF Driver!GeoclueRuns
    <2> QED
      BY <1>3, <2>2, <2>3 DEF Driver!GeoclueRuns
  <1>4. CASE Driver!Deliver
    BY <1>4 DEF Driver!Deliver
  <1>5. CASE Driver!Join
    BY <1>5 DEF Driver!Join
  <1> QED
    BY <1>1, <1>2, <1>3, <1>4, <1>5, DriverCases

\* What WPS has not found once is not found.
LEMMA WifiIsHistory ==
  ASSUME Driver!TypeOK, Driver!Next, dWifi'
  PROVE  dWifi
  BY DEF Driver!Next, Driver!DummyStart, Driver!DummyStop, Driver!SkyhookStart, Driver!SkyhookStop,
         Driver!GeoclueStart, Driver!GeoclueStop, Driver!Begin, Driver!End, Driver!DummyRuns,
         Driver!SkyhookCallback, Driver!GeoclueRuns, Driver!Deliver, Driver!Join

LEMMA DriverStepInv ==
  ASSUME Driver!DriverInv, Driver!Next \/ UNCHANGED driverVars
  PROVE  Driver!DriverInv'
  <1>1. CASE UNCHANGED driverVars
    BY <1>1 DEF driverVars, Driver!DriverInv, Driver!TypeOK, Driver!LateOnce, Driver!DummyInStep,
         Driver!SkyhookInStep, Driver!SkyhookServes, Driver!GeoclueInStep, Driver!GeoclueServes,
         Driver!NoJoinableIsReplaced, Driver!Alive
  <1>2. CASE Driver!Next
    <2>1. Driver!TypeOK /\ Driver!TypeOK'
      BY <1>2, DriverTypeStep DEF Driver!DriverInv
    <2>2. /\ UNCHANGED <<dKind, dPatient, dUsed, dResumes>>
          /\ dKind \in {"dummy", "skyhook", "geoclue"}
      BY <1>2, <2>1, DriverCases DEF Driver!TypeOK, Driver!Kinds
    <2>3. CASE dKind = "dummy"
      BY <1>2, <2>1, <2>2, <2>3, DummyStep DEF Driver!DriverInv, Driver!NoJoinableIsReplaced
    <2>4. CASE dKind = "skyhook"
      BY <1>2, <2>1, <2>2, <2>4, SkyhookStep, SkyhookServesStep, WifiIsHistory
         DEF Driver!DriverInv, Driver!NoJoinableIsReplaced
    <2>5. CASE dKind = "geoclue"
      BY <1>2, <2>1, <2>2, <2>5, GeoclueStep, GeoclueServesStep
         DEF Driver!DriverInv, Driver!NoJoinableIsReplaced
    <2> QED
      BY <2>2, <2>3, <2>4, <2>5
  <1> QED
    BY <1>1, <1>2

LEMMA DriverImplies ==
  ASSUME Driver!DriverInv
  PROVE  /\ Driver!RunsIffWanted /\ Driver!StopIsServed
         /\ Driver!NoJoinableIsReplaced /\ Driver!AtMostOneLateUpdate
  <1>1. Driver!NoJoinableIsReplaced /\ Driver!AtMostOneLateUpdate
    BY DEF Driver!DriverInv, Driver!LateOnce, Driver!NoJoinableIsReplaced, Driver!AtMostOneLateUpdate
  <1>2. Driver!StopIsServed
    BY DEF Driver!DriverInv, Driver!SkyhookServes, Driver!StopIsServed
  <1>3. Driver!RunsIffWanted
    <2> SUFFICES ASSUME dPatient, dUsed = {"position"}, dWifi, dResumes, dCall = "idle"
                 PROVE  (Driver!Alive <=> dWanted # {}) \/ (dWanted = {} /\ dState = "stop_requested")
      BY DEF Driver!RunsIffWanted
    <2>1. dWanted = {} \/ dWanted = {"position"}
      BY DEF Driver!DriverInv, Driver!TypeOK
    <2>2. CASE dKind = "dummy"
      BY <2>1, <2>2 DEF Driver!DriverInv, Driver!DummyInStep, Driver!Alive
    <2>3. CASE dKind = "skyhook"
      BY <2>1, <2>3 DEF Driver!DriverInv, Driver!TypeOK, Driver!SkyhookInStep, Driver!SkyhookServes, Driver!Alive
    <2>4. CASE dKind = "geoclue"
      BY <2>1, <2>4 DEF Driver!DriverInv, Driver!GeoclueInStep, Driver!GeoclueServes, Driver!Alive
    <2> QED
      BY <2>2, <2>3, <2>4 DEF Driver!DriverInv, Driver!TypeOK, Driver!Kinds
  <1> QED
    BY <1>1, <1>2, <1>3

-----------------------------------------------------------------------------
(* The GPS (android_hardware_abstraction_layer.cpp, runtime_tests.cpp).    *)

LEMMA GpsInitInv ==
  ASSUME Hal!Init
  PROVE  Hal!GpsInv
  <1> USE GpsAssumption DEF Hal!Init
  <1>1. Hal!TypeOK
    <2>1. gModes \in Hal!Modes /\ gDriverModes \in Hal!Modes
      BY DEF Hal!Modes, Hal!AssistanceModes, Hal!PositionModes
    <2>2. /\ gPrompt \in BOOLEAN /\ gDispatched \in BOOLEAN /\ gPositioning \in BOOLEAN
          /\ gInjected \in BOOLEAN /\ gFix \in BOOLEAN /\ gOwn \in BOOLEAN
      OBVIOUS
    <2>3. gCapabilities \subseteq Capabilities /\ gVehicles \subseteq Hal!Vehicle
      OBVIOUS
    <2>4. gInfo \in Hal!Info
      BY DEF Hal!Info, Hal!NoInfo
    <2>5. gDriver \in Hal!Driver /\ gTest \in Hal!Test
      BY DEF Hal!Driver, Hal!Test
    <2>6. gCallbacks \in 0 .. MaxCallbacks /\ gTrial \in 0 .. Trials
      OBVIOUS
    <2> QED
      BY <2>1, <2>2, <2>3, <2>4, <2>5, <2>6 DEF Hal!TypeOK
  <1>2. Hal!DriverModesFollow
    BY DEF Hal!DriverModesFollow
  <1>3. Hal!FlagsAreOwn
    BY DEF Hal!FlagsAreOwn, Hal!NoInfo
  <1>4. Hal!TrialsInv /\ Hal!PromptInStep /\ Hal!TrialHasOwnFix /\ ~gOwn /\ Hal!NoFixIsLost
    BY DEF Hal!TrialsInv, Hal!PromptInStep, Hal!TrialHasOwnFix, Hal!NoFixIsLost
  <1> QED
    BY <1>1, <1>2, <1>3, <1>4 DEF Hal!GpsInv

\* What is not part of the modes (android_hardware_abstraction_layer.cpp).
LEMMA ModesStep ==
  ASSUME Hal!TypeOK, Hal!DriverModesFollow, Hal!Next
  PROVE  /\ gModes' \in Hal!Modes /\ gDriverModes' \in Hal!Modes /\ gDispatched' \in BOOLEAN
         /\ gCapabilities' \subseteq Capabilities
         /\ Hal!DriverModesFollow'
  <1> DEFINE Goal == /\ gModes' \in Hal!Modes /\ gDriverModes' \in Hal!Modes
                     /\ gDispatched' \in BOOLEAN /\ gCapabilities' \subseteq Capabilities
                     /\ Hal!DriverModesFollow'
  <1>1. ASSUME UNCHANGED Hal!halVars PROVE Goal
    BY <1>1 DEF Hal!halVars, Hal!TypeOK, Hal!DriverModesFollow
  <1>2. ASSUME NEW new \in Hal!Modes, Hal!SetMode(new) PROVE Goal
    BY <1>2 DEF Hal!SetMode, Hal!Dispatched, Hal!TypeOK, Hal!DriverModesFollow
  <1>3. ASSUME NEW m \in Hal!PositionModes, Hal!SetPositionMode(m) PROVE Goal
    <2>1. [gModes EXCEPT !.position = m] \in Hal!Modes
      BY <1>3 DEF Hal!TypeOK, Hal!Modes
    <2> QED
      BY <1>2, <1>3, <2>1 DEF Hal!SetPositionMode
  <1>4. CASE Hal!SetStandalone
    <2>1. [gModes EXCEPT !.assistance = "standalone"] \in Hal!Modes
      BY DEF Hal!TypeOK, Hal!Modes, Hal!AssistanceModes
    <2> QED
      BY <1>1, <1>2, <1>4, <2>1 DEF Hal!SetStandalone, Hal!SetAssistanceMode
  <1>5. ASSUME NEW c \in SUBSET Capabilities, Hal!OnSetCapabilities(c) PROVE Goal
    BY <1>5 DEF Hal!OnSetCapabilities, Hal!TypeOK, Hal!DriverModesFollow
  <1>6. CASE Hal!OnLocationUpdate \/ Hal!FixReceived \/ Hal!NotifyAll \/ Hal!VehiclesShown \/ Hal!Answer
    BY <1>1, <1>6 DEF Hal!OnLocationUpdate, Hal!FixReceived, Hal!NotifyAll, Hal!VehiclesShown, Hal!Answer
  <1>7. ASSUME NEW i \in Hal!Info, Hal!OnSvStatusUpdate(i) PROVE Goal
    BY <1>1, <1>7 DEF Hal!OnSvStatusUpdate
  <1>8. ASSUME NEW w \in {"time", "xtra"}, Hal!OnRequest(w) PROVE Goal
    BY <1>1, <1>8 DEF Hal!OnRequest
  <1>9. CASE Hal!DeleteAidingData \/ Hal!Reset \/ Hal!StartPositioning \/ Hal!CheckFix
             \/ Hal!Block \/ Hal!WaitTimesOut \/ Hal!StopPositioning
    BY <1>1, <1>9 DEF Hal!DeleteAidingData, Hal!Reset, Hal!StartPositioning, Hal!CheckFix,
             Hal!Block, Hal!WaitTimesOut, Hal!StopPositioning
  <1> QED
    BY <1>3, <1>4, <1>5, <1>6, <1>7, <1>8, <1>9 DEF Hal!Next

\* The driver's thread and the vehicles it reports.
LEMMA DriverThreadStep ==
  ASSUME Hal!TypeOK, Hal!FlagsAreOwn, Hal!Next
  PROVE  /\ gDriver' \in Hal!Driver /\ gCallbacks' \in 0 .. MaxCallbacks /\ gInjected' \in BOOLEAN
         /\ gVehicles' \subseteq Hal!Vehicle /\ gInfo' \in Hal!Info
         /\ Hal!FlagsAreOwn'
  <1> DEFINE Types == /\ gDriver' \in Hal!Driver /\ gCallbacks' \in 0 .. MaxCallbacks
                      /\ gInjected' \in BOOLEAN
             Shown == /\ gVehicles' \subseteq Hal!Vehicle /\ gInfo' \in Hal!Info
                      /\ Hal!FlagsAreOwn'
  <1>1. ASSUME UNCHANGED <<gVehicles, gInfo>> PROVE Shown
    BY <1>1 DEF Hal!TypeOK, Hal!FlagsAreOwn
  <1>2. ASSUME UNCHANGED <<gDriver, gCallbacks, gInjected>> PROVE Types
    BY <1>2 DEF Hal!TypeOK
  <1>3. ASSUME NEW n \in Hal!Driver, Hal!Callback(n)
        PROVE  gDriver' \in Hal!Driver /\ gCallbacks' \in 0 .. MaxCallbacks
    BY <1>3, GpsAssumption DEF Hal!Callback, Hal!TypeOK
  <1>4. ASSUME NEW i \in Hal!Info, Hal!OnSvStatusUpdate(i) PROVE Types /\ Shown
    <2>1. Types
      BY <1>3, <1>4 DEF Hal!OnSvStatusUpdate, Hal!TypeOK, Hal!Driver
    <2>2. PICK flag \in [i.prns \ {0} -> BOOLEAN] :
            /\ \A n \in i.prns \ {0} : flag[n] \in Hal!Flag(n, i.mask)
            /\ gVehicles' = {[prn |-> n, flag |-> flag[n], azimuth |-> i.elevation,
                              elevation |-> i.azimuth] : n \in i.prns \ {0}}
      BY <1>4 DEF Hal!OnSvStatusUpdate
    <2>3. gInfo' = i
      BY <1>4 DEF Hal!OnSvStatusUpdate
    <2>4. i.prns \subseteq Prns /\ i.azimuth = "turn" /\ i.elevation = "height"
      BY DEF Hal!Info
    <2>5. gVehicles' \subseteq Hal!Vehicle
      BY <2>2, <2>4 DEF Hal!Vehicle
    <2>6. ASSUME NEW n \in i.prns, n \in 1 .. Width
          PROVE  \E v \in gVehicles' : v.prn = n /\ v.flag = ((n - 1) \in i.mask)
      <3>1. n \in i.prns \ {0} /\ n - 1 < Width /\ n \in Nat
        BY <2>6, GpsAssumption
      <3>2. flag[n] \in {(n - 1) \in i.mask}
        BY <2>2, <3>1 DEF Hal!Flag, Hal!Bit
      <3>3. flag[n] = ((n - 1) \in i.mask)
        BY <3>2, Zenon
      <3>4. [prn |-> n, flag |-> flag[n], azimuth |-> i.elevation, elevation |-> i.azimuth]
              \in gVehicles'
        BY <2>2, <3>1, Zenon
      <3> DEFINE v == [prn |-> n, flag |-> flag[n], azimuth |-> i.elevation, elevation |-> i.azimuth]
      <3>5. v.prn = n /\ v.flag = flag[n]
        BY Zenon
      <3> HIDE DEF v
      <3>6. v.flag = ((n - 1) \in i.mask)
        BY <3>3, <3>5, Zenon
      <3> QED
        BY <3>4, <3>5, <3>6, Zenon DEF v
    <2>7. Hal!FlagsAreOwn'
      BY <2>3, <2>6 DEF Hal!FlagsAreOwn
    <2> QED
      BY <2>1, <2>3, <2>5, <2>7
  <1>5. CASE Hal!VehiclesShown
    <2>1. Types
      BY <1>5 DEF Hal!VehiclesShown, Hal!TypeOK, Hal!Driver
    <2>2. Shown
      BY <1>5 DEF Hal!VehiclesShown, Hal!NoInfo, Hal!Info, Hal!FlagsAreOwn
    <2> QED
      BY <2>1, <2>2
  <1>6. ASSUME NEW w \in {"time", "xtra"}, Hal!OnRequest(w) PROVE Types /\ Shown
    <2>1. gInjected' \in BOOLEAN
      BY <1>6 DEF Hal!OnRequest, Hal!TypeOK
    <2> QED
      BY <1>1, <1>3, <1>6, <2>1 DEF Hal!OnRequest, Hal!Driver
  <1>7. CASE Hal!Answer
    <2>1. gInjected' \in BOOLEAN
      BY <1>7, Zenon DEF Hal!Answer, Hal!TypeOK, Hal!IsCapableOf
    <2> QED
      BY <1>1, <1>7, <2>1 DEF Hal!Answer, Hal!Driver, Hal!TypeOK
  <1>8. CASE Hal!OnLocationUpdate
    BY <1>1, <1>3, <1>8 DEF Hal!OnLocationUpdate, Hal!Driver, Hal!TypeOK
  <1>9. CASE Hal!FixReceived \/ Hal!NotifyAll
    BY <1>1, <1>9 DEF Hal!FixReceived, Hal!NotifyAll, Hal!Driver, Hal!TypeOK
  <1>10. ASSUME NEW c \in SUBSET Capabilities, Hal!OnSetCapabilities(c) PROVE Types /\ Shown
    BY <1>1, <1>3, <1>10 DEF Hal!OnSetCapabilities, Hal!Driver, Hal!TypeOK
  <1>11. ASSUME UNCHANGED Hal!driverVars PROVE Types /\ Shown
    BY <1>1, <1>2, <1>11 DEF Hal!driverVars
  <1>12. ASSUME NEW m \in Hal!PositionModes, Hal!SetPositionMode(m) PROVE Types /\ Shown
    BY <1>11, <1>12 DEF Hal!SetPositionMode
  <1>13. CASE Hal!SetStandalone \/ Hal!DeleteAidingData \/ Hal!Reset \/ Hal!StartPositioning
              \/ Hal!CheckFix \/ Hal!Block \/ Hal!WaitTimesOut \/ Hal!StopPositioning
    BY <1>11, <1>13 DEF Hal!SetStandalone, Hal!DeleteAidingData, Hal!Reset, Hal!StartPositioning,
           Hal!CheckFix, Hal!Block, Hal!WaitTimesOut, Hal!StopPositioning
  <1>14. Types /\ Shown
    BY <1>4, <1>5, <1>6, <1>7, <1>8, <1>9, <1>10, <1>12, <1>13 DEF Hal!Next
  <1> QED
    BY <1>14

\* The test (runtime_tests.cpp).
LEMMA TrialStep ==
  ASSUME Hal!TypeOK, Hal!TrialsInv, gPrompt => Hal!PromptInStep, Hal!TrialHasOwnFix,
         gOwn => gFix, Hal!NoFixIsLost, Hal!Next
  PROVE  /\ gPrompt' = gPrompt
         /\ gPositioning' \in BOOLEAN /\ gFix' \in BOOLEAN /\ gOwn' \in BOOLEAN
         /\ gTest' \in Hal!Test /\ gTrial' \in 0 .. Trials
         /\ Hal!TrialsInv' /\ (gPrompt => Hal!PromptInStep') /\ Hal!TrialHasOwnFix'
         /\ (gOwn' => gFix') /\ Hal!NoFixIsLost'
  <1> DEFINE Goal == /\ gPrompt' = gPrompt
                     /\ gPositioning' \in BOOLEAN /\ gFix' \in BOOLEAN /\ gOwn' \in BOOLEAN
                     /\ gTest' \in Hal!Test /\ gTrial' \in 0 .. Trials
                     /\ Hal!TrialsInv' /\ (gPrompt => Hal!PromptInStep') /\ Hal!TrialHasOwnFix'
                     /\ (gOwn' => gFix') /\ Hal!NoFixIsLost'
  <1> USE GpsAssumption DEF Hal!TypeOK, Hal!TrialsInv, Hal!PromptInStep, Hal!TrialHasOwnFix,
          Hal!NoFixIsLost, Hal!Test, Hal!testVars, Hal!driverVars, Hal!Go
  <1>1. ASSUME UNCHANGED <<gPrompt, gPositioning, gTest, gTrial, gFix, gOwn>>,
               gDriver' \in {"position", "notify"} => gPositioning \/ ~gPrompt
        PROVE  Goal
    BY <1>1
  <1>2. ASSUME NEW m \in Hal!PositionModes, Hal!SetPositionMode(m) PROVE Goal
    BY <1>1, <1>2 DEF Hal!SetPositionMode
  <1>3. ASSUME NEW c \in SUBSET Capabilities, Hal!OnSetCapabilities(c) PROVE Goal
    BY <1>1, <1>3 DEF Hal!OnSetCapabilities, Hal!Callback
  <1>4. CASE Hal!OnLocationUpdate
    BY <1>1, <1>4 DEF Hal!OnLocationUpdate, Hal!Callback
  <1>5. CASE Hal!FixReceived
    BY <1>5 DEF Hal!FixReceived
  <1>6. CASE Hal!NotifyAll
    BY <1>6 DEF Hal!NotifyAll
  <1>7. CASE Hal!VehiclesShown \/ Hal!Answer
    BY <1>1, <1>7 DEF Hal!VehiclesShown, Hal!Answer
  <1>8. ASSUME NEW i \in Hal!Info, Hal!OnSvStatusUpdate(i) PROVE Goal
    BY <1>1, <1>8 DEF Hal!OnSvStatusUpdate, Hal!Callback
  <1>9. ASSUME NEW w \in {"time", "xtra"}, Hal!OnRequest(w) PROVE Goal
    BY <1>1, <1>9 DEF Hal!OnRequest, Hal!Callback
  <1>10. CASE Hal!SetStandalone
    BY <1>10 DEF Hal!SetStandalone
  <1>11. CASE Hal!DeleteAidingData
    BY <1>11 DEF Hal!DeleteAidingData
  <1>12. CASE Hal!Reset
    BY <1>12 DEF Hal!Reset, Hal!AfterReset
  <1>13. CASE Hal!StartPositioning
    BY <1>13 DEF Hal!StartPositioning
  <1>14. CASE Hal!CheckFix \/ Hal!Block
    BY <1>14 DEF Hal!CheckFix, Hal!Block
  <1>15. CASE Hal!WaitTimesOut
    BY <1>15 DEF Hal!WaitTimesOut, Hal!AfterTimeout
  <1>16. CASE Hal!StopPositioning
    <2>1. gTest = "stop" /\ gTest' = (IF gTrial = Trials THEN "passed" ELSE "aiding")
      BY <1>16 DEF Hal!StopPositioning
    <2>2. Hal!TrialsInv' /\ gTrial' \in 0 .. Trials
      BY <1>16, <2>1 DEF Hal!StopPositioning
    <2>3. gTest' \in {"passed", "aiding"}
      BY <2>1
    <2> QED
      BY <1>16, <2>2, <2>3 DEF Hal!StopPositioning
  <1> HIDE DEF Hal!TypeOK, Hal!TrialsInv, Hal!PromptInStep, Hal!TrialHasOwnFix,
           Hal!NoFixIsLost
  <1>17. Goal
    BY <1>2, <1>3, <1>4, <1>5, <1>6, <1>7, <1>8, <1>9, <1>10, <1>11, <1>12, <1>13, <1>14, <1>15,
       <1>16 DEF Hal!Next
  <1> QED
    BY <1>17

LEMMA GpsStepInv ==
  ASSUME Hal!GpsInv, Hal!Next \/ UNCHANGED halVars
  PROVE  Hal!GpsInv'
  <1>1. CASE UNCHANGED halVars
    BY <1>1 DEF halVars, Hal!GpsInv, Hal!TypeOK, Hal!TrialsInv, Hal!DriverModesFollow,
         Hal!FlagsAreOwn, Hal!PromptInStep, Hal!TrialHasOwnFix, Hal!NoFixIsLost
  <1>2. CASE Hal!Next
    <2>1. /\ gModes' \in Hal!Modes /\ gDriverModes' \in Hal!Modes /\ gDispatched' \in BOOLEAN
          /\ gCapabilities' \subseteq Capabilities
          /\ Hal!DriverModesFollow'
      BY <1>2, ModesStep DEF Hal!GpsInv
    <2>2. /\ gDriver' \in Hal!Driver /\ gCallbacks' \in 0 .. MaxCallbacks
          /\ gInjected' \in BOOLEAN
          /\ gVehicles' \subseteq Hal!Vehicle /\ gInfo' \in Hal!Info
          /\ Hal!FlagsAreOwn'
      BY <1>2, DriverThreadStep DEF Hal!GpsInv
    <2>3. /\ gPrompt' = gPrompt
          /\ gPositioning' \in BOOLEAN /\ gFix' \in BOOLEAN /\ gOwn' \in BOOLEAN
          /\ gTest' \in Hal!Test /\ gTrial' \in 0 .. Trials
          /\ Hal!TrialsInv' /\ (gPrompt => Hal!PromptInStep') /\ Hal!TrialHasOwnFix'
          /\ (gOwn' => gFix') /\ Hal!NoFixIsLost'
      BY <1>2, TrialStep DEF Hal!GpsInv
    <2>4. gPrompt \in BOOLEAN
      BY DEF Hal!GpsInv, Hal!TypeOK
    <2>5. Hal!TypeOK'
      BY <2>1, <2>2, <2>3, <2>4 DEF Hal!TypeOK
    <2> QED
      BY <2>1, <2>2, <2>3, <2>5 DEF Hal!GpsInv
  <1> QED
    BY <1>1, <1>2

-----------------------------------------------------------------------------
(* The settings across crashes (boost_ptree_settings.cpp, engine.cpp).     *)

LEMMA KeysAreKnown ==
  /\ Settings!Keys = {"state", "reporting"}
  /\ Absent \notin Settings!Keys
  /\ \A k \in Settings!Keys : Settings!Values(k) \subseteq {"off", "on", "active"}
  /\ Absent \notin {"off", "on", "active", "cut"}
  /\ \A k \in Settings!Keys : Settings!Defaults[k] \in Settings!Values(k)
  BY SettingsAssumption DEF Settings!Keys, Settings!Values, Settings!Defaults

LEMMA SettingsInitInv ==
  ASSUME Settings!Init
  PROVE  Settings!SettingsInv
  <1> USE HarvestAssumption, SettingsAssumption DEF Settings!Init
  <1>1. Settings!TypeOK
    <2>1. /\ Settings!Defaults \in [Settings!Keys -> Settings!Texts]
          /\ Settings!Nothing \in [Settings!Keys -> Settings!Texts]
          /\ \A k \in Settings!Keys : Settings!Nothing[k] = Absent
      BY DEF Settings!Keys, Settings!Texts, Settings!Defaults, Settings!Nothing
    <2>2. /\ pMemory = Settings!Defaults /\ pAsked = Settings!Defaults
          /\ pTree = Settings!Nothing /\ pFile = Settings!Nothing
      OBVIOUS
    <2>3. ASSUME NEW k \in Settings!Keys
          PROVE  /\ pMemory[k] \in Settings!Values(k) /\ pAsked[k] \in Settings!Values(k)
                 /\ pTree[k] = Absent /\ pFile[k] = Absent
      BY <2>1, <2>2, KeysAreKnown
    <2>4. /\ pPhase = "down" /\ pPending = Absent /\ pWriting = FALSE /\ pWriting \in BOOLEAN
          /\ pSets = 0 /\ pFaults = 0 /\ pUnsure = {} /\ pStale = {}
      OBVIOUS
    <2> QED
      BY <2>1, <2>2, <2>3, <2>4 DEF Settings!TypeOK
  <1>2. Settings!PhasesInv
    BY DEF Settings!PhasesInv
  <1>3. Settings!SurvivesInv
    BY DEF Settings!SurvivesInv, Settings!Holds, Settings!Keys, Settings!Defaults,
         Settings!Nothing, Settings!Texts
  <1>4. Settings!OptOutInv
    BY DEF Settings!OptOutInv, Settings!Keys, Settings!Defaults, Settings!Nothing
  <1> QED
    BY <1>1, <1>2, <1>3, <1>4 DEF Settings!SettingsInv

\* What an interrupted write leaves.
LEMMA TornIsTyped ==
  ASSUME Settings!TypeOK, NEW t \in Settings!Torn
  PROVE  /\ t \in [Settings!Keys -> Settings!Texts] \union {Unreadable}
         /\ \A k \in Settings!Keys : t # Unreadable => t[k] \in {pTree[k], "cut", Absent}
  BY DEF Settings!Torn, Settings!TypeOK, Settings!Texts

LEMMA FileIsTyped ==
  ASSUME Settings!TypeOK, pFile' = pFile \/ pFile' \in Settings!Torn
  PROVE  /\ pFile' \in [Settings!Keys -> Settings!Texts] \union {Unreadable}
         /\ \A k \in Settings!Keys :
              pFile' # Unreadable => pFile'[k] \in Settings!Values(k) \union {"cut", Absent}
  <1>1. CASE pFile' = pFile
    BY <1>1 DEF Settings!TypeOK
  <1>2. CASE pFile' \in Settings!Torn
    BY <1>2, TornIsTyped DEF Settings!TypeOK
  <1> QED
    BY <1>1, <1>2

LEMMA SettingsTypeStep ==
  ASSUME Settings!TypeOK, Settings!PhasesInv, Settings!Next
  PROVE  Settings!TypeOK'
  <1> USE HarvestAssumption, SettingsAssumption, KeysAreKnown DEF Settings!historyVars, Settings!boundVars
  <1>1. CASE Settings!Construct
    <2>1. /\ pTree' \in [Settings!Keys -> Settings!Texts]
          /\ \A k \in Settings!Keys : pTree'[k] \in Settings!Values(k) \union {"cut", Absent}
      BY <1>1 DEF Settings!Construct, Settings!ReadIni, Settings!TypeOK, Settings!Nothing, Settings!Texts
    <2>2. \/ UNCHANGED <<pPhase, pMemory>>
          \/ /\ \A k \in Settings!Keys : pTree'[k] # "cut"
             /\ pPhase' = "running" /\ pMemory' = [k \in Settings!Keys |-> Settings!Parsed(k)]
      BY <1>1 DEF Settings!Construct
    <2>3. ASSUME NEW k \in Settings!Keys, \A l \in Settings!Keys : pTree'[l] # "cut"
          PROVE  Settings!Parsed(k) \in Settings!Values(k)
      BY <2>1, <2>3 DEF Settings!Parsed
    <2>4. /\ pMemory' \in [Settings!Keys -> Settings!Texts]
          /\ \A k \in Settings!Keys : pMemory'[k] \in Settings!Values(k)
          /\ pPhase' \in {"down", "running", "stopping"}
      <3>1. CASE UNCHANGED <<pPhase, pMemory>>
        BY <3>1 DEF Settings!TypeOK
      <3>2. CASE /\ \A k \in Settings!Keys : pTree'[k] # "cut"
                 /\ pPhase' = "running" /\ pMemory' = [k \in Settings!Keys |-> Settings!Parsed(k)]
        BY <2>3, <3>2 DEF Settings!Texts
      <3> QED
        BY <2>2, <3>1, <3>2
    <2> QED
      BY <1>1, <2>1, <2>4 DEF Settings!Construct, Settings!TypeOK
  <1>2. CASE Settings!Stop
    BY <1>2 DEF Settings!Stop, Settings!TypeOK
  <1>3. CASE Settings!Crash
    <2>1. pFile' = pFile \/ pFile' \in Settings!Torn
      BY <1>3 DEF Settings!Crash
    <2>2. pUnsure' \subseteq Settings!Keys /\ pStale' \subseteq Settings!Keys
      <3>1. pUnsure \subseteq Settings!Keys /\ pStale \subseteq Settings!Keys
        BY DEF Settings!TypeOK
      <3> HIDE KeysAreKnown
      <3> QED
        BY <1>3, <3>1 DEF Settings!Crash
    <2>3. /\ pFile' \in [Settings!Keys -> Settings!Texts] \union {Unreadable}
          /\ \A k \in Settings!Keys :
               pFile' # Unreadable => pFile'[k] \in Settings!Values(k) \union {"cut", Absent}
      BY <2>1, FileIsTyped
    <2>4. /\ UNCHANGED <<pMemory, pTree, pSets, pAsked>>
          /\ pPhase' = "down" /\ pPending' = Absent /\ pWriting' = FALSE
          /\ pFaults' \in 0 .. MaxFaults
      BY <1>3 DEF Settings!Crash, Settings!TypeOK
    <2> HIDE KeysAreKnown
    <2> QED
      BY <2>2, <2>3, <2>4 DEF Settings!TypeOK
  <1>4. ASSUME NEW k \in Settings!Keys, NEW v \in Settings!Values(k), Settings!SetState(k, v)
        PROVE  Settings!TypeOK'
    <2>1. /\ pMemory' = [pMemory EXCEPT ![k] = v] /\ pAsked' = [pAsked EXCEPT ![k] = v]
          /\ v \in Settings!Texts
      BY <1>4 DEF Settings!SetState, Settings!Texts
    <2>2. /\ pMemory' \in [Settings!Keys -> Settings!Texts] /\ pAsked' \in [Settings!Keys -> Settings!Texts]
          /\ \A l \in Settings!Keys : pMemory'[l] \in Settings!Values(l) /\ pAsked'[l] \in Settings!Values(l)
      BY <2>1 DEF Settings!TypeOK
    <2> QED
      BY <1>4, <2>2 DEF Settings!SetState, Settings!TypeOK
  <1>5. CASE Settings!OpenFile
    BY <1>5 DEF Settings!OpenFile, Settings!Put, Settings!Nothing, Settings!Texts, Settings!TypeOK
  <1>6. CASE Settings!WriteFile
    BY <1>6 DEF Settings!WriteFile, Settings!Returned, Settings!TypeOK
  <1>7. CASE Settings!WriteFails
    <2>1. /\ pTree' \in [Settings!Keys -> Settings!Texts]
          /\ \A k \in Settings!Keys : pTree'[k] \in Settings!Values(k) \union {"cut", Absent}
      BY <1>7 DEF Settings!WriteFails, Settings!Put, Settings!TypeOK, Settings!Texts
    <2>2. pFile' = pFile \/ pFile' \in Settings!Torn
      BY <1>7 DEF Settings!WriteFails
    <2>3. pUnsure' \subseteq Settings!Keys /\ pStale' \subseteq Settings!Keys
      BY <1>7 DEF Settings!WriteFails, Settings!TypeOK
    <2>4. pPhase' \in {"down", "running", "stopping"} /\ pPending' \in Settings!Keys \union {Absent}
      BY <1>7 DEF Settings!WriteFails, Settings!Returned, Settings!TypeOK
    <2>5. /\ pFile' \in [Settings!Keys -> Settings!Texts] \union {Unreadable}
          /\ \A k \in Settings!Keys :
               pFile' # Unreadable => pFile'[k] \in Settings!Values(k) \union {"cut", Absent}
      BY <2>2, FileIsTyped
    <2>6. /\ UNCHANGED <<pMemory, pSets, pAsked>>
          /\ pWriting' = FALSE /\ pFaults' \in 0 .. MaxFaults
      BY <1>7 DEF Settings!WriteFails, Settings!TypeOK
    <2> HIDE KeysAreKnown
    <2> QED
      BY <2>1, <2>3, <2>4, <2>5, <2>6 DEF Settings!TypeOK
  <1> QED
    BY <1>1, <1>2, <1>3, <1>4, <1>5, <1>6, <1>7 DEF Settings!Next

LEMMA PhasesStep ==
  ASSUME Settings!TypeOK, Settings!PhasesInv, Settings!Next
  PROVE  Settings!PhasesInv'
  <1> USE DEF Settings!TypeOK, Settings!PhasesInv, Settings!historyVars, Settings!boundVars
  <1> USE KeysAreKnown
  <1>1. CASE Settings!Construct
    BY <1>1 DEF Settings!Construct
  <1>2. CASE Settings!Stop
    BY <1>2 DEF Settings!Stop
  <1>3. CASE Settings!Crash
    BY <1>3 DEF Settings!Crash
  <1>4. ASSUME NEW k \in Settings!Keys, NEW v \in Settings!Values(k), Settings!SetState(k, v)
        PROVE  Settings!PhasesInv'
    BY <1>4 DEF Settings!SetState
  <1>5. CASE Settings!OpenFile
    BY <1>5 DEF Settings!OpenFile, Settings!Put
  <1>6. CASE Settings!WriteFile
    BY <1>6 DEF Settings!WriteFile, Settings!Returned
  <1>7. CASE Settings!WriteFails
    BY <1>7 DEF Settings!WriteFails, Settings!Returned
  <1> QED
    BY <1>1, <1>2, <1>3, <1>4, <1>5, <1>6, <1>7 DEF Settings!Next

\* What was stored survives (boost_ptree_settings.cpp 28-51).
LEMMA SurvivesStep ==
  ASSUME Settings!TypeOK, Settings!PhasesInv, Settings!SurvivesInv, Settings!Next
  PROVE  Settings!SurvivesInv'
  <1> SUFFICES ASSUME NEW k \in Settings!Keys, k \notin pUnsure'
               PROVE  /\ pPhase' # "down" => pMemory'[k] = pAsked'[k]
                      /\ pPhase' # "down" /\ k # pPending' => Settings!Holds(pTree', k, pAsked'[k])
                      /\ ~pWriting' /\ k # pPending' => Settings!Holds(pFile', k, pAsked'[k])
    BY DEF Settings!SurvivesInv, Settings!Holds
  <1> DEFINE Goal == /\ pPhase' # "down" => pMemory'[k] = pAsked'[k]
                     /\ pPhase' # "down" /\ k # pPending' => Settings!Holds(pTree', k, pAsked'[k])
                     /\ ~pWriting' /\ k # pPending' => Settings!Holds(pFile', k, pAsked'[k])
  <1>0. /\ pTree # Unreadable /\ pMemory[k] \in Settings!Values(k) /\ pMemory[k] # Absent
        /\ pAsked[k] \in Settings!Values(k)
    BY KeysAreKnown, SettingsAssumption DEF Settings!TypeOK
  <1>2. CASE Settings!Construct
    <2>1. Settings!Holds(pFile, k, pAsked[k])
      BY <1>2, KeysAreKnown DEF Settings!Construct, Settings!PhasesInv, Settings!SurvivesInv,
           Settings!historyVars
    <2>2. pTree' = pFile
      BY <1>2, <2>1 DEF Settings!Construct, Settings!ReadIni, Settings!Holds
    <2>3. pAsked' = pAsked /\ pFile' = pFile
      BY <1>2 DEF Settings!Construct, Settings!historyVars
    <2>4. pPhase' # "down" => pMemory'[k] = Settings!Parsed(k)
      BY <1>2 DEF Settings!Construct
    <2> QED
      BY <2>1, <2>2, <2>3, <2>4 DEF Settings!Holds, Settings!Parsed
  <1>3. CASE Settings!Stop
    BY <1>3, KeysAreKnown DEF Settings!Stop, Settings!SurvivesInv, Settings!historyVars, Settings!Holds
  <1>4. CASE Settings!Crash
    <2>1. ~pWriting /\ pUnsure' = pUnsure \union (Settings!Keys \intersect {pPending})
      BY <1>4 DEF Settings!Crash
    <2> QED
      BY <1>4, <2>1 DEF Settings!Crash, Settings!SurvivesInv, Settings!Holds
  <1>5. ASSUME NEW l \in Settings!Keys, NEW v \in Settings!Values(l), Settings!SetState(l, v)
        PROVE  Goal
    <2>1. k \notin pUnsure /\ pPending' = l /\ UNCHANGED <<pPhase, pTree, pFile, pWriting>>
          /\ pPending = Absent /\ pPhase = "running" /\ k # pPending
      BY <1>5, KeysAreKnown DEF Settings!SetState
    <2>2. CASE k = l
      BY <1>5, <2>1, <2>2 DEF Settings!SetState, Settings!TypeOK
    <2>3. CASE k # l
      <3>1. pMemory'[k] = pMemory[k] /\ pAsked'[k] = pAsked[k]
        BY <1>5, <2>3 DEF Settings!SetState, Settings!TypeOK
      <3> QED
        BY <2>1, <3>1 DEF Settings!SurvivesInv, Settings!Holds
    <2> QED
      BY <2>2, <2>3
  <1>6. CASE Settings!OpenFile
    <2>1. k # pPending => pTree'[k] = pTree[k]
      BY <1>6 DEF Settings!OpenFile, Settings!Put, Settings!TypeOK
    <2>2. pTree' # Unreadable
      BY <1>6, SettingsTypeStep, SettingsAssumption DEF Settings!Next, Settings!TypeOK
    <2> QED
      BY <1>6, <2>1, <2>2 DEF Settings!OpenFile, Settings!historyVars, Settings!SurvivesInv, Settings!Holds
  <1>7. CASE Settings!WriteFile
    <2>1. /\ pFile' = pTree /\ UNCHANGED <<pMemory, pTree, pAsked>>
          /\ pUnsure' = pUnsure \ Settings!Stored
          /\ pPhase # "down" /\ pPending \in Settings!Keys /\ pTree[pPending] = pMemory[pPending]
      BY <1>7 DEF Settings!WriteFile, Settings!PhasesInv
    <2>2. CASE k = pPending
      <3>1. pMemory[k] = pAsked[k]
        BY <2>1, <2>2 DEF Settings!Stored, Settings!SurvivesInv
      <3> QED
        BY <1>0, <2>1, <2>2, <3>1 DEF Settings!Holds
    <2>3. CASE k # pPending
      <3>1. k \notin pUnsure
        BY <2>1, <2>3 DEF Settings!Stored
      <3> QED
        BY <2>1, <2>3, <3>1 DEF Settings!SurvivesInv, Settings!Holds
    <2> QED
      BY <2>2, <2>3
  <1>8. CASE Settings!WriteFails
    <2>1. /\ ~pWriting /\ pTree' = Settings!Put(pPending) /\ pFile' = pFile
          /\ k \notin pUnsure /\ k # pPending
          /\ UNCHANGED <<pMemory, pAsked>> /\ pPending \in Settings!Keys /\ pPhase # "down"
      <3>1. pPending \in Settings!Keys /\ UNCHANGED <<pMemory, pAsked>>
        BY <1>8 DEF Settings!WriteFails
      <3>2. ~pWriting
        BY <1>8 DEF Settings!WriteFails
      <3>3. pPhase # "down"
        BY <3>1, KeysAreKnown DEF Settings!PhasesInv
      <3>4. pTree' = Settings!Put(pPending) /\ pFile' = pFile /\ pUnsure' = pUnsure \union {pPending}
        BY <1>8, <3>2 DEF Settings!WriteFails
      <3> QED
        BY <3>1, <3>2, <3>3, <3>4
    <2>2. pTree'[k] = pTree[k]
      BY <2>1 DEF Settings!Put, Settings!TypeOK
    <2>3. pTree' # Unreadable
      BY <1>8, SettingsTypeStep, SettingsAssumption DEF Settings!Next, Settings!TypeOK
    <2> QED
      BY <2>1, <2>2, <2>3 DEF Settings!SurvivesInv, Settings!Holds
  <1> QED
    BY <1>2, <1>3, <1>4, <1>5, <1>6, <1>7, <1>8 DEF Settings!Next

\* An opt-out is undone by nothing that is read again (engine.h 99-102).
LEMMA OptOutStep ==
  ASSUME Settings!TypeOK, Settings!PhasesInv, Settings!OptOutInv, Settings!Next
  PROVE  Settings!OptOutInv'
  <1> DEFINE k == "reporting"
  <1> SUFFICES ASSUME k \notin pStale', pAsked'[k] = "off"
               PROVE  /\ pPhase' # "down" => pMemory'[k] = "off"
                      /\ k # pPending' \/ pWriting' =>
                           pTree'[k] # "on" /\ (pFile' = Unreadable \/ pFile'[k] # "on")
    BY DEF Settings!OptOutInv
  <1> DEFINE Goal == /\ pPhase' # "down" => pMemory'[k] = "off"
                     /\ k # pPending' \/ pWriting' =>
                          pTree'[k] # "on" /\ (pFile' = Unreadable \/ pFile'[k] # "on")
  <1>0. /\ k \in Settings!Keys /\ Settings!Values(k) = {"off", "on"} /\ Settings!Defaults[k] = "off"
        /\ Absent # "on" /\ Settings!Nothing[k] = Absent
    BY SettingsAssumption DEF Settings!Keys, Settings!Values, Settings!Defaults, Settings!Nothing
  <1>1. CASE Settings!Construct
    <2>1. pTree[k] # "on" /\ (pFile = Unreadable \/ pFile[k] # "on")
      BY <1>0, <1>1, KeysAreKnown DEF Settings!Construct, Settings!PhasesInv, Settings!OptOutInv,
           Settings!historyVars
    <2>2. pTree'[k] # "on" /\ pFile' = pFile
      BY <1>0, <1>1, <2>1 DEF Settings!Construct, Settings!ReadIni
    <2>3. pTree'[k] \in Settings!Values(k) \union {"cut", Absent}
      BY <1>0, <1>1, SettingsTypeStep DEF Settings!Next, Settings!TypeOK
    <2>4. pPhase' # "down" => pTree'[k] # "cut" /\ pMemory'[k] = Settings!Parsed(k)
      BY <1>0, <1>1 DEF Settings!Construct
    <2> QED
      BY <1>0, <2>1, <2>2, <2>3, <2>4 DEF Settings!Parsed
  <1>2. CASE Settings!Stop
    BY <1>0, <1>2, KeysAreKnown DEF Settings!Stop, Settings!OptOutInv, Settings!historyVars, Settings!PhasesInv
  <1>3. ASSUME pWriting, pPending \in Settings!Keys, pPhase # "down", pStale' = pStale \ Settings!Stored,
               UNCHANGED <<pMemory, pTree, pAsked>>, pFile' = pTree \/ pFile' \in Settings!Torn
        PROVE  Goal
    <2>1. pMemory[k] = "off" /\ pTree[k] # "on"
      <3>1. CASE k \in pStale
        <4>1. k = pPending /\ pMemory[k] = pAsked[k]
          BY <1>3, <3>1 DEF Settings!Stored
        <4> QED
          BY <1>3, <4>1 DEF Settings!PhasesInv
      <3>2. CASE k \notin pStale
        BY <1>3, <3>2 DEF Settings!OptOutInv
      <3> QED
        BY <3>1, <3>2
    <2>2. pFile' = Unreadable \/ pFile'[k] # "on"
      BY <1>0, <1>3, <2>1, TornIsTyped
    <2> QED
      BY <1>3, <2>1, <2>2
  <1>4. ASSUME ~pWriting, pTree' = pTree \/ pTree' = Settings!Put(pPending),
               UNCHANGED <<pMemory, pFile, pAsked>>, pPhase # "down",
               pStale' = pStale \union (Settings!Keys \intersect {pPending})
        PROVE  Goal
    <2>1. k \notin pStale /\ k # pPending
      BY <1>0, <1>4
    <2>2. pTree'[k] = pTree[k]
      BY <1>0, <1>4, <2>1 DEF Settings!Put, Settings!TypeOK
    <2> QED
      BY <1>4, <2>1, <2>2 DEF Settings!OptOutInv
  <1>5. CASE Settings!Crash
    <2>1. pWriting => pPending \in Settings!Keys
      BY DEF Settings!PhasesInv
    <2> QED
      BY <1>3, <1>4, <1>5, <2>1 DEF Settings!Crash
  <1>6. ASSUME NEW l \in Settings!Keys, NEW v \in Settings!Values(l), Settings!SetState(l, v)
        PROVE  Goal
    <2>1. /\ pPending' = l /\ UNCHANGED <<pPhase, pTree, pFile, pWriting, pStale>>
          /\ pPending = Absent /\ pPhase = "running" /\ k # pPending /\ ~pWriting
          /\ pMemory' = [pMemory EXCEPT ![l] = v] /\ pAsked' = [pAsked EXCEPT ![l] = v]
      BY <1>0, <1>6, KeysAreKnown DEF Settings!SetState, Settings!PhasesInv
    <2>2. CASE k = l
      BY <1>0, <2>1, <2>2 DEF Settings!TypeOK
    <2>3. CASE k # l
      <3>1. pMemory'[k] = pMemory[k] /\ pAsked'[k] = pAsked[k]
        BY <1>0, <2>1, <2>3 DEF Settings!TypeOK
      <3> QED
        BY <2>1, <3>1 DEF Settings!OptOutInv
    <2> QED
      BY <2>2, <2>3
  <1>7. CASE Settings!OpenFile
    <2>1. /\ UNCHANGED <<pPhase, pMemory, pPending, pAsked, pStale>> /\ pFile' = Settings!Nothing
          /\ pTree' = Settings!Put(pPending) /\ pPhase # "down" /\ pPending \in Settings!Keys
      BY <1>7, KeysAreKnown DEF Settings!OpenFile, Settings!historyVars, Settings!PhasesInv
    <2>2. pMemory[k] = "off"
      BY <2>1 DEF Settings!OptOutInv
    <2>3. pTree'[k] # "on"
      <3>1. CASE k = pPending
        BY <1>0, <2>1, <2>2, <3>1 DEF Settings!Put, Settings!TypeOK
      <3>2. CASE k # pPending
        BY <1>0, <2>1, <3>2 DEF Settings!Put, Settings!TypeOK, Settings!OptOutInv
      <3> QED
        BY <3>1, <3>2
    <2> QED
      BY <1>0, <2>1, <2>2, <2>3
  <1>8. CASE Settings!WriteFile
    BY <1>3, <1>8 DEF Settings!WriteFile, Settings!PhasesInv
  <1>9. CASE Settings!WriteFails
    <2>1. pPending \in Settings!Keys /\ pPhase # "down" /\ UNCHANGED <<pMemory, pAsked>>
      BY <1>9, KeysAreKnown DEF Settings!WriteFails, Settings!PhasesInv
    <2>2. CASE pWriting
      BY <1>3, <1>9, <2>1, <2>2 DEF Settings!WriteFails
    <2>3. CASE ~pWriting
      BY <1>4, <1>9, <2>1, <2>3 DEF Settings!WriteFails
    <2> QED
      BY <2>2, <2>3
  <1> QED
    BY <1>1, <1>2, <1>5, <1>6, <1>7, <1>8, <1>9 DEF Settings!Next

LEMMA SettingsStepInv ==
  ASSUME Settings!SettingsInv, Settings!Next \/ UNCHANGED settingsVars
  PROVE  Settings!SettingsInv'
  <1>1. CASE UNCHANGED settingsVars
    BY <1>1 DEF settingsVars, Settings!SettingsInv, Settings!TypeOK, Settings!PhasesInv,
         Settings!SurvivesInv, Settings!OptOutInv, Settings!Holds
  <1>2. CASE Settings!Next
    BY <1>2, SettingsTypeStep, PhasesStep, SurvivesStep, OptOutStep DEF Settings!SettingsInv
  <1> QED
    BY <1>1, <1>2

LEMMA SettingsImplies ==
  ASSUME Settings!SettingsInv
  PROVE  Settings!SettingsSurvive /\ Settings!OptOutHolds
  <1>1. Settings!SettingsSurvive
    BY DEF Settings!SettingsInv, Settings!SurvivesInv, Settings!SettingsSurvive
  <1>2. pAsked["reporting"] \in {"off", "on"}
    BY DEF Settings!SettingsInv, Settings!TypeOK, Settings!Keys, Settings!Values
  <1>3. Settings!OptOutHolds
    BY <1>2 DEF Settings!SettingsInv, Settings!OptOutInv, Settings!OptOutHolds
  <1> QED
    BY <1>1, <1>3

-----------------------------------------------------------------------------
(* The threads of the Runtime (runtime.cpp 26-109).                        *)

LEMMA PoolInitInv ==
  ASSUME Pool!Init
  PROVE  Pool!PoolInv
  <1> USE PoolAssumption DEF Pool!Init
  <1>1. Pool!TypeOK
    <2>1. rWorker \in [Workers -> Pool!Label]
      BY DEF Pool!Label
    <2>2. rRuns \in [Workers -> Pool!Task \union {NoTask}]
      OBVIOUS
    <2>3. rStrand \in Seq(Pool!Task) /\ rBegun \in Seq(1 .. MaxTasks)
      OBVIOUS
    <2>4. /\ rOwner = "new" /\ rHandlers = {} /\ rPosted = 0 /\ MaxTasks \in Nat
          /\ rStopped \in BOOLEAN
      OBVIOUS
    <2> QED
      BY <2>1, <2>2, <2>3, <2>4 DEF Pool!TypeOK
  <1>2. Pool!OwnerInv /\ Pool!PoolIsComplete /\ Pool!OnlyBusyRun
    BY DEF Pool!OwnerInv, Pool!PoolIsComplete, Pool!OnlyBusyRun
  <1>3. Pool!StrandInv
    BY DEF Pool!StrandInv
  <1>4. Pool!DispatchIsOrdered
    BY DEF Pool!DispatchIsOrdered
  <1> QED
    BY <1>1, <1>2, <1>3, <1>4 DEF Pool!PoolInv

\* The first task of the strand is taken.
LEMMA Taken ==
  ASSUME NEW T, NEW s \in Seq(T), s # <<>>
  PROVE  /\ Head(s) \in T /\ Head(s) = s[1] /\ 1 \in DOMAIN s
         /\ Tail(s) \in Seq(T)
         /\ \A i \in DOMAIN Tail(s) : i + 1 \in DOMAIN s /\ i \in Nat \ {0} /\ Tail(s)[i] = s[i + 1]
  <1>1. Len(s) \in Nat \ {0} /\ DOMAIN s = 1 .. Len(s)
    OBVIOUS
  <1>2. Head(s) = s[1] /\ s[1] \in T
    BY <1>1
  <1>3. Tail(s) \in Seq(T) /\ Len(Tail(s)) = Len(s) - 1
    OBVIOUS
  <1>4. \A i \in 1 .. Len(Tail(s)) : Tail(s)[i] = s[i + 1]
    BY <1>3
  <1>5. DOMAIN Tail(s) = 1 .. Len(Tail(s))
    BY <1>3
  <1> QED
    BY <1>1, <1>2, <1>3, <1>4, <1>5

\* An element is added.
LEMMA Added ==
  ASSUME NEW T, NEW s \in Seq(T), NEW e \in T
  PROVE  /\ Append(s, e) \in Seq(T)
         /\ \A i \in DOMAIN Append(s, e) :
              \/ i \in DOMAIN s /\ Append(s, e)[i] = s[i]
              \/ i = Len(s) + 1 /\ Append(s, e)[i] = e
         /\ \A i \in DOMAIN s : i \in Nat /\ i <= Len(s)
  OBVIOUS

LEMMA PoolTypeStep ==
  ASSUME Pool!TypeOK, Pool!Next
  PROVE  Pool!TypeOK'
  <1> USE DEF Pool!taskVars
  <1>0. MaxTasks \in Nat /\ rPosted \in 0 .. MaxTasks
    BY PoolAssumption DEF Pool!TypeOK
  <1>1. CASE Pool!Start
    BY <1>1 DEF Pool!Start, Pool!TypeOK, Pool!Label
  <1>2. CASE Pool!Stop
    BY <1>2 DEF Pool!Stop, Pool!TypeOK
  <1>3. CASE Pool!Joined
    BY <1>3 DEF Pool!Joined, Pool!TypeOK
  <1>4. ASSUME NEW o \in BOOLEAN, rPosted < MaxTasks
        PROVE  Pool!Fresh(o) \in Pool!Task
    BY <1>0, <1>4 DEF Pool!Fresh, Pool!Task
  <1>5. CASE Pool!PostToStrand
    <2>1. rStrand' \in Seq(Pool!Task)
      BY <1>4, <1>5, Added DEF Pool!PostToStrand, Pool!TypeOK
    <2>2. rPosted' \in 0 .. MaxTasks
      BY <1>0, <1>5 DEF Pool!PostToStrand
    <2> QED
      BY <1>5, <2>1, <2>2 DEF Pool!PostToStrand, Pool!TypeOK
  <1>6. CASE Pool!HandlerReady
    <2>1. rHandlers' \subseteq Pool!Task
      BY <1>4, <1>6 DEF Pool!HandlerReady, Pool!TypeOK
    <2>2. rPosted' \in 0 .. MaxTasks
      BY <1>0, <1>6 DEF Pool!HandlerReady
    <2> QED
      BY <1>6, <2>1, <2>2 DEF Pool!HandlerReady, Pool!TypeOK
  <1>7. ASSUME NEW w \in Workers, NEW l \in Pool!Label, Pool!Go(w, l)
        PROVE  rWorker' \in [Workers -> Pool!Label]
    BY <1>7 DEF Pool!Go, Pool!TypeOK
  <1>8. ASSUME NEW w \in Workers, Pool!RunStrand(w)
        PROVE  Pool!TypeOK'
    <2>1. Head(rStrand) \in Pool!Task /\ Tail(rStrand) \in Seq(Pool!Task)
      BY <1>8, Taken DEF Pool!RunStrand, Pool!TypeOK
    <2>2. Head(rStrand).number \in 1 .. MaxTasks
      BY <2>1 DEF Pool!Task
    <2>3. rBegun' \in Seq(1 .. MaxTasks) /\ rStrand' \in Seq(Pool!Task)
      BY <1>8, <2>1, <2>2, Added DEF Pool!RunStrand, Pool!TypeOK
    <2>4. rRuns' \in [Workers -> Pool!Task \union {NoTask}]
      BY <1>8, <2>1 DEF Pool!RunStrand, Pool!TypeOK
    <2>5. rWorker' \in [Workers -> Pool!Label]
      BY <1>7, <1>8 DEF Pool!RunStrand, Pool!Label
    <2> QED
      BY <1>8, <2>3, <2>4, <2>5 DEF Pool!RunStrand, Pool!TypeOK
  <1>9. ASSUME NEW w \in Workers, Pool!RunHandler(w)
        PROVE  Pool!TypeOK'
    <2>1. rRuns' \in [Workers -> Pool!Task \union {NoTask}] /\ rHandlers' \subseteq Pool!Task
      BY <1>9 DEF Pool!RunHandler, Pool!TypeOK
    <2>2. rWorker' \in [Workers -> Pool!Label]
      BY <1>7, <1>9 DEF Pool!RunHandler, Pool!Label
    <2> QED
      BY <1>9, <2>1, <2>2 DEF Pool!RunHandler, Pool!TypeOK
  <1>10. ASSUME NEW w \in Workers, Pool!EndTask(w) \/ Pool!RunAgain(w) \/ Pool!Leave(w)
         PROVE  Pool!TypeOK'
    <2>1. rWorker' \in [Workers -> Pool!Label]
      BY <1>7, <1>10 DEF Pool!EndTask, Pool!RunAgain, Pool!Leave, Pool!AfterException, Pool!Label
    <2>2. rRuns' \in [Workers -> Pool!Task \union {NoTask}]
      BY <1>10 DEF Pool!EndTask, Pool!RunAgain, Pool!Leave, Pool!TypeOK
    <2> QED
      BY <1>10, <2>1, <2>2 DEF Pool!EndTask, Pool!RunAgain, Pool!Leave, Pool!TypeOK
  <1> QED
    BY <1>1, <1>2, <1>3, <1>5, <1>6, <1>8, <1>9, <1>10 DEF Pool!Next

\* Which worker does what (runtime.cpp 26-93).
LEMMA WorkerStep ==
  ASSUME Pool!TypeOK, Pool!OwnerInv, Pool!PoolIsComplete, Pool!OnlyBusyRun, Pool!Next
  PROVE  Pool!OwnerInv' /\ Pool!PoolIsComplete' /\ Pool!OnlyBusyRun'
  <1> DEFINE Goal == Pool!OwnerInv' /\ Pool!PoolIsComplete' /\ Pool!OnlyBusyRun'
  <1> USE DEF Pool!OwnerInv, Pool!PoolIsComplete, Pool!OnlyBusyRun, Pool!TypeOK, Pool!Go
  <1>1. CASE Pool!Start
    BY <1>1 DEF Pool!Start, Pool!taskVars
  <1>2. CASE Pool!Stop
    BY <1>2 DEF Pool!Stop, Pool!taskVars
  <1>3. CASE Pool!Joined
    BY <1>3 DEF Pool!Joined, Pool!MayEnd
  <1>4. CASE Pool!PostToStrand \/ Pool!HandlerReady
    <2>1. UNCHANGED <<rOwner, rStopped, rWorker, rRuns>>
      BY <1>4 DEF Pool!PostToStrand, Pool!HandlerReady
    <2> QED
      BY <2>1
  <1>5. ASSUME NEW w \in Workers, Pool!RunStrand(w) \/ Pool!RunHandler(w)
        PROVE  Goal
    BY <1>5 DEF Pool!RunStrand, Pool!RunHandler
  <1>6. ASSUME NEW w \in Workers, Pool!EndTask(w)
        PROVE  Goal
    BY <1>6 DEF Pool!EndTask
  <1>7. ASSUME NEW w \in Workers, Pool!RunAgain(w)
        PROVE  Goal
    BY <1>7 DEF Pool!RunAgain, Pool!AfterException
  <1>8. ASSUME NEW w \in Workers, Pool!Leave(w)
        PROVE  Goal
    BY <1>8 DEF Pool!Leave
  <1> QED
    BY <1>1, <1>2, <1>3, <1>4, <1>5, <1>6, <1>7, <1>8 DEF Pool!Next

\* What is in the strand, and what has begun (runtime.cpp 95-104).
LEMMA StrandStep ==
  ASSUME Pool!TypeOK, Pool!StrandInv, Pool!DispatchIsOrdered, Pool!Next
  PROVE  /\ Pool!StrandInv'
         /\ \A i, j \in 1 .. Len(rBegun') : i < j => rBegun'[i] < rBegun'[j]
  <1> DEFINE Goal == /\ Pool!StrandInv'
                     /\ \A i, j \in 1 .. Len(rBegun') : i < j => rBegun'[i] < rBegun'[j]
  <1>0. /\ rStrand \in Seq(Pool!Task) /\ rBegun \in Seq(1 .. MaxTasks)
        /\ rPosted \in Nat
        /\ \A i \in DOMAIN rStrand : rStrand[i].number \in Nat
        /\ \A i \in DOMAIN rBegun : rBegun[i] \in Nat
        /\ DOMAIN rBegun = 1 .. Len(rBegun)
    <2>1. rStrand \in Seq(Pool!Task) /\ rBegun \in Seq(1 .. MaxTasks) /\ rPosted \in Nat
          /\ MaxTasks \in Nat
      BY PoolAssumption DEF Pool!TypeOK
    <2>2. \A i \in DOMAIN rStrand : rStrand[i] \in Pool!Task
      BY <2>1
    <2>3. \A t \in Pool!Task : t.number \in Nat
      BY <2>1 DEF Pool!Task
    <2>4. \A i \in DOMAIN rBegun : rBegun[i] \in 1 .. MaxTasks
      BY <2>1
    <2> QED
      BY <2>1, <2>2, <2>3, <2>4
  <1>1. ASSUME rHandlers' \subseteq rHandlers, UNCHANGED <<rStrand, rPosted, rBegun>>
        PROVE  Goal
    BY <1>1 DEF Pool!StrandInv, Pool!DispatchIsOrdered
  <1>2. CASE Pool!PostToStrand
    <2> DEFINE e == Pool!Fresh(TRUE)
    <2>1. /\ rStrand' = Append(rStrand, e) /\ e.number = rPosted + 1 /\ rPosted' = rPosted + 1
          /\ UNCHANGED <<rHandlers, rBegun>> /\ e \in Pool!Task
      BY <1>2, PoolAssumption DEF Pool!PostToStrand, Pool!Fresh, Pool!Task, Pool!TypeOK
    <2> HIDE DEF e
    <2>2. /\ \A i \in DOMAIN rStrand' :
               \/ i \in DOMAIN rStrand /\ rStrand'[i] = rStrand[i]
               \/ i = Len(rStrand) + 1 /\ rStrand'[i] = e
          /\ \A i \in DOMAIN rStrand : i \in Nat /\ i <= Len(rStrand)
          /\ Len(rStrand) \in Nat
      BY <1>0, <2>1, Added
    <2>3. \A i \in DOMAIN rStrand' : rStrand'[i].number <= rPosted'
      BY <1>0, <2>1, <2>2 DEF Pool!StrandInv
    <2>4. \A i, j \in DOMAIN rStrand' : i < j => rStrand'[i].number < rStrand'[j].number
      BY <1>0, <2>1, <2>2 DEF Pool!StrandInv
    <2>5. \A i \in DOMAIN rBegun', j \in DOMAIN rStrand' : rBegun'[i] < rStrand'[j].number
      BY <1>0, <2>1, <2>2 DEF Pool!StrandInv
    <2>6. \A i \in DOMAIN rBegun' : rBegun'[i] <= rPosted'
      BY <1>0, <2>1 DEF Pool!StrandInv
    <2> QED
      BY <2>1, <2>3, <2>4, <2>5, <2>6 DEF Pool!StrandInv, Pool!DispatchIsOrdered
  <1>3. CASE Pool!HandlerReady
    <2>1. /\ rHandlers' = rHandlers \union {Pool!Fresh(FALSE)} /\ ~Pool!Fresh(FALSE).ordered
          /\ rPosted' = rPosted + 1 /\ UNCHANGED <<rStrand, rBegun>>
      BY <1>3 DEF Pool!HandlerReady, Pool!Fresh
    <2>2. \A t \in rHandlers' : ~t.ordered
      BY <2>1, Zenon DEF Pool!StrandInv
    <2>3. /\ \A i \in DOMAIN rStrand' : rStrand'[i].number <= rPosted'
          /\ \A i \in DOMAIN rBegun' : rBegun'[i] <= rPosted'
      BY <1>0, <2>1 DEF Pool!StrandInv
    <2> QED
      BY <2>1, <2>2, <2>3 DEF Pool!StrandInv, Pool!DispatchIsOrdered
  <1>4. ASSUME NEW w \in Workers, Pool!RunStrand(w)
        PROVE  Goal
    <2> DEFINE e == Head(rStrand).number
    <2>1. /\ rStrand # <<>> /\ rStrand' = Tail(rStrand) /\ rBegun' = Append(rBegun, e)
          /\ UNCHANGED <<rHandlers, rPosted>>
      BY <1>4 DEF Pool!RunStrand
    <2>2. /\ Head(rStrand) = rStrand[1] /\ 1 \in DOMAIN rStrand
          /\ \A i \in DOMAIN rStrand' :
               i + 1 \in DOMAIN rStrand /\ i \in Nat \ {0} /\ rStrand'[i] = rStrand[i + 1]
      BY <1>0, <2>1, Taken
    <2>3. e = rStrand[1].number /\ e \in Nat
      BY <1>0, <2>2
    <2>4. e \in 1 .. MaxTasks
      <3>1. Head(rStrand) \in Pool!Task
        BY <1>0, <2>1, Taken
      <3> QED
        BY <3>1 DEF Pool!Task
    <2> HIDE DEF e
    <2>5. /\ \A i \in DOMAIN rBegun' :
               \/ i \in DOMAIN rBegun /\ rBegun'[i] = rBegun[i]
               \/ i = Len(rBegun) + 1 /\ rBegun'[i] = e
          /\ \A i \in DOMAIN rBegun : i \in Nat /\ i <= Len(rBegun)
          /\ DOMAIN rBegun' = 1 .. Len(rBegun')
          /\ Len(rBegun) \in Nat
      BY <1>0, <2>1, <2>4, Added
    <2>6. \A i \in DOMAIN rStrand' : rStrand'[i].number <= rPosted'
      BY <2>1, <2>2 DEF Pool!StrandInv
    <2>7. \A i, j \in DOMAIN rStrand' : i < j => rStrand'[i].number < rStrand'[j].number
      BY <2>1, <2>2 DEF Pool!StrandInv
    <2>8. \A j \in DOMAIN rStrand' : e < rStrand'[j].number
      BY <2>2, <2>3 DEF Pool!StrandInv
    <2>9. \A i \in DOMAIN rBegun', j \in DOMAIN rStrand' : rBegun'[i] < rStrand'[j].number
      BY <2>2, <2>5, <2>8 DEF Pool!StrandInv
    <2>10. \A i \in DOMAIN rBegun' : rBegun'[i] <= rPosted'
      BY <2>1, <2>2, <2>3, <2>5 DEF Pool!StrandInv
    <2>11. \A i, j \in 1 .. Len(rBegun') : i < j => rBegun'[i] < rBegun'[j]
      <3> SUFFICES ASSUME NEW i \in DOMAIN rBegun', NEW j \in DOMAIN rBegun', i < j
                   PROVE  rBegun'[i] < rBegun'[j]
        BY <2>5
      <3>1. i \in DOMAIN rBegun /\ rBegun'[i] = rBegun[i]
        BY <2>5
      <3>2. rBegun[i] < e
        BY <2>2, <2>3, <3>1 DEF Pool!StrandInv
      <3> QED
        BY <1>0, <2>5, <3>1, <3>2 DEF Pool!DispatchIsOrdered
    <2> QED
      BY <2>1, <2>6, <2>7, <2>9, <2>10, <2>11 DEF Pool!StrandInv
  <1>5. ASSUME NEW w \in Workers, Pool!RunHandler(w)
        PROVE  Goal
    BY <1>1, <1>5 DEF Pool!RunHandler
  <1>6. CASE \/ Pool!Start \/ Pool!Stop \/ Pool!Joined
             \/ \E w \in Workers : Pool!EndTask(w) \/ Pool!RunAgain(w) \/ Pool!Leave(w)
    BY <1>1, <1>6 DEF Pool!Start, Pool!Stop, Pool!Joined, Pool!EndTask, Pool!RunAgain, Pool!Leave,
          Pool!taskVars
  <1> QED
    BY <1>2, <1>3, <1>4, <1>5, <1>6 DEF Pool!Next

\* One task of the strand at a time.
LEMMA OneTaskStep ==
  ASSUME Pool!TypeOK, Pool!StrandInv, Pool!DispatchIsOrdered, Pool!Next
  PROVE  \A v, w \in Workers :
           v # w /\ rRuns'[v] # NoTask /\ rRuns'[w] # NoTask
           => ~(rRuns'[v].ordered /\ rRuns'[w].ordered)
  <1> SUFFICES ASSUME NEW v \in Workers, NEW w \in Workers, v # w,
                      rRuns'[v] # NoTask, rRuns'[w] # NoTask, rRuns'[v].ordered, rRuns'[w].ordered
               PROVE  FALSE
    OBVIOUS
  <1> USE DEF Pool!TypeOK
  <1>1. CASE UNCHANGED rRuns
    BY <1>1 DEF Pool!DispatchIsOrdered
  <1>2. ASSUME NEW u \in Workers, Pool!RunStrand(u) PROVE FALSE
    BY <1>2 DEF Pool!RunStrand, Pool!StrandIsFree
  <1>3. ASSUME NEW u \in Workers, Pool!RunHandler(u) PROVE FALSE
    BY <1>3 DEF Pool!RunHandler, Pool!StrandInv, Pool!DispatchIsOrdered
  <1>4. ASSUME NEW u \in Workers, Pool!EndTask(u) PROVE FALSE
    BY <1>4 DEF Pool!EndTask, Pool!DispatchIsOrdered
  <1> QED
    BY <1>1, <1>2, <1>3, <1>4 DEF Pool!Next, Pool!Start, Pool!Stop, Pool!Joined, Pool!PostToStrand,
          Pool!HandlerReady, Pool!RunAgain, Pool!Leave

LEMMA PoolStepInv ==
  ASSUME Pool!PoolInv, Pool!Next \/ UNCHANGED poolVars
  PROVE  Pool!PoolInv'
  <1>1. CASE UNCHANGED poolVars
    BY <1>1 DEF poolVars, Pool!PoolInv, Pool!TypeOK, Pool!OwnerInv, Pool!PoolIsComplete,
         Pool!OnlyBusyRun, Pool!StrandInv, Pool!DispatchIsOrdered
  <1>2. CASE Pool!Next
    <2>1. Pool!DispatchIsOrdered'
      BY <1>2, StrandStep, OneTaskStep DEF Pool!PoolInv, Pool!DispatchIsOrdered
    <2> QED
      BY <1>2, <2>1, PoolTypeStep, WorkerStep, StrandStep DEF Pool!PoolInv
  <1> QED
    BY <1>1, <1>2

LEMMA PoolImplies ==
  ASSUME Pool!PoolInv
  PROVE  Pool!PoolIsComplete /\ Pool!DispatchIsOrdered /\ Pool!NothingRunsAfterStop
  BY DEF Pool!PoolInv, Pool!OwnerInv, Pool!OnlyBusyRun, Pool!NothingRunsAfterStop

-----------------------------------------------------------------------------
(* All parts. *)

\* The way of the updates has an invariant of its own (UpdatesProofs).
PartsInv ==
  /\ PeripheryInv
  /\ part = "updates" => IInv /\ ThreadInv

LEMMA PartsInitInv == PeripheryInit => PartsInv
  <1> SUFFICES ASSUME PeripheryInit PROVE PartsInv
    OBVIOUS
  <1>1. /\ part \in Parts
        /\ Init /\ Harvest!Init /\ Sntp!Init /\ Driver!Init /\ Hal!Init /\ Settings!Init /\ Pool!Init
    BY DEF PeripheryInit
  <1>2. IInv /\ ThreadInv
    BY <1>1, InitImpliesIInv, InitInStep DEF ThreadInv
  <1>3. TypeOK
    BY <1>2 DEF IInv
  <1>4. /\ Harvest!HarvestInv /\ Sntp!SntpInv /\ Driver!DriverInv /\ Hal!GpsInv
        /\ Settings!SettingsInv /\ Pool!PoolInv
    BY <1>1, HarvestInitInv, SntpInitInv, DriverInitInv, GpsInitInv, SettingsInitInv, PoolInitInv
  <1> QED
    BY <1>1, <1>2, <1>3, <1>4 DEF PartsInv, PeripheryInv

\* A part moves, or none does.
LEMMA PartsMoveAlone ==
  ASSUME part \in Parts, [PeripheryNext]_peripheryVars
  PROVE  /\ part' = part
         /\ part = "updates" => Next \/ UNCHANGED vars
         /\ part = "harvest" => Harvest!Next \/ UNCHANGED harvestVars
         /\ part = "sntp" => Sntp!Next \/ UNCHANGED sntpVars
         /\ part = "drivers" => Driver!Next \/ UNCHANGED driverVars
         /\ part = "gps" => Hal!Next \/ UNCHANGED halVars
         /\ part = "settings" => Settings!Next \/ UNCHANGED settingsVars
         /\ part = "pool" => Pool!Next \/ UNCHANGED poolVars
  BY Zenon DEF PeripheryNext, peripheryVars

LEMMA PartsStepInv == PartsInv /\ [PeripheryNext]_peripheryVars => PartsInv'
  <1> SUFFICES ASSUME PartsInv, [PeripheryNext]_peripheryVars PROVE PartsInv'
    OBVIOUS
  <1>1. part \in Parts /\ part' = part
    BY PartsMoveAlone DEF PartsInv, PeripheryInv
  <1>2. part = "updates" => IInv' /\ ThreadInv' /\ TypeOK'
    <2> SUFFICES ASSUME part = "updates" PROVE IInv' /\ ThreadInv' /\ TypeOK'
      OBVIOUS
    <2>1. IInv /\ ThreadInv /\ [Next]_vars
      BY <1>1, PartsMoveAlone DEF PartsInv
    <2>2. IInv' /\ ThreadInv'
      BY <2>1, IInvIsInductive, ThreadInvIsInductive
    <2> QED
      BY <2>2 DEF IInv
  <1>3. part = "harvest" => Harvest!HarvestInv'
    BY <1>1, PartsMoveAlone, HarvestStepInv DEF PartsInv, PeripheryInv
  <1>4. part = "sntp" => Sntp!SntpInv'
    BY <1>1, PartsMoveAlone, SntpStepInv DEF PartsInv, PeripheryInv
  <1>5. part = "drivers" => Driver!DriverInv'
    BY <1>1, PartsMoveAlone, DriverStepInv DEF PartsInv, PeripheryInv
  <1>6. part = "gps" => Hal!GpsInv'
    BY <1>1, PartsMoveAlone, GpsStepInv DEF PartsInv, PeripheryInv
  <1>7. part = "settings" => Settings!SettingsInv'
    BY <1>1, PartsMoveAlone, SettingsStepInv DEF PartsInv, PeripheryInv
  <1>8. part = "pool" => Pool!PoolInv'
    BY <1>1, PartsMoveAlone, PoolStepInv DEF PartsInv, PeripheryInv
  <1> QED
    BY <1>1, <1>2, <1>3, <1>4, <1>5, <1>6, <1>7, <1>8 DEF PartsInv, PeripheryInv

LEMMA PartsInvHolds == PeripherySpec => []PartsInv
BY PartsInitInv, PartsStepInv, PTL DEF PeripherySpec

(***************************************************************************)
(* The invariant of the parts holds: what one thread has left half-way the *)
(* others find as the last step is about to put it right (harvester.cpp    *)
(* 38-79, sntp_client.cpp 99-150, skyhook/provider.cpp 69-157,             *)
(* runtime_tests.cpp 93-157, boost_ptree_settings.cpp 28-51, runtime.cpp   *)
(* 26-109).                                                                *)
(***************************************************************************)
THEOREM PeripheryIsInvariant == PeripherySpec => []PeripheryInv
<1>1. PartsInv => PeripheryInv
  BY DEF PartsInv
<1> QED BY <1>1, PartsInvHolds, PTL

(***************************************************************************)
(* The updates are sound also as one part among the others                 *)
(* (time_based_update_policy.cpp 39-122, fusion_provider.cpp 36-55).       *)
(***************************************************************************)
THEOREM UpdatesStaySound == PeripherySpec => []UpdatesAreSound
<1>1. PartsInv => UpdatesAreSound
  BY ThreadInvMeansProperties DEF PartsInv, UpdatesAreSound, IInv
<1> QED BY <1>1, PartsInvHolds, PTL

(***************************************************************************)
(* Harvesting follows the user's switch, however clients set it against    *)
(* the reporters that the last change has started, and reports at most     *)
(* what was under way once it is off (harvester.cpp 38-79).                *)
(***************************************************************************)
THEOREM HarvestingStaysSafe == PeripherySpec => []HarvestingIsSafe
<1>1. PartsInv => HarvestingIsSafe
  BY HarvestImplies DEF PartsInv, PeripheryInv, HarvestingIsSafe
<1> QED BY <1>1, PartsInvHolds, PTL

(***************************************************************************)
(* Every wait for the time server ends, its time is true to a second       *)
(* whatever the packets' ways are, the driver has the modes of the layer,  *)
(* the flags of a vehicle are its own, and a trial has a fix of its own    *)
(* (sntp_client.cpp 99-217, android_hardware_abstraction_layer.cpp         *)
(* 235-272 and 485-510, runtime_tests.cpp 93-157).                         *)
(***************************************************************************)
THEOREM GpsStaysSafe == PeripherySpec => []GpsIsSafe
<1>1. PartsInv => GpsIsSafe
  <2>1. Sntp!SntpInv => Sntp!WaitEnds /\ Sntp!SampleIsTrueToASecond
    BY SntpImplies, SntpAssumption
  <2> QED
    BY <2>1 DEF PartsInv, PeripheryInv, GpsIsSafe, Hal!GpsInv
<1> QED BY <1>1, PartsInvHolds, PTL

(***************************************************************************)
(* The workers of dummy, skyhook and geoclue run exactly while they are    *)
(* wanted, for callers that wait for the effect of their calls and a bus   *)
(* that can be run again (dummy/provider.cpp, skyhook/provider.cpp,        *)
(* geoclue/provider.cpp).                                                  *)
(***************************************************************************)
THEOREM DriversStaySafe == PeripherySpec => []DriversAreSafe
<1>1. PartsInv => DriversAreSafe
  BY DriverImplies DEF PartsInv, PeripheryInv, DriversAreSafe
<1> QED BY <1>1, PartsInvHolds, PTL

(***************************************************************************)
(* However often the daemon is killed or a write fails, what was stored    *)
(* survives and an opt-out is not undone, as long as the system it runs on *)
(* goes on: completed writes are not synced (boost_ptree_settings.cpp      *)
(* 28-51, engine.cpp 96-116).                                              *)
(***************************************************************************)
THEOREM SettingsStaySafe == PeripherySpec => []SettingsAreSafe
<1>1. PartsInv => SettingsAreSafe
  BY SettingsImplies DEF PartsInv, PeripheryInv, SettingsAreSafe
<1> QED BY <1>1, PartsInvHolds, PTL

(***************************************************************************)
(* For any number of workers and tasks the pool loses no thread, keeps the *)
(* order of the dispatcher and runs nothing once it is stopped             *)
(* (runtime.cpp 26-109).                                                   *)
(***************************************************************************)
THEOREM PoolStaysSafe == PeripherySpec => []PoolIsSafe
<1>1. PartsInv => PoolIsSafe
  BY PoolImplies DEF PartsInv, PeripheryInv, PoolIsSafe
<1> QED BY <1>1, PartsInvHolds, PTL
=============================================================================
