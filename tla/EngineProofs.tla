---------------------------- MODULE EngineProofs ----------------------------
(***************************************************************************)
(* Proofs about the engine for any number of providers, features and       *)
(* sessions, any choice of providers per session, with and without         *)
(* restarts: the promises of EngineProperties follow from EngineInv, which *)
(* every call of the dispatching thread preserves.  For each conjunct of   *)
(* EngineInv there is a lemma about one step that replaces the head of the *)
(* stack by calls, and one that says that every call makes such a step.    *)
(***************************************************************************)
EXTENDS EngineSwitch, RemoteDaemons, SequenceTheorems, FiniteSetTheorems, TLAPS

USE DEF Positions

-----------------------------------------------------------------------------
(* One step of the stack. *)

\* The step replaces the head of the stack by calls.
Replaced(calls) ==
  /\ todo \in Seq(Calls) /\ todo' \in Seq(Calls) /\ calls \in Seq(Calls)
  /\ Len(todo) \in Nat /\ Len(todo') \in Nat /\ Len(calls) \in Nat
  /\ todo # <<>> /\ Len(todo) > 0
  /\ Len(todo') = Len(calls) + Len(todo) - 1
  /\ \A i \in 1 .. Len(calls) : todo'[i] = calls[i]
  /\ \A i \in 1 .. Len(todo') : i > Len(calls) =>
       /\ i - Len(calls) + 1 \in Positions
       /\ i - Len(calls) + 1 > 1
       /\ todo'[i] = todo[i - Len(calls) + 1]
  /\ \A i \in Positions : i > 1 =>
       /\ i + Len(calls) - 1 \in 1 .. Len(todo')
       /\ i + Len(calls) - 1 > Len(calls)
       /\ todo'[i + Len(calls) - 1] = todo[i]

\* ReturnAfter replaces the head: what the handlers of Engine do to the stack.
LEMMA Replacing ==
  ASSUME NEW calls \in Seq(Calls), todo \in Seq(Calls), todo # <<>>, ReturnAfter(calls)
  PROVE  Replaced(calls) /\ This = todo[1] /\ This \in Calls
  <1>1. Tail(todo) \in Seq(Calls) /\ Len(Tail(todo)) = Len(todo) - 1
        /\ \A i \in 1 .. Len(Tail(todo)) : Tail(todo)[i] = todo[i + 1]
        /\ This \in Calls
    BY HeadTailProperties DEF This
  <1>2. Len(todo) \in Nat /\ Len(todo) > 0 /\ Len(calls) \in Nat
    BY LenProperties, EmptySeq
  <1>3. /\ calls \o Tail(todo) \in Seq(Calls)
        /\ Len(calls \o Tail(todo)) = Len(calls) + Len(Tail(todo))
        /\ \A i \in 1 .. Len(calls) + Len(Tail(todo)) : (calls \o Tail(todo))[i] =
             IF i <= Len(calls) THEN calls[i] ELSE Tail(todo)[i - Len(calls)]
    BY <1>1, ConcatProperties
  <1>4. todo' = calls \o Tail(todo)
    BY DEF ReturnAfter
  <1>5. This = todo[1]
    BY <1>2 DEF This
  <1>6. /\ todo' \in Seq(Calls)
        /\ Len(todo') = Len(calls) + Len(todo) - 1
        /\ \A i \in 1 .. Len(calls) + Len(todo) - 1 : todo'[i] =
             IF i <= Len(calls) THEN calls[i] ELSE todo[i - Len(calls) + 1]
    BY <1>1, <1>2, <1>3, <1>4
  <1>7. ASSUME NEW i \in 1 .. Len(todo'), i > Len(calls)
        PROVE  /\ i - Len(calls) + 1 \in Positions
               /\ i - Len(calls) + 1 > 1
               /\ todo'[i] = todo[i - Len(calls) + 1]
    BY <1>2, <1>6, <1>7
  <1>8. ASSUME NEW i \in Positions, i > 1
        PROVE  /\ i + Len(calls) - 1 \in 1 .. Len(todo')
               /\ i + Len(calls) - 1 > Len(calls)
               /\ todo'[i + Len(calls) - 1] = todo[i]
    <2>1. i + Len(calls) - 1 \in 1 .. Len(todo') /\ i + Len(calls) - 1 > Len(calls)
      BY <1>2, <1>6, <1>8
    <2> QED
      BY <2>1, <1>7, <1>2, <1>8
  <1>9. \A i \in 1 .. Len(calls) : todo'[i] = calls[i]
    BY <1>2, <1>6
  <1>10. Len(todo') \in Nat
    BY <1>6, <1>2
  <1> QED
    BY <1>1, <1>2, <1>5, <1>6, <1>7, <1>8, <1>9, <1>10 DEF Replaced

\* Calls that may wait above each other and above what the head waited above
\* keep the stack nested.
LEMMA NestedStep ==
  ASSUME NEW calls, Replaced(calls), Nested,
         \A i, j \in 1 .. Len(calls) : i < j => MayPrecede(calls[i], calls[j]),
         \A i \in 1 .. Len(calls) : \A d \in Calls :
            MayPrecede(todo[1], d) => MayPrecede(calls[i], d)
  PROVE  Nested'
  <1> SUFFICES ASSUME NEW i \in 1 .. Len(todo'), NEW j \in 1 .. Len(todo'), i < j
               PROVE  MayPrecede(todo[i], todo[j])'
    BY DEF Nested
  <1> SUFFICES MayPrecede(todo'[i], todo'[j])
    BY DEF MayPrecede, SwitchesOn, Elsewhere, Immediate
  <1>1. CASE j <= Len(calls)
    <2>1. i \in 1 .. Len(calls) /\ j \in 1 .. Len(calls)
      BY <1>1 DEF Replaced
    <2>2. todo'[i] = calls[i] /\ todo'[j] = calls[j]
      BY <2>1 DEF Replaced
    <2> QED
      BY <2>1, <2>2
  <1>2. CASE i <= Len(calls) /\ j > Len(calls)
    <2> DEFINE k == j - Len(calls) + 1
    <2>1. k \in Positions /\ k > 1 /\ todo'[j] = todo[k] /\ 1 \in Positions
      BY <1>2 DEF Replaced
    <2>2. MayPrecede(todo[1], todo[k]) /\ todo[k] \in Calls
      BY <2>1, ElementOfSeq DEF Nested, Replaced
    <2> QED
      BY <1>2, <2>1, <2>2 DEF Replaced
  <1>3. CASE i > Len(calls)
    <2> DEFINE k == i - Len(calls) + 1
               l == j - Len(calls) + 1
    <2>1. Len(calls) \in Nat /\ Len(todo') \in Nat /\ j > Len(calls)
      BY <1>3 DEF Replaced
    <2>2. k \in Positions /\ todo'[i] = todo[k]
      BY <1>3 DEF Replaced
    <2>3. l \in Positions /\ todo'[j] = todo[l]
      BY <2>1 DEF Replaced
    <2>4. k < l
      BY <2>1
    <2>5. MayPrecede(todo[k], todo[l])
      BY <2>2, <2>3, <2>4 DEF Nested
    <2> QED
      BY <2>2, <2>3, <2>5
  <1> QED
    BY <1>1, <1>2, <1>3 DEF Replaced
-----------------------------------------------------------------------------

\* The calls of a loop over the providers, or over the features of one.
LEMMA ForEach ==
  ASSUME TypeOK
  PROVE  /\ \A op \in {"enable", "enable_if_on", "disable", "disable_satellite"} :
              /\ ForEachProvider(op) \in Seq(Calls)
              /\ Len(ForEachProvider(op)) = NProviders
              /\ \A p \in 1 .. NProviders : ForEachProvider(op)[p] = Call(op, p, 0, "-")
         /\ \A p \in Providers :
              /\ ForEachFeature("stop_if_counted", p) \in Seq(Calls)
              /\ Len(ForEachFeature("stop_if_counted", p)) = NFeatures
              /\ \A f \in 1 .. NFeatures :
                   ForEachFeature("stop_if_counted", p)[f] = Call("stop_if_counted", p, f, "-")
  <1> USE EngineAssumption
  <1>1. ASSUME NEW op \in {"enable", "enable_if_on", "disable", "disable_satellite"}
        PROVE  /\ ForEachProvider(op) \in Seq(Calls)
               /\ Len(ForEachProvider(op)) = NProviders
    <2>1. \A p \in Providers : Call(op, p, 0, "-") \in Calls
      BY DEF Calls, Call, ProviderOps
    <2>2. ForEachProvider(op) \in [1 .. NProviders -> Calls]
      BY <2>1 DEF ForEachProvider, Providers
    <2> QED
      BY <2>2, SeqDef, LenProperties DEF ForEachProvider, Providers
  <1>2. ASSUME NEW p \in Providers
        PROVE  /\ ForEachFeature("stop_if_counted", p) \in Seq(Calls)
               /\ Len(ForEachFeature("stop_if_counted", p)) = NFeatures
    <2>1. \A f \in Features : Call("stop_if_counted", p, f, "-") \in Calls
      BY DEF Calls, Call, FeatureOps
    <2>2. ForEachFeature("stop_if_counted", p) \in [1 .. NFeatures -> Calls]
      BY <2>1 DEF ForEachFeature, Features
    <2> QED
      BY <2>2, SeqDef, LenProperties DEF ForEachFeature, Features
  <1> QED
    BY <1>1, <1>2 DEF ForEachProvider, ForEachFeature, Providers, Features

\* The call being made, from the name of its operation.
LEMMA Called ==
  ASSUME TypeOK, NEW op, Calling(op)
  PROVE  todo \in Seq(Calls) /\ todo # <<>> /\ This \in Calls /\ This.op = op /\ This = todo[1]
  <1>1. todo \in Seq(Calls) /\ todo # <<>> /\ This.op = op
    BY DEF Calling, TypeOK, This
  <1> QED
    BY <1>1, HeadTailProperties DEF This

\* Returning without a call.
LEMMA Empty == <<>> \in Seq(Calls) /\ Len(<<>>) = 0
  OBVIOUS

\* StartUpdates (provider.cpp 52-59): a start that is not refused reports the
\* provider active and reaches the implementation.
LEMMA StartStep ==
  ASSUME TypeOK, StartUpdates
  PROVE  \E p \in Providers, f \in Features :
           /\ todo[1] = Call("start", p, f, "-")
           /\ counter' = [counter EXCEPT ![p][f] = Incremented(@)]
           /\ \/ /\ counter[p][f] = 0
                 /\ Replaced(<<Call("track", p, 0, "active"), Call("impl_start", p, f, "-")>>)
              \/ counter[p][f] # 0 /\ Replaced(<<>>)
  <1> DEFINE p == This.p
             f == This.f
             calls == <<Call("track", p, 0, "active"), Call("impl_start", p, f, "-")>>
  <1>1. Calling("start")
    BY DEF StartUpdates
  <1>2. p \in Providers /\ f \in Features /\ This = Call("start", p, f, "-")
    BY <1>1, Called DEF Calls, ProviderOps, FeatureOps, Call
  <1>3. calls \in Seq(Calls)
    BY <1>2 DEF Calls, FeatureOps, Call, TrackedState
  <1>4. CASE counter[p][f] = 0
    BY <1>1, <1>2, <1>3, <1>4, Called, Replacing DEF StartUpdates
  <1>5. CASE counter[p][f] # 0
    BY <1>1, <1>2, <1>5, Called, Empty, Replacing DEF StartUpdates, Return
  <1> QED
    BY <1>4, <1>5

\* StopUpdates (provider.cpp 62-70).
LEMMA StopStep ==
  ASSUME TypeOK, StopUpdates
  PROVE  \E p \in Providers, f \in Features :
           /\ todo[1] = Call("stop", p, f, "-")
           /\ counter' = [counter EXCEPT ![p][f] = Decremented(@)]
           /\ \/ /\ counter[p][f] = 1
                 /\ Replaced(<<Call("track", p, 0, "enabled"), Call("impl_stop", p, f, "-")>>)
              \/ counter[p][f] # 1 /\ Replaced(<<>>)
  <1> DEFINE p == This.p
             f == This.f
             calls == <<Call("track", p, 0, "enabled"), Call("impl_stop", p, f, "-")>>
  <1>1. Calling("stop")
    BY DEF StopUpdates
  <1>2. p \in Providers /\ f \in Features /\ This = Call("stop", p, f, "-")
    BY <1>1, Called DEF Calls, ProviderOps, FeatureOps, Call
  <1>3. calls \in Seq(Calls)
    BY <1>2 DEF Calls, FeatureOps, Call, TrackedState
  <1>4. CASE counter[p][f] = 1
    BY <1>1, <1>2, <1>3, <1>4, Called, Replacing DEF StopUpdates
  <1>5. CASE counter[p][f] # 1
    BY <1>1, <1>2, <1>5, Called, Empty, Replacing DEF StopUpdates, Return
  <1> QED
    BY <1>4, <1>5

\* The loop of disable() over the features (provider.cpp 40-45).
LEMMA StopIfStep ==
  ASSUME TypeOK, StopIfCounted
  PROVE  \E p \in Providers, f \in Features :
           /\ todo[1] = Call("stop_if_counted", p, f, "-")
           /\ \/ /\ counter[p][f] > 0
                 /\ Replaced(<<Call("track", p, 0, "enabled"), Call("impl_stop", p, f, "-")>>)
              \/ ~(counter[p][f] > 0) /\ Replaced(<<>>)
  <1> DEFINE p == This.p
             f == This.f
             calls == <<Call("track", p, 0, "enabled"), Call("impl_stop", p, f, "-")>>
  <1>1. Calling("stop_if_counted")
    BY DEF StopIfCounted
  <1>2. p \in Providers /\ f \in Features /\ This = Call("stop_if_counted", p, f, "-")
    BY <1>1, Called DEF Calls, ProviderOps, FeatureOps, Call
  <1>3. calls \in Seq(Calls)
    BY <1>2 DEF Calls, FeatureOps, Call, TrackedState
  <1>4. CASE counter[p][f] > 0
    <2>1. ReturnAfter(calls)
      BY <1>4 DEF StopIfCounted
    <2>2. Replaced(calls)
      BY <1>1, <1>3, <2>1, Called, Replacing
    <2> QED
      BY <1>1, <1>2, <1>4, <2>2, Called
  <1>5. CASE ~(counter[p][f] > 0)
    BY <1>1, <1>2, <1>5, Called, Empty, Replacing DEF StopIfCounted, Return
  <1> QED
    BY <1>4, <1>5

\* enable() of a provider (provider.cpp 31-36).
LEMMA EnableStep ==
  ASSUME TypeOK, EnableProvider
  PROVE  \E p \in Providers :
           /\ \/ /\ todo[1] = Call("enable", p, 0, "-")
                 /\ ~(p \in Satellite /\ satellite_state = "off")
              \/ todo[1] = Call("enable_if_on", p, 0, "-") /\ p \in Satellite
           /\ counter' = [counter EXCEPT ![p] = [f \in Features |-> 0]]
           /\ Replaced(<<>>)
  <1> DEFINE p == This.p
  <1>1. /\ todo \in Seq(Calls) /\ todo # <<>> /\ This = todo[1] /\ This \in Calls
        /\ This.op \in {"enable", "enable_if_on"}
    BY Called DEF EnableProvider
  <1>2. p \in Providers /\ This = Call(This.op, p, 0, "-")
    BY <1>1 DEF Calls, ProviderOps, FeatureOps, Call
  <1>3. Replaced(<<>>)
    BY <1>1, Empty, Replacing DEF EnableProvider, Return
  <1>4. \/ This.op = "enable" /\ ~(p \in Satellite /\ satellite_state = "off")
        \/ This.op = "enable_if_on" /\ p \in Satellite
    BY DEF EnableProvider, Calling, This
  <1> QED
    BY <1>1, <1>2, <1>3, <1>4 DEF EnableProvider

\* The iterations of the engine's loops that leave a provider alone.
LEMMA SkipStep ==
  ASSUME TypeOK, SkipEnable \/ SkipDisable
  PROVE  /\ todo[1].op \in {"enable", "enable_if_on", "disable_satellite"}
         /\ todo[1].op = "disable_satellite" => todo[1].p \notin Satellite
         /\ Replaced(<<>>)
  <1>1. /\ todo \in Seq(Calls) /\ todo # <<>> /\ This = todo[1]
        /\ This.op \in {"enable", "enable_if_on", "disable_satellite"}
    BY Called DEF SkipEnable, SkipDisable
  <1>2. Replaced(<<>>)
    BY <1>1, Empty, Replacing DEF SkipEnable, SkipDisable, Return
  <1>3. This.op = "disable_satellite" => This.p \notin Satellite
    BY DEF SkipEnable, SkipDisable, Calling, This
  <1> QED
    BY <1>1, <1>2, <1>3

\* A Stub that cannot say what it requires is passed over.
LEMMA UnansweredStep ==
  ASSUME TypeOK, RequiresUnanswered
  PROVE  /\ todo[1].op \in {"enable", "enable_if_on", "disable_satellite"}
         /\ todo[1].p = This.p /\ This.p \in RemoteProviders
         /\ Replaced(<<>>)
  <1>1. /\ todo \in Seq(Calls) /\ todo # <<>> /\ This = todo[1]
        /\ This.op \in {"enable", "enable_if_on", "disable_satellite"}
    BY Called DEF RequiresUnanswered, Asks
  <1>2. Replaced(<<>>)
    BY <1>1, Empty, Replacing DEF RequiresUnanswered, Return
  <1>3. This.p \in RemoteProviders
    BY DEF RequiresUnanswered, Asks
  <1> QED
    BY <1>1, <1>2, <1>3

\* disable() of a provider stops what is counted and then marks it.
LEMMA DisableStep ==
  ASSUME TypeOK, DisableProvider
  PROVE  \E p \in Providers, calls \in Seq(Calls) :
           /\ todo[1].op \in {"disable", "disable_satellite"} /\ todo[1].p = p
           /\ todo[1].op = "disable_satellite" => p \in Satellite
           /\ Replaced(calls)
           /\ Len(calls) = NFeatures + 1
           /\ \A f \in 1 .. NFeatures : calls[f] = Call("stop_if_counted", p, f, "-")
           /\ calls[NFeatures + 1] = Call("mark_disabled", p, 0, "-")
  <1> DEFINE p == This.p
             mark == Call("mark_disabled", p, 0, "-")
             calls == Append(ForEachFeature("stop_if_counted", p), mark)
  <1>1. /\ todo \in Seq(Calls) /\ todo # <<>> /\ This = todo[1] /\ This \in Calls
        /\ This.op \in {"disable", "disable_satellite"}
    BY Called DEF DisableProvider
  <1>2. p \in Providers /\ mark \in Calls
    BY <1>1 DEF Calls, ProviderOps, FeatureOps, Call
  <1>3. /\ calls \in Seq(Calls) /\ Len(calls) = NFeatures + 1
        /\ \A f \in 1 .. NFeatures : calls[f] = Call("stop_if_counted", p, f, "-")
        /\ calls[NFeatures + 1] = mark
    <2> HIDE DEF mark
    <2> QED
      BY <1>2, ForEach, AppendProperties, EngineAssumption
  <1>4. Replaced(calls)
    BY <1>1, <1>3, Replacing DEF DisableProvider
  <1>5. This.op = "disable_satellite" => p \in Satellite
    BY DEF DisableProvider, Calling, This
  <1> QED
    BY <1>1, <1>2, <1>3, <1>4, <1>5

\* The end of disable(): the counters are set to -1.
LEMMA MarkStep ==
  ASSUME TypeOK, MarkDisabled
  PROVE  \E p \in Providers :
           /\ todo[1] = Call("mark_disabled", p, 0, "-")
           /\ counter' = [counter EXCEPT ![p] = [f \in Features |-> -1]]
           /\ Replaced(<<>>)
  <1>1. Calling("mark_disabled")
    BY DEF MarkDisabled
  <1>2. This.p \in Providers /\ This = Call("mark_disabled", This.p, 0, "-")
    BY <1>1, Called DEF Calls, ProviderOps, FeatureOps, Call
  <1> QED
    BY <1>1, <1>2, Called, Empty, Replacing DEF MarkDisabled, Return

\* The implementation's own controller counts a start.
LEMMA ImplStartStep ==
  ASSUME TypeOK, ImplStart
  PROVE  \E p \in Providers, f \in Features :
           /\ todo[1] = Call("impl_start", p, f, "-")
           /\ implCounter' = [implCounter EXCEPT ![p][f] = Incremented(@)]
           /\ hardware' = [hardware EXCEPT ![p][f] = @ \/ implCounter[p][f] = 0]
           /\ Replaced(<<>>)
  <1>1. Calling("impl_start")
    BY DEF ImplStart
  <1>2. /\ This.p \in Providers /\ This.f \in Features
        /\ This = Call("impl_start", This.p, This.f, "-")
    BY <1>1, Called DEF Calls, ProviderOps, FeatureOps, Call
  <1> QED
    BY <1>1, <1>2, Called, Empty, Replacing DEF ImplStart, Return

\* The implementation's own controller counts a stop.
LEMMA ImplStopStep ==
  ASSUME TypeOK, ImplStop
  PROVE  \E p \in Providers, f \in Features :
           /\ todo[1] = Call("impl_stop", p, f, "-")
           /\ implCounter' = [implCounter EXCEPT ![p][f] = Decremented(@)]
           /\ hardware' = [hardware EXCEPT ![p][f] = @ /\ implCounter[p][f] # 1]
           /\ Replaced(<<>>)
  <1>1. Calling("impl_stop")
    BY DEF ImplStop
  <1>2. /\ This.p \in Providers /\ This.f \in Features
        /\ This = Call("impl_stop", This.p, This.f, "-")
    BY <1>1, Called DEF Calls, ProviderOps, FeatureOps, Call
  <1> QED
    BY <1>1, <1>2, Called, Empty, Replacing DEF ImplStop, Return

\* The engine's slot on a provider's state (engine.cpp 208-217).
LEMMA TrackStep ==
  ASSUME TypeOK, TrackState
  PROVE  \E p \in Providers, v \in TrackedState :
           /\ todo[1] = Call("track", p, 0, v)
           /\ tracked' = [tracked EXCEPT ![p] = v]
           /\ \/ tracked[p] = v /\ Replaced(<<>>)
              \/ \E s \in {"active", "on"} :
                   /\ s = "active" <=> is_any_active(tracked')
                   /\ Replaced(<<Call("set_engine_state", 0, 0, s)>>)
  <1> DEFINE p == This.p
             v == This.v
             s == IF is_any_active(tracked') THEN "active" ELSE "on"
             calls == <<Call("set_engine_state", 0, 0, s)>>
  <1>1. Calling("track")
    BY DEF TrackState
  <1>2. p \in Providers /\ v \in TrackedState /\ This = Call("track", p, 0, v)
    BY <1>1, Called DEF Calls, ProviderOps, FeatureOps, Call
  <1>3. calls \in Seq(Calls)
    BY DEF Calls, Call, Status
  <1>4. CASE tracked[p] = v
    BY <1>1, <1>2, <1>4, Called, Empty, Replacing DEF TrackState, Return
  <1>5. CASE tracked[p] # v
    <2>1. Replaced(calls)
      BY <1>1, <1>3, <1>5, Called, Replacing DEF TrackState
    <2> QED
      BY <1>1, <1>2, <2>1, Called DEF TrackState
  <1> QED
    BY <1>4, <1>5

\* Writing Configuration::engine_state: the slots run only if the
\* value changes.
LEMMA SetEngineStep ==
  ASSUME TypeOK, SetEngineState
  PROVE  \E v \in Status :
           /\ todo[1] = Call("set_engine_state", 0, 0, v)
           /\ engine_state' = v
           /\ \/ engine_state = v /\ Replaced(<<>>)
              \/ /\ engine_state # v
                 /\ Replaced(<<Call("engine_slot", 0, 0, v), Call("persist", 0, 0, v),
                               Call("service_slot", 0, 0, v)>>)
  <1> DEFINE v == This.v
             calls == <<Call("engine_slot", 0, 0, v), Call("persist", 0, 0, v),
                        Call("service_slot", 0, 0, v)>>
  <1>1. Calling("set_engine_state")
    BY DEF SetEngineState
  <1>2. v \in Status /\ This = Call("set_engine_state", 0, 0, v)
    BY <1>1, Called DEF Calls, ProviderOps, FeatureOps, Call
  <1>3. calls \in Seq(Calls)
    BY <1>2 DEF Calls, Call
  <1>4. CASE engine_state = v
    BY <1>1, <1>2, <1>4, Called, Empty, Replacing DEF SetEngineState, Return
  <1>5. CASE engine_state # v
    BY <1>1, <1>2, <1>3, <1>5, Called, Replacing DEF SetEngineState
  <1> QED
    BY <1>4, <1>5

\* The engine's slot on its own state (engine.cpp 74-94).
LEMMA EngineSlotStep ==
  ASSUME TypeOK, EngineSlot
  PROVE  \E v \in Status, calls \in Seq(Calls) :
           /\ todo[1] = Call("engine_slot", 0, 0, v)
           /\ Replaced(calls)
           /\ v = "active" => calls = <<>>
           /\ v # "active" =>
                /\ Len(calls) = NProviders
                /\ \A p \in 1 .. NProviders :
                     calls[p] = Call(IF v = "on" THEN "enable" ELSE "disable", p, 0, "-")
  <1> DEFINE v == This.v
  <1>1. Calling("engine_slot")
    BY DEF EngineSlot
  <1>2. v \in Status /\ This = Call("engine_slot", 0, 0, v)
    BY <1>1, Called DEF Calls, ProviderOps, FeatureOps, Call
  <1>3. CASE v = "active"
    BY <1>1, <1>2, <1>3, Called, Empty, Replacing DEF EngineSlot
  <1>4. CASE v # "active"
    <2> DEFINE op == IF v = "on" THEN "enable" ELSE "disable"
               calls == ForEachProvider(op)
    <2>1. op \in {"enable", "disable"}
      OBVIOUS
    <2>2. /\ calls \in Seq(Calls) /\ Len(calls) = NProviders
          /\ \A p \in 1 .. NProviders : calls[p] = Call(op, p, 0, "-")
      BY <2>1, ForEach
    <2>3. ReturnAfter(calls)
      BY <1>2, <1>4 DEF EngineSlot, Status
    <2> QED
      BY <1>1, <1>2, <1>4, <2>2, <2>3, Called, Replacing
  <1> QED
    BY <1>3, <1>4

\* The engine writes its state to the settings (engine.cpp 108-111).
LEMMA PersistStep ==
  ASSUME TypeOK, PersistEngineState
  PROVE  \E v \in Status :
           todo[1] = Call("persist", 0, 0, v) /\ settings' = v /\ Replaced(<<>>)
  <1>1. Calling("persist")
    BY DEF PersistEngineState
  <1>2. This.v \in Status /\ This = Call("persist", 0, 0, This.v)
    BY <1>1, Called DEF Calls, ProviderOps, FeatureOps, Call
  <1> QED
    BY <1>1, <1>2, Called, Empty, Replacing DEF PersistEngineState, Return

\* Writing the satellite state: the slots run only if the value changes.
LEMMA SetSatelliteStep ==
  ASSUME TypeOK, SetSatelliteState
  PROVE  \E v \in OnOff :
           /\ todo[1] = Call("set_satellite_state", 0, 0, v)
           /\ satellite_state' = v
           /\ \/ satellite_state = v /\ Replaced(<<>>)
              \/ Replaced(<<Call("satellite_slot", 0, 0, v), Call("satellite_mirror", 0, 0, v)>>)
  <1> DEFINE v == This.v
             calls == <<Call("satellite_slot", 0, 0, v), Call("satellite_mirror", 0, 0, v)>>
  <1>1. Calling("set_satellite_state")
    BY DEF SetSatelliteState
  <1>2. v \in OnOff /\ This = Call("set_satellite_state", 0, 0, v)
    BY <1>1, Called DEF Calls, ProviderOps, FeatureOps, Call
  <1>3. calls \in Seq(Calls)
    BY <1>2 DEF Calls, Call
  <1>4. CASE satellite_state = v
    BY <1>1, <1>2, <1>4, Called, Empty, Replacing DEF SetSatelliteState, Return
  <1>5. CASE satellite_state # v
    BY <1>1, <1>2, <1>3, <1>5, Called, Replacing DEF SetSatelliteState
  <1> QED
    BY <1>4, <1>5

\* The engine's slot on the satellite state (engine.cpp 52-72).
LEMMA SatelliteSlotStep ==
  ASSUME TypeOK, SatelliteSlot
  PROVE  \E v \in OnOff, calls \in Seq(Calls) :
           /\ todo[1] = Call("satellite_slot", 0, 0, v)
           /\ Replaced(calls)
           /\ Len(calls) = NProviders
           /\ \A p \in 1 .. NProviders :
                calls[p] = Call(IF v = "on" THEN "enable_if_on" ELSE "disable_satellite", p, 0, "-")
  <1> DEFINE v == This.v
             op == IF v = "on" THEN "enable_if_on" ELSE "disable_satellite"
             calls == ForEachProvider(op)
  <1>1. Calling("satellite_slot")
    BY DEF SatelliteSlot
  <1>2. v \in OnOff /\ This = Call("satellite_slot", 0, 0, v)
    BY <1>1, Called DEF Calls, ProviderOps, FeatureOps, Call
  <1>3. op \in {"enable_if_on", "disable_satellite"}
    OBVIOUS
  <1>4. /\ calls \in Seq(Calls) /\ Len(calls) = NProviders
        /\ \A p \in 1 .. NProviders : calls[p] = Call(op, p, 0, "-")
    BY <1>3, ForEach
  <1>5. ReturnAfter(calls)
    BY DEF SatelliteSlot
  <1> QED
    BY <1>1, <1>2, <1>4, <1>5, Called, Replacing

\* The service's slot on the satellite state.
LEMMA SatelliteMirrorStep ==
  ASSUME TypeOK, SatelliteMirror
  PROVE  \E v \in OnOff :
           /\ todo[1] = Call("satellite_mirror", 0, 0, v)
           /\ Replaced(<<Call("set_does_satellite", 0, 0, v)>>)
  <1> DEFINE v == This.v
  <1>1. Calling("satellite_mirror")
    BY DEF SatelliteMirror
  <1>2. v \in OnOff /\ This = Call("satellite_mirror", 0, 0, v)
    BY <1>1, Called DEF Calls, ProviderOps, FeatureOps, Call
  <1>3. <<Call("set_does_satellite", 0, 0, v)>> \in Seq(Calls)
    BY <1>2 DEF Calls, Call
  <1>4. Replaced(<<Call("set_does_satellite", 0, 0, v)>>)
    BY <1>1, <1>3, Called, Replacing DEF SatelliteMirror
  <1> QED
    BY <1>1, <1>2, <1>4, Called

\* Writing Service::is_online, with the slot of service/implementation.cpp.
LEMMA SetOnlineStep ==
  ASSUME TypeOK, SetIsOnline
  PROVE  \E v \in OnOff :
           /\ todo[1] = Call("set_is_online", 0, 0, v)
           /\ is_online' = (v = "on")
           /\ \/ is_online = (v = "on") /\ Replaced(<<>>)
              \/ /\ is_online # (v = "on")
                 /\ Replaced(<<Call("set_engine_state", 0, 0, v)>>)
  <1> DEFINE v == This.v
             calls == <<Call("set_engine_state", 0, 0, v)>>
  <1>1. Calling("set_is_online")
    BY DEF SetIsOnline
  <1>2. v \in OnOff /\ This = Call("set_is_online", 0, 0, v)
    BY <1>1, Called DEF Calls, ProviderOps, FeatureOps, Call
  <1>3. calls \in Seq(Calls)
    BY <1>2 DEF Calls, Call, OnOff, Status
  <1>4. CASE is_online = (v = "on")
    BY <1>1, <1>2, <1>4, Called, Empty, Replacing DEF SetIsOnline, Return
  <1>5. CASE is_online # (v = "on")
    BY <1>1, <1>2, <1>3, <1>5, Called, Replacing DEF SetIsOnline
  <1> QED
    BY <1>4, <1>5

\* Writing Service::does_satellite_based_positioning.
LEMMA SetSatelliteUseStep ==
  ASSUME TypeOK, SetDoesSatellite
  PROVE  \E v \in OnOff :
           /\ todo[1] = Call("set_does_satellite", 0, 0, v)
           /\ does_satellite' = (v = "on")
           /\ \/ Replaced(<<>>)
              \/ Replaced(<<Call("set_satellite_state", 0, 0, v)>>)
  <1> DEFINE v == This.v
             calls == <<Call("set_satellite_state", 0, 0, v)>>
  <1>1. Calling("set_does_satellite")
    BY DEF SetDoesSatellite
  <1>2. v \in OnOff /\ This = Call("set_does_satellite", 0, 0, v)
    BY <1>1, Called DEF Calls, ProviderOps, FeatureOps, Call
  <1>3. calls \in Seq(Calls)
    BY <1>2 DEF Calls, Call
  <1>4. CASE does_satellite = does_satellite'
    BY <1>1, <1>2, <1>4, Called, Empty, Replacing DEF SetDoesSatellite, Return
  <1>5. CASE does_satellite # does_satellite'
    BY <1>1, <1>2, <1>3, <1>5, Called, Replacing DEF SetDoesSatellite
  <1> QED
    BY <1>4, <1>5

\* The two values that the service shows say the same of the engine.
LEMMA Mirrored ==
  ASSUME NEW v \in Status
  PROVE  /\ OnOffFor(v) \in OnOff
         /\ ServiceStateFor(v) \in ServiceState
         /\ OnOffFor(v) # "off" <=> v # "off"
         /\ OnOffFor(v) = "on" <=> v # "off"
         /\ ServiceStateFor(v) # "disabled" <=> v # "off"
         /\ Call("set_is_online", 0, 0, OnOffFor(v)) \in Calls
         /\ Call("set_service_state", 0, 0, ServiceStateFor(v)) \in Calls
         /\ MirrorOf(v) \in Seq(Calls)
  BY DEF Status, OnOffFor, ServiceStateFor, OnOff, ServiceState, MirrorOf, Call, Calls

\* The service's slot on the engine's state writes both of them.
LEMMA ServiceSlotStep ==
  ASSUME TypeOK, ServiceSlot
  PROVE  \E v \in Status :
           /\ todo[1] = Call("service_slot", 0, 0, v)
           /\ Replaced(MirrorOf(v))
  <1> DEFINE v == This.v
  <1>1. Calling("service_slot")
    BY DEF ServiceSlot
  <1>2. v \in Status /\ This = Call("service_slot", 0, 0, v)
    BY <1>1, Called DEF Calls, ProviderOps, FeatureOps, Call
  <1> QED
    BY <1>1, <1>2, Mirrored, Called, Replacing DEF ServiceSlot

\* Writing Service::state.
LEMMA SetServiceStep ==
  ASSUME TypeOK, SetServiceState
  PROVE  \E v \in ServiceState :
           /\ todo[1] = Call("set_service_state", 0, 0, v)
           /\ service_state' = v
           /\ Replaced(<<>>)
  <1>1. Calling("set_service_state")
    BY DEF SetServiceState
  <1>2. This.v \in ServiceState /\ This = Call("set_service_state", 0, 0, This.v)
    BY <1>1, Called DEF Calls, ProviderOps, FeatureOps, Call
  <1> QED
    BY <1>1, <1>2, Called, Empty, Replacing DEF SetServiceState, Return

\* A session's provider calls the providers that were selected for it.
LEMMA FusedCalls ==
  ASSUME NEW s \in Sessions, NEW op \in {"start", "stop"}, NEW f \in Features
  PROVE  /\ Fused(s, op, f) \in Seq(Calls)
         /\ \A k \in 1 .. Len(Fused(s, op, f)) : Fused(s, op, f)[k].op = op
  <1>1. Selected[s] \in Seq(Providers)
    BY EngineAssumption
  <1>2. /\ DOMAIN Selected[s] = 1 .. Len(Selected[s]) /\ Len(Selected[s]) \in Nat
        /\ \A k \in 1 .. Len(Selected[s]) : Selected[s][k] \in Providers
    BY <1>1, LenProperties, ElementOfSeq
  <1>3. \A p \in Providers : Call(op, p, f, "-") \in Calls
    BY DEF Calls, Call, FeatureOps
  <1>4. Fused(s, op, f) \in [1 .. Len(Selected[s]) -> Calls]
    BY <1>2, <1>3 DEF Fused
  <1>5. Fused(s, op, f) \in Seq(Calls) /\ Len(Fused(s, op, f)) = Len(Selected[s])
    BY <1>2, <1>4, SeqDef, LenProperties
  <1> QED
    BY <1>2, <1>5 DEF Fused, Call

\* A session that is stopped or destroyed releases what it claimed.
LEMMA StopSessionStep ==
  ASSUME TypeOK, StopSession
  PROVE  \E s \in Sessions, f \in Features, calls \in Seq(Calls) :
           /\ todo[1] = Call("session_stop", 0, f, s)
           /\ claims' = [claims EXCEPT ![s] = @ \ {f}]
           /\ Replaced(calls)
           /\ \A k \in 1 .. Len(calls) : calls[k].op = "stop"
  <1> DEFINE s == This.v
             f == This.f
             calls == IF f \in claims[s] THEN Fused(s, "stop", f) ELSE <<>>
  <1>1. Calling("session_stop")
    BY DEF StopSession
  <1>2. s \in Sessions /\ f \in Features /\ This = Call("session_stop", 0, f, s)
    BY <1>1, Called DEF Calls, ProviderOps, FeatureOps, Call
  <1>3. calls \in Seq(Calls) /\ \A k \in 1 .. Len(calls) : calls[k].op = "stop"
    BY <1>2, Empty, FusedCalls
  <1>4. Replaced(calls)
    BY <1>1, <1>3, Called, Replacing DEF StopSession
  <1> QED
    BY <1>1, <1>2, <1>3, <1>4, Called DEF StopSession
-----------------------------------------------------------------------------
(* The stack stays well formed. *)

\* The calls may wait above each other and above whatever the head waited
\* above, and come with the calls that belong to them.
Fits(calls) ==
  /\ \A i, j \in 1 .. Len(calls) : i < j => MayPrecede(calls[i], calls[j])
  /\ \A i \in 1 .. Len(calls) : \A d \in Calls :
       MayPrecede(todo[1], d) => MayPrecede(calls[i], d)
  /\ \A i \in 1 .. Len(calls) :
       /\ calls[i].op = "persist" =>
            /\ i + 1 <= Len(calls)
            /\ calls[i + 1].op = "service_slot"
            /\ calls[i + 1].v = calls[i].v
       /\ calls[i].op = "stop_if_counted" =>
            \E j \in 1 .. Len(calls) :
              i < j /\ calls[j].op = "mark_disabled" /\ calls[j].p = calls[i].p

\* Calls that fit keep the pairs together that belong together.
LEMMA FramedStep ==
  ASSUME NEW calls, Replaced(calls), Framed, Fits(calls)
  PROVE  Framed'
  <1> SUFFICES ASSUME NEW i \in 1 .. Len(todo')
               PROVE  /\ todo'[i].op = "persist" =>
                           /\ i + 1 \in 1 .. Len(todo')
                           /\ todo'[i + 1].op = "service_slot"
                           /\ todo'[i + 1].v = todo'[i].v
                      /\ todo'[i].op = "stop_if_counted" =>
                           \E j \in 1 .. Len(todo') :
                             i < j /\ todo'[j].op = "mark_disabled" /\ todo'[j].p = todo'[i].p
    BY DEF Framed
  <1>1. CASE i <= Len(calls)
    <2>1. i \in 1 .. Len(calls) /\ todo'[i] = calls[i]
      BY <1>1 DEF Replaced
    <2>2. \A j \in 1 .. Len(calls) : j \in 1 .. Len(todo') /\ todo'[j] = calls[j]
      BY DEF Replaced
    <2>3. ASSUME todo'[i].op = "persist"
          PROVE  i + 1 \in 1 .. Len(calls)
      BY <2>1, <2>3 DEF Fits, Replaced
    <2> QED
      BY <2>1, <2>2, <2>3 DEF Fits
  <1>2. CASE i > Len(calls)
    <2> DEFINE k == i - Len(calls) + 1
    <2>1. k \in Positions /\ k > 1 /\ todo'[i] = todo[k]
      BY <1>2 DEF Replaced
    <2>2. ASSUME NEW j \in Positions, k < j
          PROVE  /\ j + Len(calls) - 1 \in 1 .. Len(todo')
                 /\ i < j + Len(calls) - 1
                 /\ todo'[j + Len(calls) - 1] = todo[j]
      <3>1. j > 1
        BY <2>1, <2>2
      <3>2. i < j + Len(calls) - 1
        BY <2>2 DEF Replaced
      <3> QED
        BY <3>1, <3>2 DEF Replaced
    <2>3. ASSUME todo'[i].op = "persist"
          PROVE  /\ i + 1 \in 1 .. Len(todo')
                 /\ todo'[i + 1].op = "service_slot"
                 /\ todo'[i + 1].v = todo'[i].v
      <3>1. /\ k + 1 \in Positions
            /\ todo[k + 1].op = "service_slot"
            /\ todo[k + 1].v = todo[k].v
        BY <2>1, <2>3 DEF Framed
      <3>2. i + 1 = (k + 1) + Len(calls) - 1 /\ k < k + 1
        BY DEF Replaced
      <3> HIDE DEF k
      <3> QED
        BY <2>1, <2>2, <3>1, <3>2
    <2>4. ASSUME todo'[i].op = "stop_if_counted"
          PROVE  \E j \in 1 .. Len(todo') :
                   i < j /\ todo'[j].op = "mark_disabled" /\ todo'[j].p = todo'[i].p
      <3>1. PICK j \in Positions :
              k < j /\ todo[j].op = "mark_disabled" /\ todo[j].p = todo[k].p
        BY <2>1, <2>4 DEF Framed
      <3> QED
        BY <2>1, <2>2, <3>1
    <2> QED
      BY <2>3, <2>4
  <1> QED
    BY <1>1, <1>2 DEF Replaced

\* No call at all fits.
LEMMA FitsNothing == Fits(<<>>)
  BY DEF Fits

\* Two calls fit if they may wait above whatever the head waited above.
LEMMA FitsPair ==
  ASSUME NEW a, NEW b, MayPrecede(a, b),
         \A d \in Calls : MayPrecede(todo[1], d) => MayPrecede(a, d) /\ MayPrecede(b, d),
         {a.op, b.op} \cap {"persist", "stop_if_counted"} = {}
  PROVE  Fits(<<a, b>>)
  <1> DEFINE calls == <<a, b>>
  <1>1. Len(calls) = 2 /\ calls[1] = a /\ calls[2] = b
    OBVIOUS
  <1> HIDE DEF calls
  <1>2. \A i \in 1 .. Len(calls) : calls[i] = a \/ calls[i] = b
    BY <1>1
  <1>3. \A i, j \in 1 .. Len(calls) : i < j => MayPrecede(calls[i], calls[j])
    BY <1>1
  <1>4. Fits(calls)
    BY <1>2, <1>3 DEF Fits
  <1> QED
    BY <1>4 DEF calls

\* Every call of the dispatching thread pushes calls that fit.
LEMMA DispatchFits ==
  ASSUME TypeOK, Dispatch
  PROVE  \E calls : Replaced(calls) /\ Fits(calls)
  <1>1. CASE StartUpdates
    <2>1. PICK p \in Providers, f \in Features :
            /\ todo[1] = Call("start", p, f, "-")
            /\ \/ Replaced(<<Call("track", p, 0, "active"), Call("impl_start", p, f, "-")>>)
               \/ Replaced(<<>>)
      BY <1>1, StartStep
    <2>2. Fits(<<Call("track", p, 0, "active"), Call("impl_start", p, f, "-")>>)
      BY <2>1, FitsPair DEF MayPrecede, SwitchesOn, Elsewhere, Immediate, Call
    <2> QED
      BY <2>1, <2>2, FitsNothing
  <1>2. CASE StopUpdates
    <2>1. PICK p \in Providers, f \in Features :
            /\ todo[1] = Call("stop", p, f, "-")
            /\ \/ Replaced(<<Call("track", p, 0, "enabled"), Call("impl_stop", p, f, "-")>>)
               \/ Replaced(<<>>)
      BY <1>2, StopStep
    <2>2. Fits(<<Call("track", p, 0, "enabled"), Call("impl_stop", p, f, "-")>>)
      BY <2>1 DEF Fits, MayPrecede, SwitchesOn, Elsewhere, Immediate, Call
    <2> QED
      BY <2>1, <2>2, FitsNothing
  <1>3. CASE EnableProvider
    BY <1>3, EnableStep, FitsNothing
  <1>4. CASE SkipEnable
    BY <1>4, SkipStep, FitsNothing
  <1>5. CASE SkipDisable
    BY <1>5, SkipStep, FitsNothing
  <1>6. CASE DisableProvider
    <2>1. PICK p \in Providers, calls \in Seq(Calls) :
            /\ todo[1].op \in {"disable", "disable_satellite"} /\ todo[1].p = p
            /\ Replaced(calls)
            /\ Len(calls) = NFeatures + 1
            /\ \A f \in 1 .. NFeatures : calls[f] = Call("stop_if_counted", p, f, "-")
            /\ calls[NFeatures + 1] = Call("mark_disabled", p, 0, "-")
      BY <1>6, DisableStep
    <2>2. \A i \in 1 .. Len(calls) : i \in 1 .. NFeatures \/ i = NFeatures + 1
      BY <2>1, EngineAssumption
    <2>3. \A i, j \in 1 .. Len(calls) : i < j => MayPrecede(calls[i], calls[j])
      <3> SUFFICES ASSUME NEW i \in 1 .. Len(calls), NEW j \in 1 .. Len(calls), i < j
                   PROVE  MayPrecede(calls[i], calls[j])
        OBVIOUS
      <3>1. i \in 1 .. NFeatures /\ calls[i] = Call("stop_if_counted", p, i, "-")
        BY <2>1, <2>2, EngineAssumption
      <3>2. CASE j \in 1 .. NFeatures
        <4>1. calls[j] = Call("stop_if_counted", p, j, "-") /\ i # j
          BY <2>1, <3>2
        <4> QED
          BY <3>1, <4>1 DEF MayPrecede, SwitchesOn, Elsewhere, Immediate, Call
      <3>3. CASE j = NFeatures + 1
        BY <2>1, <3>1, <3>3 DEF MayPrecede, SwitchesOn, Elsewhere, Immediate, Call
      <3> QED
        BY <2>2, <3>2, <3>3
    <2>4. \A i \in 1 .. Len(calls) :
            /\ calls[i].op \in {"stop_if_counted", "mark_disabled"}
            /\ calls[i].op = "stop_if_counted" => i < NFeatures + 1 /\ calls[i].p = p
      <3> SUFFICES ASSUME NEW i \in 1 .. Len(calls)
                   PROVE  /\ calls[i].op \in {"stop_if_counted", "mark_disabled"}
                          /\ calls[i].op = "stop_if_counted" => i < NFeatures + 1 /\ calls[i].p = p
        OBVIOUS
      <3>1. CASE i \in 1 .. NFeatures
        <4>1. calls[i] = Call("stop_if_counted", p, i, "-")
          BY <2>1, <3>1
        <4> QED
          BY <3>1, <4>1, EngineAssumption DEF Call
      <3>2. CASE i = NFeatures + 1
        BY <2>1, <3>2 DEF Call
      <3> QED
        BY <2>2, <3>1, <3>2
    <2>5. \A i \in 1 .. Len(calls) : \A d \in Calls :
            MayPrecede(todo[1], d) => MayPrecede(calls[i], d)
      BY <2>1, <2>4 DEF MayPrecede, SwitchesOn, Elsewhere, Immediate, Call
    <2>6. /\ NFeatures + 1 \in 1 .. Len(calls)
          /\ calls[NFeatures + 1].op = "mark_disabled"
          /\ calls[NFeatures + 1].p = p
      BY <2>1, EngineAssumption DEF Call
    <2>7. Fits(calls)
      BY <2>3, <2>4, <2>5, <2>6, EngineAssumption DEF Fits
    <2> QED
      BY <2>1, <2>7
  <1>7. CASE StopIfCounted
    <2>1. PICK p \in Providers, f \in Features :
            /\ todo[1] = Call("stop_if_counted", p, f, "-")
            /\ \/ Replaced(<<Call("track", p, 0, "enabled"), Call("impl_stop", p, f, "-")>>)
               \/ Replaced(<<>>)
      BY <1>7, StopIfStep
    <2>2. Fits(<<Call("track", p, 0, "enabled"), Call("impl_stop", p, f, "-")>>)
      BY <2>1 DEF Fits, MayPrecede, SwitchesOn, Elsewhere, Immediate, Call
    <2> QED
      BY <2>1, <2>2, FitsNothing
  <1>8. CASE MarkDisabled
    BY <1>8, MarkStep, FitsNothing
  <1>9. CASE ImplStart
    BY <1>9, ImplStartStep, FitsNothing
  <1>10. CASE ImplStop
    BY <1>10, ImplStopStep, FitsNothing
  <1>11. CASE TrackState
    <2>1. PICK p \in Providers, v \in TrackedState :
            /\ todo[1] = Call("track", p, 0, v)
            /\ \/ Replaced(<<>>)
               \/ \E s \in {"active", "on"} : Replaced(<<Call("set_engine_state", 0, 0, s)>>)
      BY <1>11, TrackStep
    <2>2. \A s \in {"active", "on"} : Fits(<<Call("set_engine_state", 0, 0, s)>>)
      BY <2>1 DEF Fits, MayPrecede, SwitchesOn, Elsewhere, Immediate, Call
    <2> QED
      BY <2>1, <2>2, FitsNothing
  <1>12. CASE SetEngineState
    <2>1. PICK v \in Status :
            /\ todo[1] = Call("set_engine_state", 0, 0, v)
            /\ \/ Replaced(<<Call("engine_slot", 0, 0, v), Call("persist", 0, 0, v), Call("service_slot", 0, 0, v)>>)
               \/ Replaced(<<>>)
      BY <1>12, SetEngineStep
    <2> DEFINE calls == <<Call("engine_slot", 0, 0, v), Call("persist", 0, 0, v),
                          Call("service_slot", 0, 0, v)>>
    <2>2. Fits(calls)
      <3>1. /\ Len(calls) = 3
            /\ calls[1] = Call("engine_slot", 0, 0, v)
            /\ calls[2] = Call("persist", 0, 0, v)
            /\ calls[3] = Call("service_slot", 0, 0, v)
        OBVIOUS
      <3> HIDE DEF calls
      <3>2. /\ MayPrecede(calls[1], calls[2])
            /\ MayPrecede(calls[1], calls[3])
            /\ MayPrecede(calls[2], calls[3])
        BY <2>1, <3>1 DEF MayPrecede, SwitchesOn, Elsewhere, Immediate, Call
      <3>3. \A i \in 1 .. 3 : \A d \in Calls :
              MayPrecede(todo[1], d) => MayPrecede(calls[i], d)
        BY <2>1, <3>1 DEF MayPrecede, SwitchesOn, Elsewhere, Immediate, Call
      <3>4. /\ calls[1].op = "engine_slot"
            /\ calls[2].op = "persist" /\ calls[2].v = v
            /\ calls[3].op = "service_slot" /\ calls[3].v = v
        BY <3>1 DEF Call
      <3> QED
        BY <3>1, <3>2, <3>3, <3>4 DEF Fits
    <2> QED
      BY <2>1, <2>2, FitsNothing
  <1>13. CASE EngineSlot
    <2>1. PICK v \in Status, calls \in Seq(Calls) :
            /\ todo[1] = Call("engine_slot", 0, 0, v)
            /\ Replaced(calls)
            /\ v = "active" => calls = <<>>
            /\ v # "active" =>
                 /\ Len(calls) = NProviders
                 /\ \A p \in 1 .. NProviders :
                      calls[p] = Call(IF v = "on" THEN "enable" ELSE "disable", p, 0, "-")
      BY <1>13, EngineSlotStep
    <2>2. CASE v = "active"
      BY <2>1, <2>2, FitsNothing
    <2>3. CASE v = "on"
      <3>1. \A i \in 1 .. Len(calls) : calls[i].op = "enable"
        BY <2>1, <2>3 DEF Call
      <3> QED
        BY <2>1, <2>3, <3>1 DEF Fits, MayPrecede, SwitchesOn, Elsewhere, Immediate, Call
    <2>4. CASE v = "off"
      <3>1. \A i \in 1 .. Len(calls) : calls[i].op = "disable"
        BY <2>1, <2>4 DEF Call
      <3>2. \A i, j \in 1 .. Len(calls) : i < j => MayPrecede(calls[i], calls[j])
        BY <3>1 DEF MayPrecede, SwitchesOn, Elsewhere, Immediate, Call
      <3>3. \A i \in 1 .. Len(calls) : \A d \in Calls :
              MayPrecede(todo[1], d) => MayPrecede(calls[i], d)
        BY <2>1, <2>4, <3>1 DEF MayPrecede, SwitchesOn, Elsewhere, Immediate, Call
      <3> QED
        BY <2>1, <3>1, <3>2, <3>3 DEF Fits
    <2> QED
      BY <2>2, <2>3, <2>4 DEF Status
  <1>14. CASE PersistEngineState
    BY <1>14, PersistStep, FitsNothing
  <1>15. CASE SetSatelliteState
    <2>1. PICK v \in OnOff :
            /\ todo[1] = Call("set_satellite_state", 0, 0, v)
            /\ \/ Replaced(<<Call("satellite_slot", 0, 0, v), Call("satellite_mirror", 0, 0, v)>>)
               \/ Replaced(<<>>)
      BY <1>15, SetSatelliteStep
    <2>2. Fits(<<Call("satellite_slot", 0, 0, v), Call("satellite_mirror", 0, 0, v)>>)
      BY <2>1, FitsPair DEF MayPrecede, SwitchesOn, Elsewhere, Immediate, Call
    <2> QED
      BY <2>1, <2>2, FitsNothing
  <1>16. CASE SatelliteSlot
    <2>1. PICK v \in OnOff, calls \in Seq(Calls) :
            /\ todo[1] = Call("satellite_slot", 0, 0, v)
            /\ Replaced(calls)
            /\ Len(calls) = NProviders
            /\ \A p \in 1 .. NProviders :
                 calls[p] = Call(IF v = "on" THEN "enable_if_on" ELSE "disable_satellite", p, 0, "-")
      BY <1>16, SatelliteSlotStep
    <2>2. \/ \A i \in 1 .. Len(calls) : calls[i].op = "enable_if_on"
          \/ \A i \in 1 .. Len(calls) : calls[i].op = "disable_satellite"
      BY <2>1 DEF Call
    <2> QED
      BY <2>1, <2>2 DEF Fits, MayPrecede, SwitchesOn, Elsewhere, Immediate, Call
  <1>17. CASE SatelliteMirror
    <2>1. PICK v \in OnOff :
            /\ todo[1] = Call("satellite_mirror", 0, 0, v)
            /\ Replaced(<<Call("set_does_satellite", 0, 0, v)>>)
      BY <1>17, SatelliteMirrorStep
    <2>2. Fits(<<Call("set_does_satellite", 0, 0, v)>>)
      BY <2>1 DEF Fits, MayPrecede, SwitchesOn, Elsewhere, Immediate, Call
    <2> QED
      BY <2>1, <2>2
  <1>18. CASE SetIsOnline
    <2>1. PICK v \in OnOff :
            /\ todo[1] = Call("set_is_online", 0, 0, v)
            /\ \/ Replaced(<<Call("set_engine_state", 0, 0, v)>>)
               \/ Replaced(<<>>)
      BY <1>18, SetOnlineStep
    <2>2. Fits(<<Call("set_engine_state", 0, 0, v)>>)
      BY <2>1 DEF Fits, MayPrecede, SwitchesOn, Elsewhere, Immediate, Call
    <2> QED
      BY <2>1, <2>2, FitsNothing
  <1>19. CASE SetDoesSatellite
    <2>1. PICK v \in OnOff :
            /\ todo[1] = Call("set_does_satellite", 0, 0, v)
            /\ \/ Replaced(<<Call("set_satellite_state", 0, 0, v)>>)
               \/ Replaced(<<>>)
      BY <1>19, SetSatelliteUseStep
    <2>2. Fits(<<Call("set_satellite_state", 0, 0, v)>>)
      BY <2>1 DEF Fits, MayPrecede, SwitchesOn, Elsewhere, Immediate, Call
    <2> QED
      BY <2>1, <2>2, FitsNothing
  <1>20. CASE ServiceSlot
    <2>1. PICK v \in Status :
            /\ todo[1] = Call("service_slot", 0, 0, v)
            /\ Replaced(MirrorOf(v))
      BY <1>20, ServiceSlotStep
    <2> DEFINE b == OnOffFor(v)
               x == ServiceStateFor(v)
    <2>2. (b = "on" <=> v # "off") /\ (x # "disabled" <=> v # "off")
      BY Mirrored
    <2>3. MirrorOf(v) = <<Call("set_is_online", 0, 0, b), Call("set_service_state", 0, 0, x)>>
      BY DEF MirrorOf
    <2> HIDE DEF b, x
    <2>4. Fits(<<Call("set_is_online", 0, 0, b), Call("set_service_state", 0, 0, x)>>)
      BY <2>1, <2>2, FitsPair DEF MayPrecede, SwitchesOn, Elsewhere, Immediate, Call
    <2> QED
      BY <2>1, <2>3, <2>4
  <1>21. CASE SetServiceState
    BY <1>21, SetServiceStep, FitsNothing
  <1>22. CASE StopSession
    <2>1. PICK s \in Sessions, f \in Features, calls \in Seq(Calls) :
            /\ todo[1] = Call("session_stop", 0, f, s)
            /\ Replaced(calls)
            /\ \A k \in 1 .. Len(calls) : calls[k].op = "stop"
      BY <1>22, StopSessionStep
    <2> QED
      BY <2>1 DEF Fits, MayPrecede, SwitchesOn, Elsewhere, Immediate, Call
  <1>23. CASE RequiresUnanswered
    BY <1>23, UnansweredStep, FitsNothing
  <1> QED
    BY <1>1, <1>2, <1>3, <1>4, <1>5, <1>6, <1>7, <1>8, <1>9, <1>10, <1>11, <1>12,
       <1>13, <1>14, <1>15, <1>16, <1>17, <1>18, <1>19, <1>20, <1>21, <1>22, <1>23
    DEF Dispatch, Proceed

\* The stack stays well formed.
LEMMA StackDispatch ==
  ASSUME TypeOK, StackInv, Dispatch
  PROVE  StackInv'
  <1>1. PICK calls : Replaced(calls) /\ Fits(calls)
    BY DispatchFits
  <1> QED
    BY <1>1, NestedStep, FramedStep DEF StackInv, Fits
-----------------------------------------------------------------------------
(* Types. *)

\* Counting keeps counters integers.
LEMMA CountersTyped ==
  ASSUME NEW A, NEW B, NEW c \in [A -> [B -> Int]], NEW p \in A, NEW f \in B
  PROVE  /\ [c EXCEPT ![p][f] = Incremented(@)] \in [A -> [B -> Int]]
         /\ [c EXCEPT ![p][f] = Decremented(@)] \in [A -> [B -> Int]]
         /\ \A n \in Int : [c EXCEPT ![p] = [g \in B |-> n]] \in [A -> [B -> Int]]
  BY DEF Incremented, Decremented

\* Every call keeps the types.
LEMMA TypeDispatch ==
  ASSUME TypeOK, Dispatch
  PROVE  TypeOK'
  <1>0. todo' \in Seq(Calls)
    BY DispatchFits DEF Replaced
  <1>1. CASE StartUpdates
    <2>1. PICK p \in Providers, f \in Features : counter' = [counter EXCEPT ![p][f] = Incremented(@)]
      BY <1>1, StartStep
    <2>2. counter' \in [Providers -> [Features -> Int]]
      BY <2>1, CountersTyped DEF TypeOK
    <2> QED
      BY <1>0, <1>1, <2>2 DEF StartUpdates, TypeOK, configVars, serviceVars, clientVars
  <1>2. CASE StopUpdates
    <2>1. PICK p \in Providers, f \in Features : counter' = [counter EXCEPT ![p][f] = Decremented(@)]
      BY <1>2, StopStep
    <2>2. counter' \in [Providers -> [Features -> Int]]
      BY <2>1, CountersTyped DEF TypeOK
    <2> QED
      BY <1>0, <1>2, <2>2 DEF StopUpdates, TypeOK, configVars, serviceVars, clientVars
  <1>3. CASE EnableProvider
    <2>1. PICK p \in Providers : counter' = [counter EXCEPT ![p] = [f \in Features |-> 0]]
      BY <1>3, EnableStep
    <2>2. counter' \in [Providers -> [Features -> Int]]
      BY <2>1 DEF TypeOK
    <2> QED
      BY <1>0, <1>3, <2>2 DEF EnableProvider, TypeOK, configVars, serviceVars,
          clientVars
  <1>4. CASE SkipEnable
    BY <1>0, <1>4 DEF SkipEnable, TypeOK, providerVars, configVars, serviceVars,
        clientVars
  <1>5. CASE SkipDisable
    BY <1>0, <1>5 DEF SkipDisable, TypeOK, providerVars, configVars, serviceVars,
        clientVars
  <1>6. CASE DisableProvider
    BY <1>0, <1>6 DEF DisableProvider, TypeOK, providerVars, configVars,
        serviceVars, clientVars
  <1>7. CASE StopIfCounted
    BY <1>0, <1>7 DEF StopIfCounted, TypeOK, providerVars, configVars, serviceVars,
        clientVars
  <1>8. CASE MarkDisabled
    <2>1. PICK p \in Providers : counter' = [counter EXCEPT ![p] = [f \in Features |-> -1]]
      BY <1>8, MarkStep
    <2>2. counter' \in [Providers -> [Features -> Int]]
      BY <2>1 DEF TypeOK
    <2> QED
      BY <1>0, <1>8, <2>2 DEF MarkDisabled, TypeOK, configVars, serviceVars, clientVars
  <1>9. CASE ImplStart
    <2>1. PICK p \in Providers, f \in Features :
            /\ implCounter' = [implCounter EXCEPT ![p][f] = Incremented(@)]
            /\ hardware' = [hardware EXCEPT ![p][f] = @ \/ implCounter[p][f] = 0]
      BY <1>9, ImplStartStep
    <2>2. implCounter' \in [Providers -> [Features -> Int]]
      BY <2>1, CountersTyped DEF TypeOK
    <2>3. hardware' \in [Providers -> [Features -> BOOLEAN]]
      BY <2>1 DEF TypeOK
    <2> QED
      BY <1>0, <1>9, <2>2, <2>3 DEF ImplStart, TypeOK, configVars, serviceVars,
          clientVars
  <1>10. CASE ImplStop
    <2>1. PICK p \in Providers, f \in Features :
            /\ implCounter' = [implCounter EXCEPT ![p][f] = Decremented(@)]
            /\ hardware' = [hardware EXCEPT ![p][f] = @ /\ implCounter[p][f] # 1]
      BY <1>10, ImplStopStep
    <2>2. implCounter' \in [Providers -> [Features -> Int]]
      BY <2>1, CountersTyped DEF TypeOK
    <2>3. hardware' \in [Providers -> [Features -> BOOLEAN]]
      BY <2>1 DEF TypeOK
    <2> QED
      BY <1>0, <1>10, <2>2, <2>3 DEF ImplStop, TypeOK, configVars, serviceVars,
          clientVars
  <1>11. CASE TrackState
    BY <1>0, <1>11, TrackStep DEF TrackState, TypeOK, providerVars, configVars,
        serviceVars, clientVars
  <1>12. CASE SetEngineState
    BY <1>0, <1>12, SetEngineStep DEF SetEngineState, TypeOK, providerVars,
        configVars, serviceVars, clientVars
  <1>13. CASE EngineSlot
    BY <1>0, <1>13 DEF EngineSlot, TypeOK, providerVars, configVars, serviceVars,
        clientVars
  <1>14. CASE PersistEngineState
    BY <1>0, <1>14, PersistStep DEF PersistEngineState, TypeOK, providerVars,
        configVars, serviceVars, clientVars
  <1>15. CASE SetSatelliteState
    BY <1>0, <1>15, SetSatelliteStep DEF SetSatelliteState, TypeOK, providerVars,
        configVars, serviceVars, clientVars
  <1>16. CASE SatelliteSlot
    BY <1>0, <1>16 DEF SatelliteSlot, TypeOK, providerVars, configVars, serviceVars,
        clientVars
  <1>17. CASE SatelliteMirror
    BY <1>0, <1>17 DEF SatelliteMirror, TypeOK, providerVars, configVars,
        serviceVars, clientVars
  <1>18. CASE SetIsOnline
    BY <1>0, <1>18, SetOnlineStep DEF SetIsOnline, TypeOK, providerVars, configVars,
        serviceVars, clientVars
  <1>19. CASE SetDoesSatellite
    BY <1>0, <1>19, SetSatelliteUseStep DEF SetDoesSatellite, TypeOK, providerVars,
        configVars, serviceVars, clientVars
  <1>20. CASE ServiceSlot
    BY <1>0, <1>20 DEF ServiceSlot, TypeOK, providerVars, configVars, serviceVars,
        clientVars
  <1>21. CASE SetServiceState
    BY <1>0, <1>21, SetServiceStep DEF SetServiceState, TypeOK, providerVars,
        configVars, serviceVars, clientVars
  <1>22. CASE StopSession
    BY <1>0, <1>22, StopSessionStep DEF StopSession, TypeOK, providerVars,
        configVars, serviceVars, clientVars
  <1>23. CASE RequiresUnanswered
    BY <1>0, <1>23 DEF RequiresUnanswered, TypeOK, providerVars, configVars,
        serviceVars, clientVars
  <1> QED
    BY <1>1, <1>2, <1>3, <1>4, <1>5, <1>6, <1>7, <1>8, <1>9, <1>10, <1>11, <1>12,
       <1>13, <1>14, <1>15, <1>16, <1>17, <1>18, <1>19, <1>20, <1>21, <1>22, <1>23
    DEF Dispatch, Proceed
-----------------------------------------------------------------------------
(* What a step leaves of the waiting calls. *)

\* Calls that are made as soon as they are pushed do not wait.
LEMMA NothingImmediateWaits ==
  ASSUME TypeOK, StackInv, todo # <<>>
  PROVE  \A i \in Positions : i > 1 => todo[i].op \notin Immediate
  <1>1. Len(todo) \in Nat /\ 1 \in Positions
    BY LenProperties, EmptySeq DEF TypeOK
  <1> QED
    BY <1>1 DEF StackInv, Nested, MayPrecede

\* The next call is the first that was pushed, or one that was waiting.
LEMMA NextHead ==
  ASSUME TypeOK, StackInv, NEW calls, Replaced(calls), todo' # <<>>
  PROVE  \/ Len(calls) > 0 /\ This' = calls[1]
         \/ Len(calls) = 0 /\ This'.op \notin Immediate
  <1>1. todo' \in Seq(Calls) /\ Len(todo') > 0 /\ Len(todo') \in Nat /\ This' = todo'[1]
    BY EmptySeq, LenProperties DEF Replaced, This
  <1>2. CASE Len(calls) > 0
    BY <1>1, <1>2 DEF Replaced
  <1>3. CASE Len(calls) = 0
    BY <1>1, <1>3, NothingImmediateWaits DEF Replaced
  <1> QED
    BY <1>2, <1>3 DEF Replaced

\* A step that mirrors nothing leaves the first mirroring call the first.
LEMMA FirstMirrorMoves ==
  ASSUME NEW calls, Replaced(calls), NEW i \in Positions, FirstMirror(i),
         todo[1].op \notin Mirroring,
         \A k \in 1 .. Len(calls) : calls[k].op \notin Mirroring
  PROVE  /\ FirstMirror(i + Len(calls) - 1)'
         /\ i + Len(calls) - 1 \in 1 .. Len(todo')
         /\ todo'[i + Len(calls) - 1] = todo[i]
  <1> DEFINE m == i + Len(calls) - 1
  <1>1. i > 1
    BY DEF FirstMirror, Replaced
  <1>2. m \in 1 .. Len(todo') /\ m > Len(calls) /\ todo'[m] = todo[i]
    BY <1>1 DEF Replaced
  <1>3. ASSUME NEW k \in 1 .. Len(todo'), k < m
        PROVE  todo'[k].op \notin Mirroring
    <2>1. CASE k <= Len(calls)
      BY <2>1 DEF Replaced
    <2>2. CASE k > Len(calls)
      <3> DEFINE l == k - Len(calls) + 1
      <3>1. l \in Positions /\ l < i /\ todo'[k] = todo[l]
        BY <1>3, <2>2 DEF Replaced
      <3> QED
        BY <3>1 DEF FirstMirror
    <2> QED
      BY <2>1, <2>2 DEF Replaced
  <1> QED
    BY <1>2, <1>3 DEF FirstMirror, Mirroring

\* A step that leaves both states alone keeps the waiting slots current.
LEMMA SlotsStep ==
  ASSUME NEW calls, Replaced(calls), SlotsAreCurrent,
         UNCHANGED <<engine_state, satellite_state>>,
         \A i \in 1 .. Len(calls) : IsCurrent(calls[i])
  PROVE  SlotsAreCurrent'
  <1> SUFFICES ASSUME NEW i \in 1 .. Len(todo')
               PROVE  IsCurrent(todo[i])'
    BY DEF SlotsAreCurrent, IsCurrent
  <1>1. CASE i <= Len(calls)
    <2>1. i \in 1 .. Len(calls) /\ todo'[i] = calls[i]
      BY <1>1 DEF Replaced
    <2> QED
      BY <2>1 DEF IsCurrent
  <1>2. CASE i > Len(calls)
    <2>1. IsCurrent(todo[i - Len(calls) + 1]) /\ todo'[i] = todo[i - Len(calls) + 1]
      BY <1>2 DEF Replaced, SlotsAreCurrent
    <2> QED
      BY <2>1 DEF IsCurrent
  <1> QED
    BY <1>1, <1>2 DEF Replaced

\* A step that neither mirrors nor changes the engine's state.
LEMMA AgreesStep ==
  ASSUME NEW calls, Replaced(calls), AgreesSoon,
         UNCHANGED <<engine_state, is_online>>,
         todo[1].op \notin Mirroring \union {"set_engine_state"},
         \A i \in 1 .. Len(calls) : calls[i].op \notin Mirroring
  PROVE  AgreesSoon'
  <1>1. ~Calling("set_engine_state")
    BY DEF Calling, Replaced
  <1>2. CASE Agreed
    BY <1>2 DEF AgreesSoon, Agreed
  <1>3. CASE \E i \in Positions :
               /\ FirstMirror(i)
               /\ todo[i].op # "set_service_state"
               /\ engine_state # "off" <=> todo[i].v # "off"
    BY <1>3, FirstMirrorMoves DEF AgreesSoon
  <1> QED
    BY <1>1, <1>2, <1>3 DEF AgreesSoon

\* A step that touches neither the engine's state nor what is shown of it.
LEMMA ShownStep ==
  ASSUME NEW calls, Replaced(calls), ShownSoon,
         UNCHANGED <<engine_state, service_state>>,
         todo[1].op \notin {"service_slot", "set_service_state"}
  PROVE  ShownSoon'
  <1>1. CASE service_state = "disabled" <=> engine_state = "off"
    BY <1>1 DEF ShownSoon
  <1>2. CASE \E i \in Positions : todo[i].op \in {"service_slot", "set_service_state"}
    <2>1. PICK i \in Positions : todo[i].op \in {"service_slot", "set_service_state"}
      BY <1>2
    <2>2. i > 1
      BY <2>1 DEF Replaced
    <2>3. /\ i + Len(calls) - 1 \in 1 .. Len(todo')
          /\ todo'[i + Len(calls) - 1] = todo[i]
      BY <2>2 DEF Replaced
    <2> QED
      BY <2>1, <2>3 DEF ShownSoon
  <1> QED
    BY <1>1, <1>2 DEF ShownSoon

\* A step that touches neither the engine's state nor the settings.
LEMMA PersistedStep ==
  ASSUME NEW calls, Replaced(calls), PersistedSoon,
         UNCHANGED <<engine_state, settings>>,
         ~AboutToSwitchOff, todo[1].op # "persist",
         \A i \in 1 .. Len(calls) : calls[i].op # "persist"
  PROVE  PersistedSoon'
  <1>1. CASE settings = engine_state
    BY <1>1 DEF PersistedSoon
  <1>2. CASE \E i \in Positions :
               /\ todo[i].op = "persist"
               /\ todo[i].v = engine_state
               /\ \A k \in Positions : k < i => todo[k].op # "persist"
    <2>1. PICK i \in Positions : /\ todo[i].op = "persist"
                                 /\ todo[i].v = engine_state
                                 /\ \A k \in Positions : k < i => todo[k].op # "persist"
      BY <1>2
    <2> DEFINE m == i + Len(calls) - 1
    <2>2. i > 1
      BY <2>1 DEF Replaced
    <2>3. m \in 1 .. Len(todo') /\ m > Len(calls) /\ todo'[m] = todo[i]
      BY <2>2 DEF Replaced
    <2>4. ASSUME NEW k \in 1 .. Len(todo'), k < m
          PROVE  todo'[k].op # "persist"
      <3>1. CASE k <= Len(calls)
        BY <3>1 DEF Replaced
      <3>2. CASE k > Len(calls)
        <4> DEFINE l == k - Len(calls) + 1
        <4>1. l \in Positions /\ l < i /\ todo'[k] = todo[l]
          BY <2>4, <3>2 DEF Replaced
        <4> QED
          BY <2>1, <4>1
      <3> QED
        BY <3>1, <3>2 DEF Replaced
    <2> QED
      BY <2>1, <2>3, <2>4 DEF PersistedSoon
  <1> QED
    BY <1>1, <1>2 DEF PersistedSoon

\* A position of the new stack below the calls that were pushed is one of the
\* old stack, with what is known there.
LEMMA KnownMoves ==
  ASSUME NEW calls, Replaced(calls), UNCHANGED requested,
         NEW i \in 1 .. Len(todo') + 1, i > Len(calls)
  PROVE  LET l == i - Len(calls) + 1 IN
         /\ l \in 2 .. Len(todo) + 1
         /\ Known(i)' => Known(l)
         /\ Known(l) => (KnownOnline(i)' <=> KnownOnline(l))
  <1> DEFINE l == i - Len(calls) + 1
  <1>1. l \in 2 .. Len(todo) + 1 /\ (i = Len(todo') + 1 <=> l = Len(todo) + 1)
    BY DEF Replaced
  <1>2. CASE i = Len(todo') + 1
    BY <1>1, <1>2 DEF Known, KnownOnline
  <1>3. CASE i # Len(todo') + 1
    <2>1. i \in 1 .. Len(todo')
      BY <1>3 DEF Replaced
    <2>2. l \in Positions /\ todo'[i] = todo[l]
      BY <2>1 DEF Replaced
    <2> QED
      BY <1>1, <1>3, <2>1, <2>2 DEF Known, KnownOnline
  <1> QED
    BY <1>2, <1>3

\* The last write below the pushed calls was the last write before.
LEMMA LastWriteMoves ==
  ASSUME NEW calls, Replaced(calls),
         NEW i \in 1 .. Len(todo') + 1, NEW j \in 1 .. Len(todo'), j > Len(calls),
         LastWrite(j, i)'
  PROVE  LastWrite(j - Len(calls) + 1, i - Len(calls) + 1)
  <1> DEFINE l == i - Len(calls) + 1
             n == j - Len(calls) + 1
  <1>1. j < i /\ SetsOnline(todo'[j])
    BY DEF LastWrite, SetsOnline
  <1>2. n \in Positions /\ n < l /\ todo'[j] = todo[n]
    BY <1>1 DEF Replaced
  <1>3. ASSUME NEW k \in Positions, n < k, k < l
        PROVE  ~SetsOnline(todo[k])
    <2>1. k > 1
      BY <1>2, <1>3
    <2> DEFINE m == k + Len(calls) - 1
    <2>2. m \in 1 .. Len(todo') /\ todo'[m] = todo[k]
      BY <2>1 DEF Replaced
    <2>3. j < m /\ m < i
      BY <1>3 DEF Replaced
    <2> QED
      BY <2>2, <2>3 DEF LastWrite, SetsOnline
  <1> QED
    BY <1>1, <1>2, <1>3 DEF LastWrite

\* No write below the pushed calls: there was none before.
LEMMA NoWriteMoves ==
  ASSUME NEW calls, Replaced(calls), ~SetsOnline(todo[1]),
         NEW i \in 1 .. Len(todo') + 1,
         \A k \in 1 .. Len(todo') : k < i => ~SetsOnline(todo'[k])
  PROVE  \A k \in Positions : k < i - Len(calls) + 1 => ~SetsOnline(todo[k])
  <1> SUFFICES ASSUME NEW k \in Positions, k < i - Len(calls) + 1, k > 1
               PROVE  ~SetsOnline(todo[k])
    BY DEF Replaced
  <1> DEFINE m == k + Len(calls) - 1
  <1>1. m \in 1 .. Len(todo') /\ todo'[m] = todo[k]
    BY DEF Replaced
  <1>2. m < i
    BY DEF Replaced
  <1> QED
    BY <1>1, <1>2

\* A step that does not write is_online.
LEMMA KnownStep ==
  ASSUME TypeOK, StackInv, NEW calls, Replaced(calls), OnlineIsKnown,
         UNCHANGED <<is_online, requested>>,
         todo[1].op \notin {"service_slot", "set_is_online", "set_engine_state"},
         \A i \in 1 .. Len(calls) : calls[i].op \notin Mirroring \union {"set_engine_state"}
  PROVE  OnlineIsKnown'
  <1> SUFFICES ASSUME NEW i \in 1 .. Len(todo') + 1, Known(i)'
               PROVE  /\ \A j \in 1 .. Len(todo') : LastWrite(j, i)' =>
                           (KnownOnline(i)' <=> todo'[j].v # "off")
                      /\ (\A k \in 1 .. Len(todo') : k < i => ~SetsOnline(todo'[k])) =>
                           /\ is_online' <=> KnownOnline(i)'
                           /\ Calling("set_engine_state")' => (KnownOnline(i)' <=> This'.v # "off")
    BY DEF OnlineIsKnown, SetsOnline
  <1> DEFINE l == i - Len(calls) + 1
  <1>1. i > Len(calls)
    <2>1. \A k \in 1 .. Len(calls) : k \in 1 .. Len(todo') /\ todo'[k] = calls[k]
      BY DEF Replaced
    <2> QED
      BY <2>1 DEF Known, Mirroring, Replaced
  <1>2. l \in 2 .. Len(todo) + 1 /\ Known(l) /\ (KnownOnline(i)' <=> KnownOnline(l))
    BY <1>1, KnownMoves
  <1>3. ASSUME NEW j \in 1 .. Len(todo'), LastWrite(j, i)'
        PROVE  KnownOnline(i)' <=> todo'[j].v # "off"
    <2>1. j > Len(calls)
      <3>1. SetsOnline(todo'[j])
        BY <1>3 DEF LastWrite, SetsOnline
      <3>2. \A k \in 1 .. Len(calls) : todo'[k] = calls[k] /\ ~SetsOnline(calls[k])
        BY DEF Replaced, SetsOnline, Mirroring
      <3> QED
        BY <3>1, <3>2 DEF Replaced
    <2>2. /\ LastWrite(j - Len(calls) + 1, l)
          /\ j - Len(calls) + 1 \in Positions
          /\ todo'[j] = todo[j - Len(calls) + 1]
      BY <1>3, <2>1, LastWriteMoves DEF Replaced
    <2>3. l \in 1 .. Len(todo) + 1 /\ Known(l)
      BY <1>2
    <2> HIDE DEF l
    <2>4. KnownOnline(l) <=> todo[j - Len(calls) + 1].v # "off"
      BY <2>2, <2>3 DEF OnlineIsKnown
    <2>5. KnownOnline(i)' <=> KnownOnline(l)
      BY <1>2
    <2> QED
      BY <2>2, <2>4, <2>5
  <1>4. ASSUME \A k \in 1 .. Len(todo') : k < i => ~SetsOnline(todo'[k])
        PROVE  is_online' <=> KnownOnline(i)'
    <2>1. \A k \in Positions : k < l => ~SetsOnline(todo[k])
      BY <1>4, NoWriteMoves DEF SetsOnline
    <2>2. l \in 1 .. Len(todo) + 1 /\ Known(l)
      BY <1>2
    <2> HIDE DEF l
    <2>3. is_online <=> KnownOnline(l)
      BY <2>1, <2>2 DEF OnlineIsKnown
    <2> QED
      BY <1>2, <2>3
  <1>5. ~Calling("set_engine_state")'
    <2>1. \A k \in 1 .. Len(calls) : calls[k].op # "set_engine_state"
      OBVIOUS
    <2>2. ASSUME todo' # <<>>
          PROVE  This'.op # "set_engine_state"
      <3>1. CASE Len(calls) > 0 /\ This' = calls[1]
        BY <2>1, <3>1 DEF Replaced
      <3>2. CASE This'.op \notin Immediate
        BY <3>2 DEF Immediate
      <3> QED
        BY <2>2, <3>1, <3>2, NextHead
    <2> QED
      BY <2>2 DEF Calling, This
  <1> QED
    BY <1>3, <1>4, <1>5
-----------------------------------------------------------------------------

\* The fields of a call.
LEMMA CallFields ==
  ASSUME NEW op, NEW p, NEW f, NEW v
  PROVE  /\ Call(op, p, f, v).op = op
         /\ Call(op, p, f, v).p = p
         /\ Call(op, p, f, v).f = f
         /\ Call(op, p, f, v).v = v
  BY DEF Call

(* Most steps neither mirror the engine's state nor change it. *)

Quiet(calls) ==
  /\ todo[1].op \notin Mirroring \union {"set_engine_state", "persist", "track"}
  /\ \A i \in 1 .. Len(calls) :
       calls[i].op \notin Mirroring \union {"set_engine_state", "engine_slot", "persist"}
  /\ UNCHANGED <<engine_state, is_online, service_state, settings, requested>>

Loud == TrackState \/ SetEngineState \/ PersistEngineState \/ SetIsOnline \/ ServiceSlot
          \/ SetServiceState

\* The calls that are not loud are quiet.
LEMMA QuietDispatch ==
  ASSUME TypeOK, Dispatch, ~Loud
  PROVE  \E calls : Replaced(calls) /\ Quiet(calls)
  <1> USE DEF configVars, serviceVars, clientVars
  <1>1. CASE StartUpdates
    <2>1. PICK p \in Providers, f \in Features :
            /\ todo[1] = Call("start", p, f, "-")
            /\ \/ Replaced(<<Call("track", p, 0, "active"), Call("impl_start", p, f, "-")>>)
               \/ Replaced(<<>>)
      BY <1>1, StartStep
    <2>2. Quiet(<<Call("track", p, 0, "active"), Call("impl_start", p, f, "-")>>) /\ Quiet(<<>>)
      BY <1>1, <2>1 DEF StartUpdates, Quiet, Mirroring, Call
    <2> QED
      BY <2>1, <2>2
  <1>2. CASE StopUpdates
    <2>1. PICK p \in Providers, f \in Features :
            /\ todo[1] = Call("stop", p, f, "-")
            /\ \/ Replaced(<<Call("track", p, 0, "enabled"), Call("impl_stop", p, f, "-")>>)
               \/ Replaced(<<>>)
      BY <1>2, StopStep
    <2>2. Quiet(<<Call("track", p, 0, "enabled"), Call("impl_stop", p, f, "-")>>) /\ Quiet(<<>>)
      BY <1>2, <2>1 DEF StopUpdates, Quiet, Mirroring, Call
    <2> QED
      BY <2>1, <2>2
  <1>3. CASE EnableProvider
    <2>1. Replaced(<<>>) /\ todo[1].op \notin Mirroring \union {"set_engine_state", "persist", "track"}
      BY <1>3, EnableStep, CallFields DEF Mirroring
    <2>2. Quiet(<<>>)
      BY <1>3, <2>1 DEF EnableProvider, Quiet
    <2> QED
      BY <2>1, <2>2
  <1>4. CASE SkipEnable
    <2>1. Replaced(<<>>) /\ todo[1].op \notin Mirroring \union {"set_engine_state", "persist", "track"}
      BY <1>4, SkipStep, CallFields DEF Mirroring
    <2>2. Quiet(<<>>)
      BY <1>4, <2>1 DEF SkipEnable, Quiet
    <2> QED
      BY <2>1, <2>2
  <1>5. CASE SkipDisable
    <2>1. Replaced(<<>>) /\ todo[1].op \notin Mirroring \union {"set_engine_state", "persist", "track"}
      BY <1>5, SkipStep, CallFields DEF Mirroring
    <2>2. Quiet(<<>>)
      BY <1>5, <2>1 DEF SkipDisable, Quiet
    <2> QED
      BY <2>1, <2>2
  <1>6. CASE DisableProvider
    <2>1. PICK p \in Providers, calls \in Seq(Calls) :
            /\ todo[1].op \in {"disable", "disable_satellite"}
            /\ Replaced(calls)
            /\ Len(calls) = NFeatures + 1
            /\ \A f \in 1 .. NFeatures : calls[f] = Call("stop_if_counted", p, f, "-")
            /\ calls[NFeatures + 1] = Call("mark_disabled", p, 0, "-")
      BY <1>6, DisableStep
    <2>2. ASSUME NEW i \in 1 .. Len(calls)
          PROVE  calls[i].op \in {"stop_if_counted", "mark_disabled"}
      <3>1. i \in 1 .. NFeatures \/ i = NFeatures + 1
        BY <2>1, EngineAssumption
      <3> QED
        BY <2>1, <3>1, CallFields
    <2>3. Quiet(calls)
      BY <1>6, <2>1, <2>2 DEF DisableProvider, Quiet, Mirroring, Call
    <2> QED
      BY <2>1, <2>3
  <1>7. CASE StopIfCounted
    <2>1. PICK p \in Providers, f \in Features :
            /\ todo[1] = Call("stop_if_counted", p, f, "-")
            /\ \/ Replaced(<<Call("track", p, 0, "enabled"), Call("impl_stop", p, f, "-")>>)
               \/ Replaced(<<>>)
      BY <1>7, StopIfStep
    <2>2. Quiet(<<Call("track", p, 0, "enabled"), Call("impl_stop", p, f, "-")>>) /\ Quiet(<<>>)
      BY <1>7, <2>1 DEF StopIfCounted, Quiet, Mirroring, Call
    <2> QED
      BY <2>1, <2>2
  <1>8. CASE MarkDisabled
    <2>1. Replaced(<<>>) /\ todo[1].op \notin Mirroring \union {"set_engine_state", "persist", "track"}
      BY <1>8, MarkStep, CallFields DEF Mirroring
    <2>2. Quiet(<<>>)
      BY <1>8, <2>1 DEF MarkDisabled, Quiet
    <2> QED
      BY <2>1, <2>2
  <1>9. CASE ImplStart
    <2>1. Replaced(<<>>) /\ todo[1].op \notin Mirroring \union {"set_engine_state", "persist", "track"}
      BY <1>9, ImplStartStep, CallFields DEF Mirroring
    <2>2. Quiet(<<>>)
      BY <1>9, <2>1 DEF ImplStart, Quiet
    <2> QED
      BY <2>1, <2>2
  <1>10. CASE ImplStop
    <2>1. Replaced(<<>>) /\ todo[1].op \notin Mirroring \union {"set_engine_state", "persist", "track"}
      BY <1>10, ImplStopStep, CallFields DEF Mirroring
    <2>2. Quiet(<<>>)
      BY <1>10, <2>1 DEF ImplStop, Quiet
    <2> QED
      BY <2>1, <2>2
  <1>11. CASE EngineSlot
    <2>1. PICK v \in Status, calls \in Seq(Calls) :
            /\ todo[1] = Call("engine_slot", 0, 0, v)
            /\ Replaced(calls)
            /\ v = "active" => calls = <<>>
            /\ v # "active" =>
                 /\ Len(calls) = NProviders
                 /\ \A p \in 1 .. NProviders :
                      calls[p] = Call(IF v = "on" THEN "enable" ELSE "disable", p, 0, "-")
      BY <1>11, EngineSlotStep
    <2>2. \A i \in 1 .. Len(calls) : calls[i].op \in {"enable", "disable"}
      BY <2>1, CallFields
    <2>3. Quiet(calls)
      BY <1>11, <2>1, <2>2 DEF EngineSlot, Quiet, Mirroring, Call
    <2> QED
      BY <2>1, <2>3
  <1>12. CASE SetSatelliteState
    <2>1. PICK v \in OnOff :
            /\ todo[1] = Call("set_satellite_state", 0, 0, v)
            /\ \/ Replaced(<<Call("satellite_slot", 0, 0, v), Call("satellite_mirror", 0, 0, v)>>)
               \/ Replaced(<<>>)
      BY <1>12, SetSatelliteStep
    <2>2. Quiet(<<Call("satellite_slot", 0, 0, v), Call("satellite_mirror", 0, 0, v)>>) /\ Quiet(<<>>)
      BY <1>12, <2>1 DEF SetSatelliteState, Quiet, Mirroring, Call
    <2> QED
      BY <2>1, <2>2
  <1>13. CASE SatelliteSlot
    <2>1. PICK v \in OnOff, calls \in Seq(Calls) :
            /\ todo[1] = Call("satellite_slot", 0, 0, v)
            /\ Replaced(calls)
            /\ Len(calls) = NProviders
            /\ \A p \in 1 .. NProviders :
                 calls[p] = Call(IF v = "on" THEN "enable_if_on" ELSE "disable_satellite", p, 0, "-")
      BY <1>13, SatelliteSlotStep
    <2>2. \A i \in 1 .. Len(calls) : calls[i].op \in {"enable_if_on", "disable_satellite"}
      BY <2>1 DEF Call
    <2>3. Quiet(calls)
      BY <1>13, <2>1, <2>2 DEF SatelliteSlot, Quiet, Mirroring, Call
    <2> QED
      BY <2>1, <2>3
  <1>14. CASE SatelliteMirror
    <2>1. PICK v \in OnOff :
            /\ todo[1] = Call("satellite_mirror", 0, 0, v)
            /\ Replaced(<<Call("set_does_satellite", 0, 0, v)>>)
      BY <1>14, SatelliteMirrorStep
    <2>2. Quiet(<<Call("set_does_satellite", 0, 0, v)>>)
      BY <1>14, <2>1 DEF SatelliteMirror, Quiet, Mirroring, Call
    <2> QED
      BY <2>1, <2>2
  <1>15. CASE SetDoesSatellite
    <2>1. PICK v \in OnOff :
            /\ todo[1] = Call("set_does_satellite", 0, 0, v)
            /\ \/ Replaced(<<Call("set_satellite_state", 0, 0, v)>>)
               \/ Replaced(<<>>)
      BY <1>15, SetSatelliteUseStep
    <2>2. Quiet(<<Call("set_satellite_state", 0, 0, v)>>) /\ Quiet(<<>>)
      BY <1>15, <2>1 DEF SetDoesSatellite, Quiet, Mirroring, Call
    <2> QED
      BY <2>1, <2>2
  <1>16. CASE StopSession
    <2>1. PICK s \in Sessions, f \in Features, calls \in Seq(Calls) :
            /\ todo[1] = Call("session_stop", 0, f, s)
            /\ Replaced(calls)
            /\ \A k \in 1 .. Len(calls) : calls[k].op = "stop"
      BY <1>16, StopSessionStep
    <2>2. Quiet(calls)
      BY <1>16, <2>1 DEF StopSession, Quiet, Mirroring, Call
    <2> QED
      BY <2>1, <2>2
  <1>17. CASE RequiresUnanswered
    <2>1. Replaced(<<>>) /\ todo[1].op \notin Mirroring \union {"set_engine_state", "persist", "track"}
      BY <1>17, UnansweredStep, CallFields DEF Mirroring
    <2>2. Quiet(<<>>)
      BY <1>17, <2>1 DEF RequiresUnanswered, Quiet
    <2> QED
      BY <2>1, <2>2
  <1> QED
    BY <1>1, <1>2, <1>3, <1>4, <1>5, <1>6, <1>7, <1>8, <1>9, <1>10, <1>11, <1>12,
       <1>13, <1>14, <1>15, <1>16, <1>17 DEF Dispatch, Proceed, Loud

\* The waiting slots stay current: a write of a state waits above no slot of it.
LEMMA SlotsDispatch ==
  ASSUME TypeOK, StackInv, SlotsAreCurrent, Dispatch
  PROVE  SlotsAreCurrent'
  <1> USE DEF configVars, serviceVars, clientVars
  <1>1. CASE StartUpdates
    <2>1. PICK p \in Providers, f \in Features :
            \/ Replaced(<<Call("track", p, 0, "active"), Call("impl_start", p, f, "-")>>)
            \/ Replaced(<<>>)
      BY <1>1, StartStep
    <2> DEFINE calls == <<Call("track", p, 0, "active"), Call("impl_start", p, f, "-")>>
    <2>2. \A i \in 1 .. Len(calls) : IsCurrent(calls[i])
      BY DEF IsCurrent, Call
    <2>3. UNCHANGED <<engine_state, satellite_state>>
      BY <1>1 DEF StartUpdates
    <2> HIDE DEF calls
    <2> QED
      BY <2>1, <2>2, <2>3, SlotsStep DEF calls
  <1>2. CASE StopUpdates
    <2>1. PICK p \in Providers, f \in Features :
            \/ Replaced(<<Call("track", p, 0, "enabled"), Call("impl_stop", p, f, "-")>>)
            \/ Replaced(<<>>)
      BY <1>2, StopStep
    <2> DEFINE calls == <<Call("track", p, 0, "enabled"), Call("impl_stop", p, f, "-")>>
    <2>2. \A i \in 1 .. Len(calls) : IsCurrent(calls[i])
      BY DEF IsCurrent, Call
    <2>3. UNCHANGED <<engine_state, satellite_state>>
      BY <1>2 DEF StopUpdates
    <2> HIDE DEF calls
    <2> QED
      BY <2>1, <2>2, <2>3, SlotsStep DEF calls
  <1>3. CASE StopIfCounted
    <2>1. PICK p \in Providers, f \in Features :
            \/ Replaced(<<Call("track", p, 0, "enabled"), Call("impl_stop", p, f, "-")>>)
            \/ Replaced(<<>>)
      BY <1>3, StopIfStep
    <2> DEFINE calls == <<Call("track", p, 0, "enabled"), Call("impl_stop", p, f, "-")>>
    <2>2. \A i \in 1 .. Len(calls) : IsCurrent(calls[i])
      BY DEF IsCurrent, Call
    <2>3. UNCHANGED <<engine_state, satellite_state>>
      BY <1>3 DEF StopIfCounted
    <2> HIDE DEF calls
    <2> QED
      BY <2>1, <2>2, <2>3, SlotsStep DEF calls
  <1>4. CASE EnableProvider
    <2>1. Replaced(<<>>)
      BY <1>4, EnableStep
    <2> QED
      BY <1>4, <2>1, SlotsStep DEF EnableProvider
  <1>5. CASE SkipEnable
    <2>1. Replaced(<<>>)
      BY <1>5, SkipStep
    <2> QED
      BY <1>5, <2>1, SlotsStep DEF SkipEnable
  <1>6. CASE SkipDisable
    <2>1. Replaced(<<>>)
      BY <1>6, SkipStep
    <2> QED
      BY <1>6, <2>1, SlotsStep DEF SkipDisable
  <1>7. CASE MarkDisabled
    <2>1. Replaced(<<>>)
      BY <1>7, MarkStep
    <2> QED
      BY <1>7, <2>1, SlotsStep DEF MarkDisabled
  <1>8. CASE ImplStart
    <2>1. Replaced(<<>>)
      BY <1>8, ImplStartStep
    <2> QED
      BY <1>8, <2>1, SlotsStep DEF ImplStart
  <1>9. CASE ImplStop
    <2>1. Replaced(<<>>)
      BY <1>9, ImplStopStep
    <2> QED
      BY <1>9, <2>1, SlotsStep DEF ImplStop
  <1>10. CASE PersistEngineState
    <2>1. Replaced(<<>>)
      BY <1>10, PersistStep
    <2> QED
      BY <1>10, <2>1, SlotsStep DEF PersistEngineState
  <1>11. CASE SetServiceState
    <2>1. Replaced(<<>>)
      BY <1>11, SetServiceStep
    <2> QED
      BY <1>11, <2>1, SlotsStep DEF SetServiceState
  <1>12. CASE DisableProvider
    <2>1. PICK p \in Providers, calls \in Seq(Calls) :
            /\ Replaced(calls)
            /\ Len(calls) = NFeatures + 1
            /\ \A f \in 1 .. NFeatures : calls[f] = Call("stop_if_counted", p, f, "-")
            /\ calls[NFeatures + 1] = Call("mark_disabled", p, 0, "-")
      BY <1>12, DisableStep
    <2>2. ASSUME NEW i \in 1 .. Len(calls)
          PROVE  calls[i].op \in {"stop_if_counted", "mark_disabled"}
      <3>1. i \in 1 .. NFeatures \/ i = NFeatures + 1
        BY <2>1, EngineAssumption
      <3> QED
        BY <2>1, <3>1, CallFields
    <2> QED
      BY <1>12, <2>1, <2>2, SlotsStep DEF DisableProvider, IsCurrent
  <1>13. CASE TrackState
    <2>1. PICK v \in {"active", "on"} :
            \/ Replaced(<<Call("set_engine_state", 0, 0, v)>>)
            \/ Replaced(<<>>)
      BY <1>13, TrackStep
    <2> QED
      BY <1>13, <2>1, SlotsStep DEF TrackState, IsCurrent, Call
  <1>14. CASE SetEngineState
    <2>1. PICK v \in Status :
            /\ todo[1] = Call("set_engine_state", 0, 0, v)
            /\ engine_state' = v
            /\ \/ engine_state = v /\ Replaced(<<>>)
               \/ Replaced(<<Call("engine_slot", 0, 0, v), Call("persist", 0, 0, v),
                             Call("service_slot", 0, 0, v)>>)
      BY <1>14, SetEngineStep
    <2>2. CASE engine_state = v /\ Replaced(<<>>)
      BY <1>14, <2>1, <2>2, SlotsStep DEF SetEngineState
    <2> DEFINE calls == <<Call("engine_slot", 0, 0, v), Call("persist", 0, 0, v),
                          Call("service_slot", 0, 0, v)>>
    <2>3. CASE Replaced(calls)
      <3>1. Len(calls) = 3 /\ \A i \in 1 .. 3 : IsCurrent(calls[i])'
        <4>1. /\ Len(calls) = 3
              /\ calls[1].op = "engine_slot" /\ calls[2].op = "persist"
              /\ calls[3].op = "service_slot"
              /\ calls[1].v = v /\ calls[2].v = v /\ calls[3].v = v
          BY CallFields
        <4> HIDE DEF calls
        <4>2. IsCurrent(calls[1])' /\ IsCurrent(calls[2])' /\ IsCurrent(calls[3])'
          BY <2>1, <4>1 DEF IsCurrent
        <4> QED
          BY <4>1, <4>2 DEF IsCurrent
      <3>2. ASSUME NEW i \in Positions, i > 1
            PROVE  IsCurrent(todo[i]) /\ MayPrecede(todo[1], todo[i])
        <4>1. 1 \in Positions /\ 1 < i
          BY <3>2
        <4> QED
          BY <4>1 DEF SlotsAreCurrent, StackInv, Nested
      <3>3. ASSUME NEW c, MayPrecede(todo[1], c), IsCurrent(c)
            PROVE  IsCurrent(c)'
        BY <1>14, <2>1, <3>3 DEF SetEngineState, MayPrecede, Immediate, SwitchesOn,
            IsCurrent, Call
      <3> SUFFICES ASSUME NEW i \in 1 .. Len(todo')
                   PROVE  IsCurrent(todo[i])'
        BY DEF SlotsAreCurrent, IsCurrent
      <3>4. CASE i <= Len(calls)
        <4>1. i \in 1 .. 3 /\ todo'[i] = calls[i]
          BY <2>3, <3>1, <3>4 DEF Replaced
        <4> QED
          BY <3>1, <4>1 DEF IsCurrent
      <3>5. CASE i > Len(calls)
        <4> DEFINE k == i - Len(calls) + 1
        <4>1. k \in Positions /\ k > 1 /\ todo'[i] = todo[k]
          BY <2>3, <3>5 DEF Replaced
        <4>2. IsCurrent(todo[k]) /\ MayPrecede(todo[1], todo[k])
          BY <3>2, <4>1
        <4> HIDE DEF k, calls
        <4>3. ASSUME NEW c, c = todo[k]
              PROVE  IsCurrent(c)'
          BY <4>2, <4>3, <3>3
        <4> QED
          BY <4>1, <4>3 DEF IsCurrent
      <3> QED
        BY <3>1, <3>4, <3>5
    <2> QED
      BY <2>1, <2>2, <2>3
  <1>15. CASE EngineSlot
    <2>1. PICK v \in Status, calls \in Seq(Calls) :
            /\ todo[1] = Call("engine_slot", 0, 0, v)
            /\ Replaced(calls)
            /\ v = "active" => calls = <<>>
            /\ v # "active" =>
                 /\ Len(calls) = NProviders
                 /\ \A p \in 1 .. NProviders :
                      calls[p] = Call(IF v = "on" THEN "enable" ELSE "disable", p, 0, "-")
      BY <1>15, EngineSlotStep
    <2>2. engine_state = v
      BY <2>1 DEF SlotsAreCurrent, Replaced, IsCurrent, Call
    <2>3. \A i \in 1 .. Len(calls) : calls[i].op = (IF v = "on" THEN "enable" ELSE "disable")
      BY <2>1, CallFields
    <2>4. \A i \in 1 .. Len(calls) : IsCurrent(calls[i])
      BY <2>2, <2>3 DEF IsCurrent
    <2> QED
      BY <1>15, <2>1, <2>4, SlotsStep DEF EngineSlot
  <1>16. CASE SetSatelliteState
    <2>1. PICK v \in OnOff :
            /\ todo[1] = Call("set_satellite_state", 0, 0, v)
            /\ satellite_state' = v
            /\ \/ satellite_state = v /\ Replaced(<<>>)
               \/ Replaced(<<Call("satellite_slot", 0, 0, v), Call("satellite_mirror", 0, 0, v)>>)
      BY <1>16, SetSatelliteStep
    <2>2. CASE satellite_state = v /\ Replaced(<<>>)
      BY <1>16, <2>1, <2>2, SlotsStep DEF SetSatelliteState
    <2> DEFINE calls == <<Call("satellite_slot", 0, 0, v), Call("satellite_mirror", 0, 0, v)>>
    <2>3. CASE Replaced(calls)
      <3>1. Len(calls) = 2 /\ \A i \in 1 .. 2 : IsCurrent(calls[i])'
        BY <2>1 DEF IsCurrent, Call
      <3>2. ASSUME NEW i \in Positions, i > 1
            PROVE  IsCurrent(todo[i]) /\ MayPrecede(todo[1], todo[i])
        <4>1. 1 \in Positions /\ 1 < i
          BY <3>2
        <4> QED
          BY <4>1 DEF SlotsAreCurrent, StackInv, Nested
      <3>3. ASSUME NEW c, MayPrecede(todo[1], c), IsCurrent(c)
            PROVE  IsCurrent(c)'
        BY <1>16, <2>1, <3>3 DEF SetSatelliteState, MayPrecede, Immediate,
            SwitchesOn, IsCurrent, Call
      <3> SUFFICES ASSUME NEW i \in 1 .. Len(todo')
                   PROVE  IsCurrent(todo[i])'
        BY DEF SlotsAreCurrent, IsCurrent
      <3>4. CASE i <= Len(calls)
        <4>1. i \in 1 .. 2 /\ todo'[i] = calls[i]
          BY <2>3, <3>1, <3>4 DEF Replaced
        <4> QED
          BY <3>1, <4>1 DEF IsCurrent
      <3>5. CASE i > Len(calls)
        <4> DEFINE k == i - Len(calls) + 1
        <4>1. k \in Positions /\ k > 1 /\ todo'[i] = todo[k]
          BY <2>3, <3>5 DEF Replaced
        <4>2. IsCurrent(todo[k]) /\ MayPrecede(todo[1], todo[k])
          BY <3>2, <4>1
        <4> HIDE DEF k, calls
        <4>3. ASSUME NEW c, c = todo[k]
              PROVE  IsCurrent(c)'
          BY <4>2, <4>3, <3>3
        <4> QED
          BY <4>1, <4>3 DEF IsCurrent
      <3> QED
        BY <3>1, <3>4, <3>5
    <2> QED
      BY <2>1, <2>2, <2>3
  <1>17. CASE SatelliteSlot
    <2>1. PICK v \in OnOff, calls \in Seq(Calls) :
            /\ todo[1] = Call("satellite_slot", 0, 0, v)
            /\ Replaced(calls)
            /\ Len(calls) = NProviders
            /\ \A p \in 1 .. NProviders :
                 calls[p] = Call(IF v = "on" THEN "enable_if_on" ELSE "disable_satellite", p, 0, "-")
      BY <1>17, SatelliteSlotStep
    <2>2. satellite_state = v
      <3>1. todo[1].op = "satellite_slot" /\ todo[1].v = v
        BY <2>1, CallFields
      <3>2. 1 \in Positions
        BY <2>1 DEF Replaced
      <3> QED
        BY <3>1, <3>2 DEF SlotsAreCurrent, IsCurrent
    <2>3. \A i \in 1 .. Len(calls) :
            calls[i].op = (IF v = "on" THEN "enable_if_on" ELSE "disable_satellite")
      BY <2>1 DEF Call
    <2>4. \A i \in 1 .. Len(calls) : IsCurrent(calls[i])
      BY <2>2, <2>3 DEF IsCurrent
    <2> QED
      BY <1>17, <2>1, <2>4, SlotsStep DEF SatelliteSlot
  <1>18. CASE SatelliteMirror
    <2>1. PICK v \in OnOff : Replaced(<<Call("set_does_satellite", 0, 0, v)>>)
      BY <1>18, SatelliteMirrorStep
    <2>2. IsCurrent(Call("set_does_satellite", 0, 0, v))
      BY CallFields DEF IsCurrent
    <2>3. UNCHANGED <<engine_state, satellite_state>>
      BY <1>18 DEF SatelliteMirror, configVars, serviceVars
    <2> QED
      BY <2>1, <2>2, <2>3, SlotsStep
  <1>19. CASE SetIsOnline
    <2>1. PICK v \in OnOff : Replaced(<<>>) \/ Replaced(<<Call("set_engine_state", 0, 0, v)>>)
      BY <1>19, SetOnlineStep
    <2> QED
      BY <1>19, <2>1, SlotsStep DEF SetIsOnline, IsCurrent, Call
  <1>20. CASE SetDoesSatellite
    <2>1. PICK v \in OnOff : Replaced(<<>>) \/ Replaced(<<Call("set_satellite_state", 0, 0, v)>>)
      BY <1>20, SetSatelliteUseStep
    <2> QED
      BY <1>20, <2>1, SlotsStep DEF SetDoesSatellite, IsCurrent, Call
  <1>21. CASE ServiceSlot
    <2>1. PICK v \in Status : Replaced(MirrorOf(v))
      BY <1>21, ServiceSlotStep
    <2>2. \A i \in 1 .. Len(MirrorOf(v)) : MirrorOf(v)[i].op \in {"set_is_online", "set_service_state"}
      BY DEF MirrorOf, Call
    <2> QED
      BY <1>21, <2>1, <2>2, SlotsStep DEF ServiceSlot, IsCurrent
  <1>22. CASE StopSession
    <2>1. PICK calls \in Seq(Calls) :
            Replaced(calls) /\ \A k \in 1 .. Len(calls) : calls[k].op = "stop"
      BY <1>22, StopSessionStep
    <2> QED
      BY <1>22, <2>1, SlotsStep DEF StopSession, IsCurrent
  <1>23. CASE RequiresUnanswered
    <2>1. Replaced(<<>>)
      BY <1>23, UnansweredStep
    <2> QED
      BY <1>23, <2>1, SlotsStep DEF RequiresUnanswered
  <1> QED
    BY <1>1, <1>2, <1>3, <1>4, <1>5, <1>6, <1>7, <1>8, <1>9, <1>10, <1>11, <1>12,
       <1>13, <1>14, <1>15, <1>16, <1>17, <1>18, <1>19, <1>20, <1>21, <1>22, <1>23
    DEF Dispatch, Proceed
-----------------------------------------------------------------------------
(* Engine and service come to agree. *)

\* Nothing above the first mirroring call mirrors.
LEMMA OnlyMirror ==
  ASSUME Len(todo) \in Nat, NEW i \in Positions, todo[i].op \in Mirroring
  PROVE  \A j \in Positions : FirstMirror(j) => j <= i
  BY DEF FirstMirror

\* When the head mirrors the engine's state, it is the first call to do so.
LEMMA HeadMirrors ==
  ASSUME TypeOK, todo # <<>>, todo[1].op \in Mirroring
  PROVE  /\ 1 \in Positions /\ Len(todo) \in Nat
         /\ FirstMirror(1)
         /\ \A j \in Positions : FirstMirror(j) => j = 1
         /\ AgreesSoon => \/ Agreed
                          \/ /\ todo[1].op # "set_service_state"
                             /\ engine_state # "off" <=> todo[1].v # "off"
  <1>1. 1 \in Positions /\ Len(todo) \in Nat
    BY LenProperties, EmptySeq DEF TypeOK
  <1>2. FirstMirror(1)
    BY <1>1 DEF FirstMirror
  <1>3. \A j \in Positions : FirstMirror(j) => j = 1
    BY <1>1, OnlyMirror
  <1>4. ~Calling("set_engine_state")
    BY <1>1 DEF Calling, Mirroring
  <1> QED
    BY <1>1, <1>2, <1>3, <1>4 DEF AgreesSoon

\* After pushing calls the first of them is made.
LEMMA NewHead ==
  ASSUME NEW calls, Replaced(calls), Len(calls) > 0
  PROVE  /\ todo' # <<>> /\ This' = calls[1] /\ todo'[1] = calls[1]
         /\ 1 \in 1 .. Len(todo')
         /\ \A op : Calling(op)' <=> calls[1].op = op
  <1>1. todo' # <<>> /\ todo'[1] = calls[1] /\ 1 \in 1 .. Len(todo')
    BY EmptySeq DEF Replaced
  <1>2. This' = calls[1]
    BY <1>1 DEF This, Replaced
  <1> QED
    BY <1>1, <1>2 DEF Calling, This

\* The call being made is the head.
LEMMA HeadIs ==
  ASSUME NEW calls, Replaced(calls)
  PROVE  todo # <<>> /\ This = todo[1] /\ \A op : Calling(op) <=> todo[1].op = op
  <1>1. todo # <<>> /\ todo \in Seq(Calls) /\ Len(todo) > 0
    BY DEF Replaced
  <1>2. This = todo[1]
    BY <1>1 DEF This
  <1> QED
    BY <1>1, <1>2 DEF Calling, This

\* An immediate call is made next only if it was pushed.
LEMMA NoNewHead ==
  ASSUME TypeOK, StackInv, NEW calls, Replaced(calls), NEW op \in Immediate,
         \A i \in 1 .. Len(calls) : calls[i].op # op
  PROVE  ~Calling(op)'
  <1>1. CASE Len(calls) > 0
    BY <1>1, NewHead DEF Replaced
  <1>2. CASE Len(calls) = 0
    <2>1. CASE todo' = <<>>
      BY <2>1 DEF Calling
    <2>2. CASE todo' # <<>>
      <3>1. This'.op # op
        BY <1>2, <2>2, NextHead
      <3> QED
        BY <3>1 DEF Calling, This
    <2> QED
      BY <2>1, <2>2
  <1> QED
    BY <1>1, <1>2 DEF Replaced

\* Engine and service go on agreeing soon, whatever call is made.
LEMMA AgreesDispatch ==
  ASSUME TypeOK, StackInv, AgreesSoon, Dispatch
  PROVE  AgreesSoon'
  <1>1. CASE ~Loud
    <2>1. PICK calls : Replaced(calls) /\ Quiet(calls)
      BY <1>1, QuietDispatch
    <2> QED
      BY <2>1, AgreesStep DEF Quiet
  <1>2. CASE TrackState
    <2>1. PICK v \in {"active", "on"} :
            /\ todo[1].op = "track"
            /\ Replaced(<<>>) \/ Replaced(<<Call("set_engine_state", 0, 0, v)>>)
      BY <1>2, TrackStep, CallFields
    <2>2. UNCHANGED <<engine_state, is_online>>
      BY <1>2 DEF TrackState, configVars, serviceVars
    <2>3. CASE Replaced(<<>>)
      BY <2>1, <2>2, <2>3, AgreesStep DEF Mirroring
    <2>4. CASE Replaced(<<Call("set_engine_state", 0, 0, v)>>)
      <3>1. \A i \in 1 .. 1 : <<Call("set_engine_state", 0, 0, v)>>[i].op \notin Mirroring
        BY CallFields DEF Mirroring
      <3> QED
        BY <2>1, <2>2, <2>4, <3>1, AgreesStep DEF Mirroring
    <2> QED
      BY <2>1, <2>3, <2>4
  <1>3. CASE PersistEngineState
    <2>1. Replaced(<<>>) /\ todo[1].op = "persist"
      BY <1>3, PersistStep, CallFields
    <2>2. UNCHANGED <<engine_state, is_online>>
      BY <1>3 DEF PersistEngineState, serviceVars
    <2> QED
      BY <2>1, <2>2, AgreesStep DEF Mirroring
  <1>4. CASE SetEngineState
    <2>1. PICK v \in Status :
            /\ todo[1] = Call("set_engine_state", 0, 0, v)
            /\ engine_state' = v
            /\ \/ engine_state = v /\ Replaced(<<>>)
               \/ Replaced(<<Call("engine_slot", 0, 0, v), Call("persist", 0, 0, v),
                             Call("service_slot", 0, 0, v)>>)
      BY <1>4, SetEngineStep
    <2>2. is_online' = is_online
      BY <1>4 DEF SetEngineState, serviceVars
    <2>3. CASE engine_state = v /\ Replaced(<<>>)
      <3>1. This = todo[1]
        BY <2>3, HeadIs
      <3>2. CASE Agreed
        BY <2>1, <2>2, <2>3, <3>2 DEF AgreesSoon, Agreed
      <3>3. CASE \E i \in Positions :
                   /\ FirstMirror(i)
                   /\ todo[i].op # "set_service_state"
                   /\ engine_state # "off" <=> todo[i].v # "off"
        <4>1. todo[1].op \notin Mirroring
          BY <2>1, CallFields DEF Mirroring
        <4> QED
          BY <2>1, <2>2, <2>3, <3>3, <4>1, FirstMirrorMoves DEF AgreesSoon
      <3>4. CASE is_online <=> This.v # "off"
        BY <2>1, <2>2, <2>3, <3>1, <3>4, CallFields DEF AgreesSoon, Agreed
      <3> QED
        BY <3>2, <3>3, <3>4 DEF AgreesSoon
    <2> DEFINE calls == <<Call("engine_slot", 0, 0, v), Call("persist", 0, 0, v),
                          Call("service_slot", 0, 0, v)>>
    <2>4. CASE Replaced(calls)
      <3>1. Len(calls) = 3 /\ calls[3].v = v
            /\ calls[1].op = "engine_slot" /\ calls[2].op = "persist" /\ calls[3].op = "service_slot"
        BY CallFields
      <3> HIDE DEF calls
      <3>2. /\ 3 \in 1 .. Len(todo') /\ Len(todo') \in Nat
            /\ todo'[1] = calls[1] /\ todo'[2] = calls[2] /\ todo'[3] = calls[3]
        BY <2>4, <3>1 DEF Replaced
      <3>3. FirstMirror(3)'
        BY <3>1, <3>2 DEF FirstMirror, Mirroring
      <3> QED
        BY <2>1, <3>1, <3>2, <3>3 DEF AgreesSoon
    <2> QED
      BY <2>1, <2>3, <2>4
  <1>5. CASE SetIsOnline
    <2>1. PICK v \in OnOff :
            /\ todo[1] = Call("set_is_online", 0, 0, v)
            /\ is_online' = (v = "on")
            /\ \/ is_online = (v = "on") /\ Replaced(<<>>)
               \/ Replaced(<<Call("set_engine_state", 0, 0, v)>>)
      BY <1>5, SetOnlineStep
    <2>2. engine_state' = engine_state
      BY <1>5 DEF SetIsOnline, configVars
    <2>3. CASE is_online = (v = "on") /\ Replaced(<<>>)
      <3>1. Agreed \/ (engine_state # "off" <=> v # "off")
        BY <2>1, <2>3, HeadMirrors, CallFields DEF Mirroring, Replaced
      <3> QED
        BY <2>1, <2>2, <2>3, <3>1 DEF AgreesSoon, Agreed, OnOff
    <2>4. CASE Replaced(<<Call("set_engine_state", 0, 0, v)>>)
      <3>1. todo' # <<>> /\ This' = Call("set_engine_state", 0, 0, v)
        BY <2>4, NewHead
      <3>2. todo' # <<>> /\ This'.op = "set_engine_state" /\ This'.v = v
        <4> HIDE DEF This
        <4> QED
          BY <3>1, CallFields
      <3>3. is_online' <=> v # "off"
        BY <2>1 DEF OnOff
      <3> QED
        BY <3>2, <3>3 DEF AgreesSoon, Calling, This
    <2> QED
      BY <2>1, <2>3, <2>4
  <1>6. CASE ServiceSlot
    <2>1. PICK v \in Status :
            todo[1] = Call("service_slot", 0, 0, v) /\ Replaced(MirrorOf(v))
      BY <1>6, ServiceSlotStep
    <2>2. UNCHANGED <<engine_state, is_online>>
      BY <1>6 DEF ServiceSlot, configVars, serviceVars
    <2>3. /\ 1 \in 1 .. Len(todo') /\ todo'[1].op = "set_is_online"
          /\ todo'[1].v # "off" <=> v # "off"
      <3>1. Len(MirrorOf(v)) > 0 /\ MirrorOf(v)[1] = Call("set_is_online", 0, 0, OnOffFor(v))
        BY DEF MirrorOf
      <3> QED
        BY <2>1, <3>1, NewHead, Mirrored, CallFields
    <2>4. FirstMirror(1)'
      BY <2>3 DEF FirstMirror, Mirroring
    <2>5. Agreed \/ (engine_state # "off" <=> v # "off")
      BY <2>1, HeadMirrors, CallFields DEF Mirroring, Replaced
    <2> QED
      BY <2>2, <2>3, <2>4, <2>5 DEF AgreesSoon, Agreed
  <1>7. CASE SetServiceState
    <2>1. todo[1].op = "set_service_state" /\ todo # <<>>
      BY <1>7, SetServiceStep, CallFields DEF Replaced
    <2>2. Agreed
      BY <2>1, HeadMirrors DEF Mirroring
    <2> QED
      BY <1>7, <2>2 DEF SetServiceState, AgreesSoon, Agreed, configVars
  <1> QED
    BY <1>1, <1>2, <1>3, <1>4, <1>5, <1>6, <1>7 DEF Loud

\* The state shown goes on following the engine's.
LEMMA ShownDispatch ==
  ASSUME TypeOK, StackInv, AgreesSoon, OnlineIsKnown, ShownSoon, Dispatch
  PROVE  ShownSoon'
  <1>1. CASE ~Loud
    <2>1. PICK calls : Replaced(calls) /\ Quiet(calls)
      BY <1>1, QuietDispatch
    <2> QED
      BY <2>1, ShownStep DEF Quiet, Mirroring
  <1>2. CASE TrackState
    <2>1. PICK calls : Replaced(calls) /\ todo[1].op = "track"
      BY <1>2, TrackStep, CallFields
    <2> QED
      BY <1>2, <2>1, ShownStep DEF TrackState, configVars, serviceVars
  <1>3. CASE PersistEngineState
    <2>1. Replaced(<<>>) /\ todo[1].op = "persist"
      BY <1>3, PersistStep, CallFields
    <2> QED
      BY <1>3, <2>1, ShownStep DEF PersistEngineState, serviceVars
  <1>4. CASE SetEngineState
    <2>1. PICK v \in Status :
            /\ todo[1].op = "set_engine_state"
            /\ engine_state' = v
            /\ \/ engine_state = v /\ Replaced(<<>>)
               \/ Replaced(<<Call("engine_slot", 0, 0, v), Call("persist", 0, 0, v),
                             Call("service_slot", 0, 0, v)>>)
      BY <1>4, SetEngineStep, CallFields
    <2>2. service_state' = service_state
      BY <1>4 DEF SetEngineState, serviceVars
    <2>3. CASE engine_state = v /\ Replaced(<<>>)
      BY <2>1, <2>2, <2>3, ShownStep
    <2> DEFINE calls == <<Call("engine_slot", 0, 0, v), Call("persist", 0, 0, v),
                          Call("service_slot", 0, 0, v)>>
    <2>4. CASE Replaced(calls)
      <3>1. Len(calls) = 3 /\ calls[3].op = "service_slot"
        BY CallFields
      <3> HIDE DEF calls
      <3>2. 3 \in 1 .. Len(todo') /\ todo'[3] = calls[3]
        BY <2>4, <3>1 DEF Replaced
      <3> QED
        BY <3>1, <3>2 DEF ShownSoon
    <2> QED
      BY <2>1, <2>3, <2>4
  <1>5. CASE SetIsOnline
    <2>1. PICK v \in OnOff :
            /\ todo[1].op = "set_is_online"
            /\ Replaced(<<>>) \/ Replaced(<<Call("set_engine_state", 0, 0, v)>>)
      <3>1. PICK v \in OnOff :
              /\ todo[1] = Call("set_is_online", 0, 0, v)
              /\ Replaced(<<>>) \/ Replaced(<<Call("set_engine_state", 0, 0, v)>>)
        BY <1>5, SetOnlineStep
      <3> QED
        BY <3>1, CallFields
    <2> QED
      BY <1>5, <2>1, ShownStep DEF SetIsOnline, configVars
  <1>6. CASE ServiceSlot
    <2>1. PICK v \in Status : Replaced(MirrorOf(v))
      BY <1>6, ServiceSlotStep
    <2>2. Len(MirrorOf(v)) = 2 /\ MirrorOf(v)[2].op = "set_service_state"
      BY CallFields DEF MirrorOf
    <2>3. 2 \in 1 .. Len(todo') /\ todo'[2] = MirrorOf(v)[2]
      BY <2>1, <2>2 DEF Replaced
    <2> QED
      BY <2>2, <2>3 DEF ShownSoon
  <1>7. CASE SetServiceState
    <2>1. PICK v \in ServiceState :
            todo[1] = Call("set_service_state", 0, 0, v) /\ service_state' = v /\ todo # <<>>
      BY <1>7, SetServiceStep DEF Replaced
    <2>2. todo[1].op = "set_service_state" /\ todo[1].v = v
      BY <2>1, CallFields
    <2>3. Agreed /\ 1 \in Positions /\ Len(todo) \in Nat
      BY <2>1, <2>2, HeadMirrors DEF Mirroring
    <2>4. Known(1) /\ (KnownOnline(1) <=> v # "disabled")
      BY <2>2, <2>3 DEF Known, KnownOnline
    <2>5. is_online <=> v # "disabled"
      BY <2>3, <2>4 DEF OnlineIsKnown
    <2> QED
      BY <1>7, <2>1, <2>3, <2>5 DEF ShownSoon, Agreed, SetServiceState, configVars
  <1> QED
    BY <1>1, <1>2, <1>3, <1>4, <1>5, <1>6, <1>7 DEF Loud

\* The settings go on holding, or being about to hold, the engine's state.
LEMMA PersistedDispatch ==
  ASSUME TypeOK, StackInv, SlotsAreCurrent, AgreesSoon, PersistedSoon, Dispatch
  PROVE  PersistedSoon'
  <1>1. ASSUME NEW calls, Replaced(calls),
               todo[1].op \notin {"service_slot", "set_is_online", "set_engine_state"}
        PROVE  ~AboutToSwitchOff
    BY <1>1, HeadIs DEF AboutToSwitchOff
  <1>2. CASE ~Loud
    <2>1. PICK calls : Replaced(calls) /\ Quiet(calls)
      BY <1>2, QuietDispatch
    <2> QED
      BY <1>1, <2>1, PersistedStep DEF Quiet, Mirroring
  <1>3. CASE TrackState
    <2>1. PICK v \in {"active", "on"} :
            /\ todo[1].op = "track"
            /\ Replaced(<<>>) \/ Replaced(<<Call("set_engine_state", 0, 0, v)>>)
      BY <1>3, TrackStep, CallFields
    <2>2. UNCHANGED <<engine_state, settings>>
      BY <1>3 DEF TrackState, configVars
    <2>3. CASE Replaced(<<>>)
      BY <1>1, <2>1, <2>2, <2>3, PersistedStep
    <2>4. CASE Replaced(<<Call("set_engine_state", 0, 0, v)>>)
      <3>1. \A i \in 1 .. 1 : <<Call("set_engine_state", 0, 0, v)>>[i].op # "persist"
        BY CallFields
      <3> QED
        BY <1>1, <2>1, <2>2, <2>4, <3>1, PersistedStep
    <2> QED
      BY <2>1, <2>3, <2>4
  <1>4. CASE PersistEngineState
    <2>1. PICK v \in Status :
            todo[1] = Call("persist", 0, 0, v) /\ settings' = v /\ Replaced(<<>>)
      BY <1>4, PersistStep
    <2>2. UNCHANGED <<engine_state, is_online>>
      BY <1>4 DEF PersistEngineState, serviceVars
    <2>3. CASE v = engine_state
      BY <2>1, <2>2, <2>3 DEF PersistedSoon
    <2>4. CASE v # engine_state
      <3>1. todo[1].op = "persist" /\ todo[1].v = v /\ 1 \in Positions /\ Len(todo) \in Nat
        BY <2>1, CallFields DEF Replaced
      <3>2. v = "off" /\ engine_state # "off"
        BY <2>4, <3>1 DEF SlotsAreCurrent, IsCurrent
      <3>3. 2 \in Positions /\ todo[2].op = "service_slot" /\ todo[2].v = "off"
        BY <3>1, <3>2 DEF StackInv, Framed
      <3>4. \A j \in Positions : FirstMirror(j) => j = 2
        BY <3>1, <3>3 DEF FirstMirror, Mirroring
      <3>5. Agreed
        BY <2>1, <3>1, <3>2, <3>3, <3>4, HeadIs DEF AgreesSoon
      <3>6. todo' # <<>> /\ This' = todo[2]
        BY <2>1, <3>3, EmptySeq DEF Replaced, This
      <3>7. AboutToSwitchOff'
        BY <2>1, <2>2, <3>2, <3>3, <3>5, <3>6 DEF AboutToSwitchOff, Agreed, This
      <3> QED
        BY <3>7 DEF PersistedSoon
    <2> QED
      BY <2>3, <2>4
  <1>5. CASE SetEngineState
    <2>1. PICK v \in Status :
            /\ todo[1] = Call("set_engine_state", 0, 0, v)
            /\ engine_state' = v
            /\ \/ engine_state = v /\ Replaced(<<>>)
               \/ Replaced(<<Call("engine_slot", 0, 0, v), Call("persist", 0, 0, v),
                             Call("service_slot", 0, 0, v)>>)
      BY <1>5, SetEngineStep
    <2>2. settings' = settings
      BY <1>5 DEF SetEngineState
    <2>3. CASE engine_state = v /\ Replaced(<<>>)
      <3>1. todo[1].op = "set_engine_state" /\ todo[1].v = v /\ This = todo[1]
        BY <2>1, <2>3, CallFields, HeadIs
      <3>2. ~AboutToSwitchOff
        BY <2>3, <3>1 DEF AboutToSwitchOff
      <3> QED
        BY <2>1, <2>2, <2>3, <3>1, <3>2, PersistedStep
    <2> DEFINE calls == <<Call("engine_slot", 0, 0, v), Call("persist", 0, 0, v),
                          Call("service_slot", 0, 0, v)>>
    <2>4. CASE Replaced(calls)
      <3>1. Len(calls) = 3 /\ calls[2].v = v
            /\ calls[1].op = "engine_slot" /\ calls[2].op = "persist"
        BY CallFields
      <3> HIDE DEF calls
      <3>2. /\ 2 \in 1 .. Len(todo') /\ Len(todo') \in Nat
            /\ todo'[1] = calls[1] /\ todo'[2] = calls[2]
        BY <2>4, <3>1 DEF Replaced
      <3> QED
        BY <2>1, <3>1, <3>2 DEF PersistedSoon
    <2> QED
      BY <2>1, <2>3, <2>4
  <1>6. CASE SetIsOnline
    <2>1. PICK v \in OnOff :
            /\ todo[1] = Call("set_is_online", 0, 0, v)
            /\ is_online' = (v = "on")
            /\ \/ is_online = (v = "on") /\ Replaced(<<>>)
               \/ Replaced(<<Call("set_engine_state", 0, 0, v)>>)
      BY <1>6, SetOnlineStep
    <2>2. UNCHANGED <<engine_state, settings>>
      BY <1>6 DEF SetIsOnline, configVars
    <2>3. todo[1].op = "set_is_online" /\ todo[1].v = v /\ This = todo[1]
      BY <2>1, CallFields, HeadIs
    <2>4. \A i \in 1 .. 1 : <<Call("set_engine_state", 0, 0, v)>>[i].op # "persist"
      BY CallFields
    <2>5. CASE ~AboutToSwitchOff
      BY <2>1, <2>2, <2>3, <2>4, <2>5, PersistedStep
    <2>6. CASE AboutToSwitchOff
      <3>1. v = "off" /\ is_online /\ settings = "off" /\ engine_state # "off"
        BY <2>3, <2>6 DEF AboutToSwitchOff
      <3>2. Replaced(<<Call("set_engine_state", 0, 0, v)>>)
        BY <2>1, <3>1
      <3>3. todo' # <<>> /\ This' = Call("set_engine_state", 0, 0, v)
        BY <3>2, NewHead
      <3>4. AboutToSwitchOff'
        BY <2>2, <3>1, <3>3, CallFields DEF AboutToSwitchOff, This
      <3> QED
        BY <3>4 DEF PersistedSoon
    <2> QED
      BY <2>5, <2>6
  <1>7. CASE ServiceSlot
    <2>1. PICK v \in Status :
            todo[1] = Call("service_slot", 0, 0, v) /\ Replaced(MirrorOf(v))
      BY <1>7, ServiceSlotStep
    <2>2. UNCHANGED <<engine_state, settings, is_online>>
      BY <1>7 DEF ServiceSlot, configVars, serviceVars
    <2>3. todo[1].op = "service_slot" /\ todo[1].v = v /\ This = todo[1]
      BY <2>1, CallFields, HeadIs
    <2>4. Len(MirrorOf(v)) = 2 /\ MirrorOf(v)[1] = Call("set_is_online", 0, 0, OnOffFor(v))
      BY DEF MirrorOf
    <2>5. CASE ~AboutToSwitchOff
      <3>1. \A i \in 1 .. Len(MirrorOf(v)) : MirrorOf(v)[i].op # "persist"
        BY CallFields DEF MirrorOf
      <3> QED
        BY <2>1, <2>2, <2>3, <2>5, <3>1, PersistedStep
    <2>6. CASE AboutToSwitchOff
      <3>1. v = "off" /\ is_online /\ settings = "off" /\ engine_state # "off"
        BY <2>3, <2>6 DEF AboutToSwitchOff
      <3>2. todo' # <<>> /\ This' = Call("set_is_online", 0, 0, "off")
        BY <2>1, <2>4, <3>1, NewHead DEF OnOffFor
      <3>3. AboutToSwitchOff'
        BY <2>2, <3>1, <3>2, CallFields DEF AboutToSwitchOff, This
      <3> QED
        BY <3>3 DEF PersistedSoon
    <2> QED
      BY <2>5, <2>6
  <1>8. CASE SetServiceState
    <2>1. Replaced(<<>>) /\ todo[1].op = "set_service_state"
      BY <1>8, SetServiceStep, CallFields
    <2> QED
      BY <1>1, <1>8, <2>1, PersistedStep DEF SetServiceState, configVars
  <1> QED
    BY <1>2, <1>3, <1>4, <1>5, <1>6, <1>7, <1>8 DEF Loud

\* Up to a position where is_online is known, without a write of it, no
\* mirror waits.
LEMMA KnownFirst ==
  ASSUME Len(todo) \in Nat, NEW l \in 2 .. Len(todo) + 1, Known(l),
         \A k \in Positions : k < l => ~SetsOnline(todo[k]),
         NEW j \in Positions, FirstMirror(j)
  PROVE  todo[j].op = "set_service_state"
  <1>1. CASE j < l
    BY <1>1 DEF SetsOnline, FirstMirror, Mirroring
  <1>2. CASE j >= l
    <2>1. l \in Positions /\ todo[l].op = "set_service_state"
      BY <1>2 DEF Known
    <2>2. j = l
      BY <1>2, <2>1 DEF FirstMirror, Mirroring
    <2> QED
      BY <2>1, <2>2
  <1> QED
    BY <1>1, <1>2

\* A step that may write is_online leaves what is known of it below the pushed
\* calls, if those write what is known or nothing.
LEMMA KnownBelow ==
  ASSUME NEW calls, Replaced(calls), OnlineIsKnown, UNCHANGED requested,
         \A l \in 2 .. Len(todo) + 1 :
           Known(l) /\ (\A k \in Positions : 1 < k /\ k < l => ~SetsOnline(todo[k])) =>
             /\ \A j \in 1 .. Len(calls) :
                  SetsOnline(calls[j]) /\ (\A k \in 1 .. Len(calls) : j < k => ~SetsOnline(calls[k]))
                    => (KnownOnline(l) <=> calls[j].v # "off")
             /\ (\A k \in 1 .. Len(calls) : ~SetsOnline(calls[k])) =>
                  /\ is_online' <=> KnownOnline(l)
                  /\ Calling("set_engine_state")' => (KnownOnline(l) <=> This'.v # "off"),
         NEW i \in 1 .. Len(todo') + 1, i > Len(calls), Known(i)'
  PROVE  /\ \A j \in 1 .. Len(todo') : LastWrite(j, i)' => (KnownOnline(i)' <=> todo'[j].v # "off")
         /\ (\A k \in 1 .. Len(todo') : k < i => ~SetsOnline(todo'[k])) =>
              /\ is_online' <=> KnownOnline(i)'
              /\ Calling("set_engine_state")' => (KnownOnline(i)' <=> This'.v # "off")
  <1> DEFINE l == i - Len(calls) + 1
  <1>1. l \in 2 .. Len(todo) + 1 /\ Known(l) /\ (KnownOnline(i)' <=> KnownOnline(l))
    BY KnownMoves
  <1>2. ASSUME NEW j \in 1 .. Len(calls) \union {0},
               \A k \in 1 .. Len(todo') : j < k /\ k < i => ~SetsOnline(todo'[k])
        PROVE  /\ \A k \in Positions : 1 < k /\ k < l => ~SetsOnline(todo[k])
               /\ \A k \in 1 .. Len(calls) : j < k => ~SetsOnline(calls[k])
    <2>1. ASSUME NEW k \in Positions, 1 < k, k < l
          PROVE  ~SetsOnline(todo[k])
      <3> DEFINE m == k + Len(calls) - 1
      <3>1. m \in 1 .. Len(todo') /\ todo'[m] = todo[k] /\ m > Len(calls)
        BY <2>1 DEF Replaced
      <3>2. m < i /\ j < m
        BY <2>1, <3>1, <1>2 DEF Replaced
      <3> QED
        BY <1>2, <3>1, <3>2
    <2>2. ASSUME NEW k \in 1 .. Len(calls), j < k
          PROVE  ~SetsOnline(calls[k])
      <3>1. k \in 1 .. Len(todo') /\ todo'[k] = calls[k] /\ k < i
        BY DEF Replaced
      <3> QED
        BY <1>2, <2>2, <3>1
    <2> QED
      BY <2>1, <2>2
  <1>3. ASSUME NEW j \in 1 .. Len(todo'), LastWrite(j, i)'
        PROVE  KnownOnline(i)' <=> todo'[j].v # "off"
    <2>1. CASE j > Len(calls)
      <3>1. /\ LastWrite(j - Len(calls) + 1, l)
            /\ j - Len(calls) + 1 \in Positions
            /\ todo'[j] = todo[j - Len(calls) + 1]
        BY <1>3, <2>1, LastWriteMoves DEF Replaced
      <3>2. l \in 1 .. Len(todo) + 1
        BY <1>1
      <3> HIDE DEF l
      <3> QED
        BY <1>1, <3>1, <3>2 DEF OnlineIsKnown
    <2>2. CASE j <= Len(calls)
      <3>1. j \in 1 .. Len(calls) /\ todo'[j] = calls[j]
        BY <2>2 DEF Replaced
      <3>2. /\ SetsOnline(todo'[j])
            /\ \A k \in 1 .. Len(todo') : j < k /\ k < i => ~SetsOnline(todo'[k])
        BY <1>3 DEF LastWrite, SetsOnline
      <3>3. /\ \A k \in Positions : 1 < k /\ k < l => ~SetsOnline(todo[k])
            /\ \A k \in 1 .. Len(calls) : j < k => ~SetsOnline(calls[k])
        BY <1>2, <3>1, <3>2
      <3> QED
        BY <1>1, <3>1, <3>2, <3>3
    <2> QED
      BY <2>1, <2>2 DEF Replaced
  <1>4. ASSUME \A k \in 1 .. Len(todo') : k < i => ~SetsOnline(todo'[k])
        PROVE  /\ is_online' <=> KnownOnline(i)'
               /\ Calling("set_engine_state")' => (KnownOnline(i)' <=> This'.v # "off")
    <2>1. /\ \A k \in Positions : 1 < k /\ k < l => ~SetsOnline(todo[k])
          /\ \A k \in 1 .. Len(calls) : 0 < k => ~SetsOnline(calls[k])
      <3> HIDE DEF l
      <3> QED
        BY <1>2, <1>4
    <2> QED
      BY <1>1, <2>1
  <1> QED
    BY <1>3, <1>4

\* The same for calls of which none shows the service state.
LEMMA KnownAbove ==
  ASSUME NEW calls, Replaced(calls), OnlineIsKnown, UNCHANGED requested,
         \A i \in 1 .. Len(calls) : calls[i].op # "set_service_state",
         \A l \in 2 .. Len(todo) + 1 :
           Known(l) /\ (\A k \in Positions : 1 < k /\ k < l => ~SetsOnline(todo[k])) =>
             /\ \A j \in 1 .. Len(calls) :
                  SetsOnline(calls[j]) /\ (\A k \in 1 .. Len(calls) : j < k => ~SetsOnline(calls[k]))
                    => (KnownOnline(l) <=> calls[j].v # "off")
             /\ (\A k \in 1 .. Len(calls) : ~SetsOnline(calls[k])) =>
                  /\ is_online' <=> KnownOnline(l)
                  /\ Calling("set_engine_state")' => (KnownOnline(l) <=> This'.v # "off")
  PROVE  OnlineIsKnown'
  <1>1. ASSUME NEW i \in 1 .. Len(todo') + 1, Known(i)'
        PROVE  i > Len(calls)
    <2>1. \A k \in 1 .. Len(calls) : k \in 1 .. Len(todo') /\ todo'[k] = calls[k]
      BY DEF Replaced
    <2>2. ASSUME i <= Len(calls)
          PROVE  FALSE
      <3>1. i \in 1 .. Len(calls) /\ i # Len(todo') + 1
        BY <2>2 DEF Replaced
      <3>2. calls[i].op = "set_service_state"
        BY <1>1, <2>1, <3>1 DEF Known
      <3> QED
        BY <3>1, <3>2
    <2> QED
      BY <2>2 DEF Replaced
  <1>2. ASSUME NEW i \in 1 .. Len(todo') + 1, Known(i)'
        PROVE  /\ \A j \in 1 .. Len(todo') : LastWrite(j, i)' => (KnownOnline(i)' <=> todo'[j].v # "off")
               /\ (\A k \in 1 .. Len(todo') : k < i => ~SetsOnline(todo'[k])) =>
                    /\ is_online' <=> KnownOnline(i)'
                    /\ Calling("set_engine_state")' => (KnownOnline(i)' <=> This'.v # "off")
    BY <1>1, <1>2, KnownBelow
  <1> QED
    BY <1>2 DEF OnlineIsKnown, SetsOnline

\* What is known of is_online stays true, whatever call is made.
LEMMA KnownDispatch ==
  ASSUME TypeOK, StackInv, AgreesSoon, TracksWhileOn, OnlineIsKnown, Dispatch
  PROVE  OnlineIsKnown'
  <1>1. CASE ~Loud
    <2>1. PICK calls : Replaced(calls) /\ Quiet(calls)
      BY <1>1, QuietDispatch
    <2>2. /\ todo[1].op \notin {"service_slot", "set_is_online", "set_engine_state"}
          /\ \A i \in 1 .. Len(calls) : calls[i].op \notin Mirroring \union {"set_engine_state"}
          /\ UNCHANGED <<is_online, requested>>
      BY <2>1 DEF Quiet, Mirroring
    <2> QED
      BY <2>1, <2>2, KnownStep
  <1>2. CASE PersistEngineState
    <2>1. Replaced(<<>>) /\ todo[1].op = "persist"
      BY <1>2, PersistStep, CallFields
    <2>2. UNCHANGED <<is_online, requested>>
      BY <1>2 DEF PersistEngineState, serviceVars, clientVars
    <2> QED
      BY <2>1, <2>2, KnownStep
  <1>3. CASE SetServiceState
    <2>1. Replaced(<<>>) /\ todo[1].op = "set_service_state"
      BY <1>3, SetServiceStep, CallFields
    <2>2. UNCHANGED <<is_online, requested>>
      BY <1>3 DEF SetServiceState, clientVars
    <2> QED
      BY <2>1, <2>2, KnownStep
  <1>4. CASE TrackState
    <2>1. PICK v \in {"active", "on"} :
            /\ todo[1].op = "track"
            /\ Replaced(<<>>) \/ Replaced(<<Call("set_engine_state", 0, 0, v)>>)
      BY <1>4, TrackStep, CallFields
    <2>2. UNCHANGED <<is_online, requested>>
      BY <1>4 DEF TrackState, serviceVars, clientVars
    <2>3. CASE Replaced(<<>>)
      BY <2>1, <2>2, <2>3, KnownStep
    <2> DEFINE calls == <<Call("set_engine_state", 0, 0, v)>>
    <2>4. CASE Replaced(calls)
      <3>1. Len(calls) = 1 /\ calls[1].op = "set_engine_state" /\ calls[1].v = v
        BY CallFields
      <3> HIDE DEF calls
      <3>2. This' = calls[1]
        BY <2>4, <3>1, NewHead
      <3>3. ASSUME NEW l \in 2 .. Len(todo) + 1, Known(l),
                   \A k \in Positions : 1 < k /\ k < l => ~SetsOnline(todo[k])
            PROVE  is_online /\ KnownOnline(l)
        <4>1. \A k \in Positions : k < l => ~SetsOnline(todo[k])
          BY <2>1, <3>3 DEF SetsOnline
        <4>2. Len(todo) \in Nat /\ l \in 1 .. Len(todo) + 1
          BY <2>4 DEF Replaced
        <4>5. Calling("track") /\ ~Calling("set_engine_state")
          <5> HIDE DEF Calling
          <5> QED
            BY <2>1, <2>4, HeadIs
        <4>3. \A j \in Positions : FirstMirror(j) => todo[j].op = "set_service_state"
          BY <3>3, <4>1, <4>2, KnownFirst
        <4>4. engine_state # "off" /\ Agreed
          BY <4>3, <4>5 DEF TracksWhileOn, AgreesSoon
        <4> QED
          BY <3>3, <4>1, <4>2, <4>4 DEF OnlineIsKnown, Agreed
      <3> QED
        BY <2>1, <2>2, <2>4, <3>1, <3>2, <3>3, KnownAbove
    <2> QED
      BY <2>1, <2>3, <2>4
  <1>5. CASE SetEngineState
    <2>1. PICK v \in Status :
            /\ todo[1] = Call("set_engine_state", 0, 0, v)
            /\ \/ engine_state = v /\ Replaced(<<>>)
               \/ Replaced(<<Call("engine_slot", 0, 0, v), Call("persist", 0, 0, v),
                             Call("service_slot", 0, 0, v)>>)
      BY <1>5, SetEngineStep
    <2>2. UNCHANGED <<is_online, requested>>
      BY <1>5 DEF SetEngineState, serviceVars, clientVars
    <2>3. /\ todo[1].op = "set_engine_state" /\ todo[1].v = v
          /\ This = todo[1] /\ Calling("set_engine_state") /\ Len(todo) \in Nat
      <3>1. todo[1].op = "set_engine_state" /\ todo[1].v = v
        BY <2>1, CallFields
      <3>2. \E calls : Replaced(calls)
        BY <2>1
      <3> QED
        BY <3>1, <3>2, HeadIs DEF Replaced
    <2>4. ASSUME NEW l \in 2 .. Len(todo) + 1, Known(l),
                 \A k \in Positions : 1 < k /\ k < l => ~SetsOnline(todo[k])
          PROVE  /\ is_online <=> KnownOnline(l)
                 /\ KnownOnline(l) <=> v # "off"
      <3>1. \A k \in Positions : k < l => ~SetsOnline(todo[k])
        BY <2>3, <2>4 DEF SetsOnline
      <3> QED
        BY <2>3, <2>4, <3>1 DEF OnlineIsKnown
    <2>5. CASE Replaced(<<>>)
      <3>1. ~Calling("set_engine_state")'
        BY <2>5, NoNewHead DEF Immediate
      <3> QED
        BY <2>2, <2>4, <2>5, <3>1, KnownAbove
    <2> DEFINE calls == <<Call("engine_slot", 0, 0, v), Call("persist", 0, 0, v),
                          Call("service_slot", 0, 0, v)>>
    <2>6. CASE Replaced(calls)
      <3>1. /\ Len(calls) = 3 /\ calls[3].v = v
            /\ calls[1].op = "engine_slot" /\ calls[2].op = "persist" /\ calls[3].op = "service_slot"
        BY CallFields
      <3> HIDE DEF calls
      <3>2. \A i \in 1 .. Len(calls) :
              calls[i].op # "set_service_state" /\ (SetsOnline(calls[i]) <=> i = 3)
        BY <3>1 DEF SetsOnline
      <3>3. ASSUME NEW l \in 2 .. Len(todo) + 1, Known(l),
                   \A k \in Positions : 1 < k /\ k < l => ~SetsOnline(todo[k])
            PROVE  /\ \A j \in 1 .. Len(calls) : SetsOnline(calls[j]) => (KnownOnline(l) <=> calls[j].v # "off")
                   /\ ~(\A k \in 1 .. Len(calls) : ~SetsOnline(calls[k]))
        BY <2>4, <3>1, <3>2, <3>3
      <3> QED
        BY <2>2, <2>6, <3>2, <3>3, KnownAbove
    <2> QED
      BY <2>1, <2>5, <2>6
  <1>6. CASE SetIsOnline
    <2>1. PICK v \in OnOff :
            /\ todo[1] = Call("set_is_online", 0, 0, v)
            /\ is_online' = (v = "on")
            /\ Replaced(<<>>) \/ Replaced(<<Call("set_engine_state", 0, 0, v)>>)
      BY <1>6, SetOnlineStep
    <2>2. requested' = requested
      BY <1>6 DEF SetIsOnline, clientVars
    <2>3. todo[1].op = "set_is_online" /\ todo[1].v = v /\ Len(todo) \in Nat /\ Len(todo) > 0
      BY <2>1, CallFields DEF Replaced
    <2>4. ASSUME NEW l \in 2 .. Len(todo) + 1, Known(l),
                 \A k \in Positions : 1 < k /\ k < l => ~SetsOnline(todo[k])
          PROVE  /\ KnownOnline(l) <=> v # "off"
                 /\ KnownOnline(l) <=> is_online'
      <3>1. LastWrite(1, l)
        BY <2>3, <2>4 DEF LastWrite, SetsOnline
      <3>2. KnownOnline(l) <=> todo[1].v # "off"
        BY <2>3, <2>4, <3>1 DEF OnlineIsKnown
      <3> QED
        BY <2>1, <2>3, <3>2 DEF OnOff
    <2>5. CASE Replaced(<<>>)
      <3>1. ~Calling("set_engine_state")'
        BY <2>5, NoNewHead DEF Immediate
      <3> QED
        BY <2>2, <2>4, <2>5, <3>1, KnownAbove
    <2> DEFINE calls == <<Call("set_engine_state", 0, 0, v)>>
    <2>6. CASE Replaced(calls)
      <3>1. Len(calls) = 1 /\ calls[1].op = "set_engine_state" /\ calls[1].v = v
        BY CallFields
      <3> HIDE DEF calls
      <3>2. This' = calls[1]
        BY <2>6, <3>1, NewHead
      <3>3. \A i \in 1 .. Len(calls) : calls[i].op # "set_service_state" /\ ~SetsOnline(calls[i])
        BY <3>1 DEF SetsOnline
      <3>4. ASSUME NEW l \in 2 .. Len(todo) + 1, Known(l),
                   \A k \in Positions : 1 < k /\ k < l => ~SetsOnline(todo[k])
            PROVE  (is_online' <=> KnownOnline(l)) /\ (KnownOnline(l) <=> This'.v # "off")
        BY <2>4, <3>1, <3>2, <3>4
      <3> QED
        BY <2>2, <2>6, <3>3, <3>4, KnownAbove
    <2> QED
      BY <2>1, <2>5, <2>6
  <1>7. CASE ServiceSlot
    <2>1. PICK v \in Status :
            todo[1] = Call("service_slot", 0, 0, v) /\ Replaced(MirrorOf(v))
      BY <1>7, ServiceSlotStep
    <2>2. requested' = requested
      BY <1>7 DEF ServiceSlot, clientVars
    <2>3. todo[1].op = "service_slot" /\ todo[1].v = v /\ Len(todo) \in Nat /\ Len(todo) > 0
      BY <2>1, CallFields DEF Replaced
    <2> DEFINE calls == MirrorOf(v)
    <2>4. /\ Len(calls) = 2
          /\ calls[1].op = "set_is_online" /\ (calls[1].v # "off" <=> v # "off")
          /\ calls[2].op = "set_service_state" /\ (calls[2].v # "disabled" <=> v # "off")
      <3>1. /\ Len(calls) = 2
            /\ calls[1] = Call("set_is_online", 0, 0, OnOffFor(v))
            /\ calls[2] = Call("set_service_state", 0, 0, ServiceStateFor(v))
        BY DEF MirrorOf
      <3> QED
        BY <3>1, CallFields, Mirrored
    <2> HIDE DEF calls
    <2>5. /\ todo'[1] = calls[1] /\ todo'[2] = calls[2]
          /\ Len(todo') \in Nat /\ 2 \in 1 .. Len(todo')
      BY <2>1, <2>4 DEF Replaced, calls
    <2>6. ASSUME NEW l \in 2 .. Len(todo) + 1, Known(l),
                 \A k \in Positions : 1 < k /\ k < l => ~SetsOnline(todo[k])
          PROVE  KnownOnline(l) <=> v # "off"
      <3>1. LastWrite(1, l)
        BY <2>3, <2>6 DEF LastWrite, SetsOnline
      <3> QED
        BY <2>3, <2>6, <3>1 DEF OnlineIsKnown
    <2>7. ASSUME NEW l \in 2 .. Len(todo) + 1, Known(l),
                 \A k \in Positions : 1 < k /\ k < l => ~SetsOnline(todo[k])
          PROVE  /\ \A j \in 1 .. Len(calls) :
                      SetsOnline(calls[j]) /\ (\A k \in 1 .. Len(calls) : j < k => ~SetsOnline(calls[k]))
                        => (KnownOnline(l) <=> calls[j].v # "off")
                 /\ ~(\A k \in 1 .. Len(calls) : ~SetsOnline(calls[k]))
      BY <2>4, <2>6, <2>7 DEF SetsOnline
    <2>8. ASSUME NEW i \in 1 .. Len(todo') + 1, Known(i)'
          PROVE  /\ \A j \in 1 .. Len(todo') : LastWrite(j, i)' => (KnownOnline(i)' <=> todo'[j].v # "off")
                 /\ (\A k \in 1 .. Len(todo') : k < i => ~SetsOnline(todo'[k])) =>
                      /\ is_online' <=> KnownOnline(i)'
                      /\ Calling("set_engine_state")' => (KnownOnline(i)' <=> This'.v # "off")
      <3>1. CASE i > 2
        BY <2>1, <2>2, <2>4, <2>7, <2>8, <3>1, KnownBelow DEF calls
      <3>2. CASE i = 2
        <4>1. KnownOnline(i)' <=> v # "off"
          BY <2>4, <2>5, <3>2 DEF KnownOnline
        <4>2. \A j \in 1 .. Len(todo') : LastWrite(j, i)' => j = 1
          BY <2>5, <3>2 DEF LastWrite
        <4>3. 1 \in 1 .. Len(todo') /\ SetsOnline(todo'[1])
          BY <2>4, <2>5 DEF SetsOnline
        <4> QED
          BY <2>4, <2>5, <3>2, <4>1, <4>2, <4>3
      <3>3. i # 1
        BY <2>4, <2>5, <2>8 DEF Known
      <3> QED
        BY <3>1, <3>2, <3>3
    <2> QED
      BY <2>8 DEF OnlineIsKnown, SetsOnline
  <1> QED
    BY <1>1, <1>2, <1>3, <1>4, <1>5, <1>6, <1>7 DEF Loud

-----------------------------------------------------------------------------
(* Providers refuse while the engine, or satellite based positioning, is off. *)

\* A step that leaves the engine's state alone and no provider enabled.
LEMMA OffStep ==
  ASSUME NEW calls, Replaced(calls), OffRefusesSoon, engine_state' = engine_state,
         todo[1].op \notin Mirroring,
         \A i \in 1 .. Len(calls) : calls[i].op \notin Mirroring,
         engine_state = "off" => \A p \in Providers :
           /\ Refuses(p) => Refuses(p)'
           /\ Disables(todo[1], p) => \/ Refuses(p)'
                                      \/ \E i \in 1 .. Len(calls) : Disables(calls[i], p)
  PROVE  OffRefusesSoon'
  <1> SUFFICES ASSUME engine_state = "off", NEW p \in Providers, ~Refuses(p)'
               PROVE  \E i, j \in 1 .. Len(todo') :
                        /\ i < j /\ Disables(todo'[i], p)
                        /\ FirstMirror(j)' /\ todo'[j].op = "service_slot"
    BY DEF OffRefusesSoon, Disables
  <1>1. PICK i \in Positions, j \in Positions :
          i < j /\ Disables(todo[i], p) /\ FirstMirror(j) /\ todo[j].op = "service_slot"
    BY DEF OffRefusesSoon
  <1> DEFINE n == j + Len(calls) - 1
  <1>2. n \in 1 .. Len(todo') /\ FirstMirror(n)' /\ todo'[n] = todo[j]
    BY <1>1, FirstMirrorMoves
  <1>3. CASE i = 1
    <2>1. PICK k \in 1 .. Len(calls) : Disables(calls[k], p)
      BY <1>1, <1>3
    <2>2. Len(calls) \in Nat /\ j > 1
      BY <1>1, <1>3 DEF Replaced
    <2>3. k < n
      BY <2>2
    <2>4. k \in 1 .. Len(todo') /\ todo'[k] = calls[k]
      BY <1>2, <2>3 DEF Replaced
    <2> QED
      BY <1>1, <1>2, <2>1, <2>3, <2>4
  <1>4. CASE i > 1
    <2> DEFINE k == i + Len(calls) - 1
    <2>1. k \in 1 .. Len(todo') /\ todo'[k] = todo[i]
      BY <1>4 DEF Replaced
    <2>2. Len(calls) \in Nat /\ i \in Int /\ j \in Int
      BY DEF Replaced, Positions
    <2>3. k < n
      BY <1>1, <2>2
    <2> QED
      BY <1>1, <1>2, <2>1, <2>3
  <1> QED
    BY <1>3, <1>4

\* What SatelliteRefusesSoon says of some of the satellite providers.
RefuseIn(S) == \A p \in S : RefusesSoon(p)

\* A step that leaves the use of satellites alone and no provider enabled.
LEMMA SatelliteStep ==
  ASSUME NEW S \in SUBSET Satellite, RefuseIn(S), NEW calls, Replaced(calls),
         satellite_state' = satellite_state,
         satellite_state = "off" => \A p \in S :
           /\ Refuses(p) => Refuses(p)'
           /\ DisablesSatellite(todo[1], p) =>
                \/ Refuses(p)'
                \/ \E i \in 1 .. Len(calls) : DisablesSatellite(calls[i], p)
  PROVE  RefuseIn(S)'
  <1> SUFFICES ASSUME satellite_state = "off", NEW p \in S, ~Refuses(p)'
               PROVE  \E i \in 1 .. Len(todo') : DisablesSatellite(todo'[i], p)
    BY DEF RefuseIn, RefusesSoon, DisablesSatellite
  <1>1. PICK i \in Positions : DisablesSatellite(todo[i], p)
    BY DEF RefuseIn, RefusesSoon
  <1>2. CASE i = 1
    <2>1. PICK k \in 1 .. Len(calls) : DisablesSatellite(calls[k], p)
      BY <1>1, <1>2
    <2>2. k \in 1 .. Len(todo') /\ todo'[k] = calls[k]
      BY DEF Replaced
    <2> QED
      BY <2>1, <2>2
  <1>3. CASE i > 1
    <2> DEFINE k == i + Len(calls) - 1
    <2>1. k \in 1 .. Len(todo') /\ todo'[k] = todo[i]
      BY <1>3 DEF Replaced
    <2> QED
      BY <1>1, <2>1
  <1> QED
    BY <1>2, <1>3

\* A refusing provider goes on refusing, whatever is started or stopped.
LEMMA CountingRefuses ==
  ASSUME TypeOK, NEW p \in Providers, NEW f \in Features,
         \/ counter' = [counter EXCEPT ![p][f] = Incremented(@)]
         \/ counter' = [counter EXCEPT ![p][f] = Decremented(@)]
  PROVE  \A q \in Providers : Refuses(q) => Refuses(q)'
  <1> SUFFICES ASSUME NEW q \in Providers, NEW g \in Features, counter[q][g] < 0
               PROVE  counter'[q][g] < 0
    BY DEF Refuses
  <1>1. counter \in [Providers -> [Features -> Int]] /\ counter[q][g] \in Int
    BY DEF TypeOK
  <1>2. Incremented(counter[q][g]) < 0 /\ Decremented(counter[q][g]) < 0
    BY <1>1 DEF Incremented, Decremented
  <1>3. \/ counter'[q][g] = counter[q][g]
        \/ counter'[q][g] \in {Incremented(counter[q][g]), Decremented(counter[q][g])}
    BY <1>1
  <1> QED
    BY <1>2, <1>3

\* A provider marked as disabled refuses every start.
LEMMA MarkRefuses ==
  ASSUME TypeOK, NEW p \in Providers, counter' = [counter EXCEPT ![p] = [f \in Features |-> -1]]
  PROVE  Refuses(p)' /\ \A q \in Providers : Refuses(q) => Refuses(q)'
  BY DEF TypeOK, Refuses

\* Enabling a provider leaves the others refusing.
LEMMA EnableRefuses ==
  ASSUME TypeOK, NEW p \in Providers, counter' = [counter EXCEPT ![p] = [f \in Features |-> 0]]
  PROVE  \A q \in Providers : q # p /\ Refuses(q) => Refuses(q)'
  BY DEF TypeOK, Refuses

\* Every call replaces the head of the stack.
LEMMA DispatchReplaces ==
  ASSUME TypeOK, Dispatch
  PROVE  \E calls : Replaced(calls)
  BY DispatchFits

\* Starts and stops leave refusing providers refusing.
LEMMA CountedRefuses ==
  ASSUME TypeOK, StartUpdates \/ StopUpdates
  PROVE  /\ todo[1].op \in {"start", "stop"}
         /\ \A q \in Providers : Refuses(q) => Refuses(q)'
  <1>1. CASE StartUpdates
    <2>1. PICK p \in Providers, f \in Features :
            /\ todo[1] = Call("start", p, f, "-")
            /\ counter' = [counter EXCEPT ![p][f] = Incremented(@)]
      BY <1>1, StartStep
    <2>2. \A q \in Providers : Refuses(q) => Refuses(q)'
      BY <2>1, CountingRefuses
    <2>3. todo[1].op \in {"start", "stop"}
      BY <2>1, CallFields
    <2> QED
      BY <2>2, <2>3
  <1>2. CASE StopUpdates
    <2>1. PICK p \in Providers, f \in Features :
            /\ todo[1] = Call("stop", p, f, "-")
            /\ counter' = [counter EXCEPT ![p][f] = Decremented(@)]
      BY <1>2, StopStep
    <2>2. \A q \in Providers : Refuses(q) => Refuses(q)'
      BY <2>1, CountingRefuses
    <2>3. todo[1].op \in {"start", "stop"}
      BY <2>1, CallFields
    <2> QED
      BY <2>2, <2>3
  <1> QED
    BY <1>1, <1>2

\* While the engine is off a provider goes on refusing or about to be disabled.
LEMMA OffDispatch ==
  ASSUME TypeOK, StackInv, SlotsAreCurrent, OffRefusesSoon, Dispatch
  PROVE  OffRefusesSoon'
  <1>1. CASE StartUpdates \/ StopUpdates
    <2>1. ~Loud
      BY <1>1 DEF Loud, StartUpdates, StopUpdates, TrackState, SetEngineState,
          PersistEngineState,
                  SetIsOnline, ServiceSlot, SetServiceState, Calling
    <2>2. PICK calls : Replaced(calls) /\ Quiet(calls)
      BY <2>1, QuietDispatch
    <2>3. \A p \in Providers : ~Disables(todo[1], p) /\ (Refuses(p) => Refuses(p)')
      BY <1>1, CountedRefuses DEF Disables
    <2> QED
      BY <2>2, <2>3, OffStep DEF Quiet
  <1>2. CASE EnableProvider
    <2>1. engine_state = "on" /\ engine_state' = engine_state
      <3>1. CASE Calling("enable")
        <4>1. Replaced(<<>>)
          BY <1>2, EnableStep
        <4>2. 1 \in Positions /\ This = todo[1]
          <5>1. This = todo[1]
            BY <4>1, HeadIs
          <5> QED
            BY <4>1, <5>1 DEF Replaced
        <4>3. todo[1].op = "enable"
          BY <3>1, <4>2 DEF Calling, This
        <4> QED
          BY <1>2, <4>2, <4>3 DEF SlotsAreCurrent, IsCurrent, EnableProvider, configVars
      <3> QED
        BY <1>2, <3>1 DEF EnableProvider, configVars
    <2> QED
      BY <2>1 DEF OffRefusesSoon
  <1>3. CASE DisableProvider
    <2>1. PICK p \in Providers, calls \in Seq(Calls) :
            /\ todo[1].op \in {"disable", "disable_satellite"} /\ todo[1].p = p
            /\ Replaced(calls)
            /\ Len(calls) = NFeatures + 1
            /\ \A f \in 1 .. NFeatures : calls[f] = Call("stop_if_counted", p, f, "-")
            /\ calls[NFeatures + 1] = Call("mark_disabled", p, 0, "-")
      BY <1>3, DisableStep
    <2>2. NFeatures + 1 \in 1 .. Len(calls) /\ Disables(calls[NFeatures + 1], p)
      BY <2>1, CallFields, EngineAssumption DEF Disables
    <2>3. \A i \in 1 .. Len(calls) : calls[i].op \notin Mirroring
      <3>1. \A i \in 1 .. Len(calls) : i \in 1 .. NFeatures \/ i = NFeatures + 1
        BY <2>1, EngineAssumption
      <3> QED
        BY <2>1, <3>1, CallFields DEF Mirroring
    <2>4. \A q \in Providers : Disables(todo[1], q) => Disables(calls[NFeatures + 1], q)
      BY <2>1, <2>2 DEF Disables
    <2>5. engine_state' = engine_state /\ counter' = counter
      BY <1>3 DEF DisableProvider, configVars, providerVars
    <2> QED
      BY <2>1, <2>2, <2>3, <2>4, <2>5, OffStep DEF Mirroring, Refuses
  <1>4. CASE MarkDisabled
    <2>1. PICK p \in Providers :
            /\ todo[1] = Call("mark_disabled", p, 0, "-")
            /\ counter' = [counter EXCEPT ![p] = [f \in Features |-> -1]]
            /\ Replaced(<<>>)
      BY <1>4, MarkStep
    <2>2. todo[1].op = "mark_disabled" /\ todo[1].p = p
      BY <2>1, CallFields
    <2>3. Refuses(p)' /\ \A q \in Providers : Refuses(q) => Refuses(q)'
      BY <2>1, MarkRefuses
    <2>4. engine_state' = engine_state
      BY <1>4 DEF MarkDisabled, configVars
    <2>5. \A q \in Providers : Disables(todo[1], q) => q = p
      BY <2>2 DEF Disables
    <2> QED
      BY <2>1, <2>2, <2>3, <2>4, <2>5, OffStep DEF Mirroring
  <1>5. CASE EngineSlot
    <2>1. PICK v \in Status, calls \in Seq(Calls) :
            /\ todo[1] = Call("engine_slot", 0, 0, v)
            /\ Replaced(calls)
            /\ v = "active" => calls = <<>>
            /\ v # "active" =>
                 /\ Len(calls) = NProviders
                 /\ \A p \in 1 .. NProviders :
                      calls[p] = Call(IF v = "on" THEN "enable" ELSE "disable", p, 0, "-")
      BY <1>5, EngineSlotStep
    <2>2. todo[1].op = "engine_slot" /\ todo[1].v = v
      BY <2>1, CallFields
    <2>3. \A i \in 1 .. Len(calls) : calls[i].op \in {"enable", "disable"}
      BY <2>1, CallFields
    <2>4. v = "off" => \A p \in Providers : p \in 1 .. Len(calls) /\ Disables(calls[p], p)
      BY <2>1, CallFields DEF Providers, Disables
    <2>5. UNCHANGED <<engine_state, counter>>
      BY <1>5 DEF EngineSlot, configVars, providerVars
    <2>6. \A p \in Providers : Disables(todo[1], p) => v = "off"
      BY <2>2 DEF Disables
    <2> QED
      BY <2>1, <2>2, <2>3, <2>4, <2>5, <2>6, OffStep DEF Mirroring, Refuses
  <1>6. CASE SetEngineState
    <2>1. PICK v \in Status :
            /\ todo[1] = Call("set_engine_state", 0, 0, v)
            /\ engine_state' = v
            /\ \/ engine_state = v /\ Replaced(<<>>)
               \/ Replaced(<<Call("engine_slot", 0, 0, v), Call("persist", 0, 0, v),
                             Call("service_slot", 0, 0, v)>>)
      BY <1>6, SetEngineStep
    <2>2. counter' = counter
      BY <1>6 DEF SetEngineState, providerVars
    <2>3. CASE engine_state = v /\ Replaced(<<>>)
      <3>1. todo[1].op = "set_engine_state"
        BY <2>1, CallFields
      <3>2. \A p \in Providers : ~Disables(todo[1], p)
        BY <3>1 DEF Disables
      <3> QED
        BY <2>1, <2>2, <2>3, <3>1, <3>2, OffStep DEF Mirroring, Refuses
    <2> DEFINE calls == <<Call("engine_slot", 0, 0, v), Call("persist", 0, 0, v),
                          Call("service_slot", 0, 0, v)>>
    <2>4. CASE Replaced(calls)
      <3>1. /\ Len(calls) = 3 /\ calls[1].v = v
            /\ calls[1].op = "engine_slot" /\ calls[2].op = "persist" /\ calls[3].op = "service_slot"
        BY CallFields
      <3> HIDE DEF calls
      <3>2. /\ 1 \in 1 .. Len(todo') /\ 3 \in 1 .. Len(todo') /\ Len(todo') \in Nat
            /\ todo'[1] = calls[1] /\ todo'[2] = calls[2] /\ todo'[3] = calls[3]
        BY <2>4, <3>1 DEF Replaced
      <3>3. FirstMirror(3)'
        BY <3>1, <3>2 DEF FirstMirror, Mirroring
      <3>4. v = "off" => \A p \in Providers : Disables(todo'[1], p)
        BY <3>1, <3>2 DEF Disables
      <3> QED
        BY <2>1, <3>1, <3>2, <3>3, <3>4 DEF OffRefusesSoon, Disables
    <2> QED
      BY <2>1, <2>3, <2>4
  <1>7. CASE SetIsOnline \/ ServiceSlot \/ SetServiceState
    <2>1. /\ todo # <<>> /\ todo[1].op \in Mirroring
      <3>1. PICK calls : Replaced(calls)
        BY DispatchReplaces
      <3>2. Calling("set_is_online") \/ Calling("service_slot") \/ Calling("set_service_state")
        BY <1>7 DEF SetIsOnline, ServiceSlot, SetServiceState
      <3> HIDE DEF Calling
      <3> QED
        BY <3>1, <3>2, HeadIs DEF Mirroring
    <2>2. \A j \in Positions : FirstMirror(j) => j = 1
      BY <2>1, HeadMirrors
    <2>3. UNCHANGED <<engine_state, counter>>
      BY <1>7 DEF SetIsOnline, ServiceSlot, SetServiceState, configVars, providerVars
    <2>4. \A i, j \in Positions : ~(i < j /\ j = 1)
      BY <2>1, LenProperties DEF TypeOK
    <2> QED
      BY <2>2, <2>3, <2>4 DEF OffRefusesSoon, Refuses
  <1> DEFINE Rest == \/ SkipEnable \/ SkipDisable \/ RequiresUnanswered \/ StopIfCounted \/ ImplStart \/ ImplStop
                     \/ SetSatelliteState \/ SatelliteSlot \/ SatelliteMirror \/ SetDoesSatellite
                     \/ StopSession
  <1>8. CASE Rest
    <2>1. \E op \in {"enable", "enable_if_on", "disable_satellite", "stop_if_counted", "impl_start",
                     "impl_stop", "set_satellite_state", "satellite_slot", "satellite_mirror",
                     "set_does_satellite", "session_stop"} : Calling(op)
      BY <1>8 DEF SkipEnable, SkipDisable, RequiresUnanswered, Asks, StopIfCounted, ImplStart, ImplStop,
                  SetSatelliteState, SatelliteSlot, SatelliteMirror, SetDoesSatellite, StopSession
    <2>2. UNCHANGED <<engine_state, counter>>
      BY <1>8 DEF SkipEnable, SkipDisable, RequiresUnanswered, Asks, StopIfCounted, ImplStart, ImplStop,
          SetSatelliteState,
           SatelliteSlot, SatelliteMirror, SetDoesSatellite, StopSession, configVars, providerVars
    <2>3. ~Loud
      BY <2>1 DEF Loud, TrackState, SetEngineState, PersistEngineState,
                  SetIsOnline, ServiceSlot, SetServiceState, Calling
    <2>4. PICK calls : Replaced(calls) /\ Quiet(calls)
      BY <2>3, QuietDispatch
    <2>5. \A p \in Providers : Disables(todo[1], p) => Calling("disable")
      <3> HIDE DEF Calling
      <3>1. \A op : Calling(op) <=> todo[1].op = op
        BY <2>4, HeadIs
      <3> QED
        BY <2>1, <3>1 DEF Disables
    <2>6. \A p \in Providers : ~Disables(todo[1], p)
      BY <2>1, <2>5 DEF Calling
    <2> QED
      BY <2>2, <2>4, <2>6, OffStep DEF Quiet, Refuses
  <1>9. CASE TrackState
    <2>1. PICK v \in {"active", "on"} :
            /\ todo[1].op = "track"
            /\ Replaced(<<>>) \/ Replaced(<<Call("set_engine_state", 0, 0, v)>>)
      BY <1>9, TrackStep, CallFields
    <2>2. UNCHANGED <<engine_state, counter>>
      BY <1>9 DEF TrackState, configVars
    <2>3. \A p \in Providers : ~Disables(todo[1], p)
      BY <2>1 DEF Disables
    <2>4. CASE Replaced(<<>>)
      BY <2>1, <2>2, <2>3, <2>4, OffStep DEF Mirroring, Refuses
    <2>5. CASE Replaced(<<Call("set_engine_state", 0, 0, v)>>)
      <3>1. \A i \in 1 .. 1 : <<Call("set_engine_state", 0, 0, v)>>[i].op \notin Mirroring
        BY CallFields DEF Mirroring
      <3> QED
        BY <2>1, <2>2, <2>3, <2>5, <3>1, OffStep DEF Mirroring, Refuses
    <2> QED
      BY <2>1, <2>4, <2>5
  <1>10. CASE PersistEngineState
    <2>1. Replaced(<<>>) /\ todo[1].op = "persist"
      BY <1>10, PersistStep, CallFields
    <2>2. UNCHANGED <<engine_state, counter>>
      BY <1>10 DEF PersistEngineState, providerVars
    <2>3. \A p \in Providers : ~Disables(todo[1], p)
      BY <2>1 DEF Disables
    <2> QED
      BY <2>1, <2>2, <2>3, OffStep DEF Mirroring, Refuses
  <1> QED
    BY <1>1, <1>2, <1>3, <1>4, <1>5, <1>6, <1>7, <1>8, <1>9, <1>10 DEF Dispatch, Proceed

\* While satellites are off their providers go on refusing or about to be
\* disabled: enable() is not called for them.
LEMMA SatelliteDispatch ==
  ASSUME TypeOK, StackInv, SlotsAreCurrent, NEW S \in SUBSET Satellite, RefuseIn(S),
         Proceed \/ (RequiresUnanswered /\ This.p \notin S)
  PROVE  RefuseIn(S)'
  <1> USE EngineAssumption
  <1>0. Dispatch
    BY DEF Dispatch
  <1>1. CASE StartUpdates \/ StopUpdates
    <2>1. PICK calls : Replaced(calls)
      BY <1>0, DispatchReplaces
    <2>2. satellite_state' = satellite_state
      BY <1>1 DEF StartUpdates, StopUpdates, configVars
    <2>3. \A p \in Providers : ~DisablesSatellite(todo[1], p) /\ (Refuses(p) => Refuses(p)')
      BY <1>1, CountedRefuses DEF DisablesSatellite
    <2> QED
      BY <2>1, <2>2, <2>3, SatelliteStep
  <1>2. CASE EnableProvider
    <2>1. PICK p \in Providers :
           /\ \/ todo[1] = Call("enable", p, 0, "-") /\ ~(p \in Satellite /\ satellite_state = "off")
              \/ todo[1] = Call("enable_if_on", p, 0, "-")
           /\ counter' = [counter EXCEPT ![p] = [f \in Features |-> 0]]
           /\ Replaced(<<>>)
      BY <1>2, EnableStep
    <2>2. /\ todo[1].op \in {"enable", "enable_if_on"}
          /\ todo[1].op = "enable" => ~(p \in Satellite /\ satellite_state = "off")
      BY <2>1, CallFields
    <2>3. ~(p \in Satellite /\ satellite_state = "off")
      <3>1. 1 \in Positions
        BY <2>1 DEF Replaced
      <3> QED
        BY <2>2, <3>1 DEF SlotsAreCurrent, IsCurrent
    <2>4. \A q \in Providers : q # p /\ Refuses(q) => Refuses(q)'
      BY <2>1, EnableRefuses
    <2>5. \A q \in Providers : ~DisablesSatellite(todo[1], q)
      BY <2>2 DEF DisablesSatellite
    <2>6. satellite_state' = satellite_state
      BY <1>2 DEF EnableProvider, configVars
    <2> QED
      BY <2>1, <2>3, <2>4, <2>5, <2>6, SatelliteStep
  <1>3. CASE DisableProvider
    <2>1. PICK p \in Providers, calls \in Seq(Calls) :
            /\ todo[1].op \in {"disable", "disable_satellite"} /\ todo[1].p = p
            /\ Replaced(calls)
            /\ Len(calls) = NFeatures + 1
            /\ calls[NFeatures + 1] = Call("mark_disabled", p, 0, "-")
      BY <1>3, DisableStep
    <2>2. NFeatures + 1 \in 1 .. Len(calls) /\ DisablesSatellite(calls[NFeatures + 1], p)
      BY <2>1, CallFields DEF DisablesSatellite
    <2>3. \A q \in Providers : DisablesSatellite(todo[1], q) => q = p
      BY <2>1 DEF DisablesSatellite
    <2>4. satellite_state' = satellite_state /\ counter' = counter
      BY <1>3 DEF DisableProvider, configVars, providerVars
    <2> QED
      BY <2>1, <2>2, <2>3, <2>4, SatelliteStep DEF Refuses
  <1>4. CASE MarkDisabled
    <2>1. PICK p \in Providers :
            /\ todo[1] = Call("mark_disabled", p, 0, "-")
            /\ counter' = [counter EXCEPT ![p] = [f \in Features |-> -1]]
            /\ Replaced(<<>>)
      BY <1>4, MarkStep
    <2>2. todo[1].op = "mark_disabled" /\ todo[1].p = p
      BY <2>1, CallFields
    <2>3. Refuses(p)' /\ \A q \in Providers : Refuses(q) => Refuses(q)'
      BY <2>1, MarkRefuses
    <2>4. satellite_state' = satellite_state
      BY <1>4 DEF MarkDisabled, configVars
    <2>5. \A q \in Providers : DisablesSatellite(todo[1], q) => q = p
      BY <2>2 DEF DisablesSatellite
    <2> QED
      BY <2>1, <2>3, <2>4, <2>5, SatelliteStep
  <1>5. CASE SkipDisable
    <2>1. /\ todo[1].op \in {"enable", "enable_if_on", "disable_satellite"}
          /\ todo[1].op = "disable_satellite" => todo[1].p \notin Satellite
          /\ Replaced(<<>>)
      BY <1>5, SkipStep
    <2>2. \A q \in Satellite : ~DisablesSatellite(todo[1], q)
      BY <2>1 DEF DisablesSatellite
    <2>3. satellite_state' = satellite_state /\ counter' = counter
      BY <1>5 DEF SkipDisable, configVars, providerVars
    <2> QED
      BY <2>1, <2>2, <2>3, SatelliteStep DEF Refuses
  <1>6. CASE SetSatelliteState
    <2>1. PICK v \in OnOff :
            /\ todo[1] = Call("set_satellite_state", 0, 0, v)
            /\ satellite_state' = v
            /\ \/ satellite_state = v /\ Replaced(<<>>)
               \/ Replaced(<<Call("satellite_slot", 0, 0, v), Call("satellite_mirror", 0, 0, v)>>)
      BY <1>6, SetSatelliteStep
    <2>2. counter' = counter
      BY <1>6 DEF SetSatelliteState, providerVars
    <2>3. CASE satellite_state = v /\ Replaced(<<>>)
      <3>1. todo[1].op = "set_satellite_state"
        BY <2>1, CallFields
      <3>2. \A p \in Providers : ~DisablesSatellite(todo[1], p)
        BY <3>1 DEF DisablesSatellite
      <3> QED
        BY <2>1, <2>2, <2>3, <3>2, SatelliteStep DEF Refuses
    <2> DEFINE calls == <<Call("satellite_slot", 0, 0, v), Call("satellite_mirror", 0, 0, v)>>
    <2>4. CASE Replaced(calls)
      <3>1. Len(calls) = 2 /\ calls[1].op = "satellite_slot" /\ calls[1].v = v
        BY CallFields
      <3> HIDE DEF calls
      <3>2. 1 \in 1 .. Len(todo') /\ todo'[1] = calls[1]
        BY <2>4, <3>1 DEF Replaced
      <3>3. v = "off" => \A p \in Providers : DisablesSatellite(todo'[1], p)
        BY <3>1, <3>2 DEF DisablesSatellite
      <3> QED
        BY <2>1, <3>2, <3>3 DEF RefuseIn, RefusesSoon, DisablesSatellite
    <2> QED
      BY <2>1, <2>3, <2>4
  <1>7. CASE SatelliteSlot
    <2>1. PICK v \in OnOff, calls \in Seq(Calls) :
            /\ todo[1] = Call("satellite_slot", 0, 0, v)
            /\ Replaced(calls)
            /\ Len(calls) = NProviders
            /\ \A p \in 1 .. NProviders :
                 calls[p] = Call(IF v = "on" THEN "enable_if_on" ELSE "disable_satellite", p, 0, "-")
      BY <1>7, SatelliteSlotStep
    <2>2. todo[1].op = "satellite_slot" /\ todo[1].v = v
      BY <2>1, CallFields
    <2>3. v = "off" => \A p \in Providers : p \in 1 .. Len(calls) /\ DisablesSatellite(calls[p], p)
      BY <2>1, CallFields DEF Providers, DisablesSatellite
    <2>4. UNCHANGED <<satellite_state, counter>>
      BY <1>7 DEF SatelliteSlot, configVars, providerVars
    <2>5. \A p \in Providers : DisablesSatellite(todo[1], p) => v = "off"
      BY <2>2 DEF DisablesSatellite
    <2> QED
      BY <2>1, <2>3, <2>4, <2>5, SatelliteStep DEF Refuses
  <1> DEFINE Rest == \/ SkipEnable \/ StopIfCounted \/ ImplStart \/ ImplStop \/ TrackState
                     \/ SetEngineState \/ EngineSlot \/ PersistEngineState
                     \/ SatelliteMirror \/ SetIsOnline \/ SetDoesSatellite
                     \/ ServiceSlot \/ SetServiceState \/ StopSession
  <1>8. CASE Rest
    <2>1. \E op \in {"enable", "enable_if_on", "stop_if_counted", "impl_start", "impl_stop",
                     "track", "set_engine_state", "engine_slot", "persist", "satellite_mirror",
                     "set_is_online", "set_does_satellite", "service_slot", "set_service_state",
                     "session_stop"} : Calling(op)
      BY <1>8 DEF SkipEnable, StopIfCounted, ImplStart, ImplStop, TrackState,
          SetEngineState,
           EngineSlot, PersistEngineState, SatelliteMirror, SetIsOnline, SetDoesSatellite,
           ServiceSlot, SetServiceState, StopSession
    <2>2. UNCHANGED <<satellite_state, counter>>
      BY <1>8 DEF SkipEnable, StopIfCounted, ImplStart, ImplStop, TrackState,
          SetEngineState,
           EngineSlot, PersistEngineState, SatelliteMirror, SetIsOnline, SetDoesSatellite,
           ServiceSlot, SetServiceState, StopSession, configVars, providerVars
    <2>3. PICK calls : Replaced(calls)
      BY <1>0, DispatchReplaces
    <2>4. \A p \in Providers : ~DisablesSatellite(todo[1], p)
      <3>1. PICK op \in {"enable", "enable_if_on", "stop_if_counted", "impl_start", "impl_stop",
                     "track", "set_engine_state", "engine_slot", "persist", "satellite_mirror",
                     "set_is_online", "set_does_satellite", "service_slot", "set_service_state",
                     "session_stop"} : Calling(op)
        BY <2>1
      <3>2. todo[1].op = op
        <4> HIDE DEF Calling
        <4> QED
          BY <2>3, <3>1, HeadIs
      <3> QED
        BY <3>2 DEF DisablesSatellite
    <2> QED
      BY <2>2, <2>3, <2>4, SatelliteStep DEF Refuses
  <1>9. CASE RequiresUnanswered /\ This.p \notin S
    <2>1. todo[1].p \notin S /\ Replaced(<<>>) /\ todo[1].op \notin {"satellite_slot", "engine_slot"}
      BY <1>9, UnansweredStep
    <2>2. \A q \in S : ~DisablesSatellite(todo[1], q)
      BY <2>1 DEF DisablesSatellite
    <2>3. satellite_state' = satellite_state /\ counter' = counter
      BY <1>9 DEF RequiresUnanswered, configVars, providerVars
    <2> QED
      BY <2>1, <2>2, <2>3, SatelliteStep DEF Refuses
  <1> QED
    BY <1>1, <1>2, <1>3, <1>4, <1>5, <1>6, <1>7, <1>8, <1>9 DEF Proceed

\* A step that pushes no report of the engine's state and leaves it alone.
LEMMA ActiveStep ==
  ASSUME TypeOK, StackInv, ActiveIsTracked, NEW calls, Replaced(calls),
         UNCHANGED <<engine_state, tracked>>,
         todo[1].op # "set_engine_state",
         \A i \in 1 .. Len(calls) : calls[i].op = "set_engine_state" => calls[i].v # "active"
  PROVE  ActiveIsTracked'
  <1>1. ~Calling("set_engine_state")
    BY HeadIs
  <1>2. Calling("set_engine_state")' => This'.v # "active"
    <2>1. CASE Len(calls) > 0
      <3>1. This' = calls[1] /\ (Calling("set_engine_state")' <=> calls[1].op = "set_engine_state")
        BY <2>1, NewHead
      <3>2. 1 \in 1 .. Len(calls)
        BY <2>1 DEF Replaced
      <3> QED
        BY <3>1, <3>2
    <2>2. CASE Len(calls) = 0
      <3>1. ~Calling("set_engine_state")'
        BY <2>2, NoNewHead DEF Immediate
      <3> QED
        BY <3>1
    <2> QED
      BY <2>1, <2>2 DEF Replaced
  <1> QED
    BY <1>1, <1>2 DEF ActiveIsTracked, is_any_active

\* The engine becomes active only while a provider is.
LEMMA ActiveDispatch ==
  ASSUME TypeOK, StackInv, ActiveIsTracked, Dispatch
  PROVE  ActiveIsTracked'
  <1>1. CASE ~Loud
    <2>1. PICK calls : Replaced(calls) /\ Quiet(calls)
      BY <1>1, QuietDispatch
    <2>2. tracked' = tracked
      BY <1>1 DEF Dispatch, Proceed, RequiresUnanswered, Loud, StartUpdates, StopUpdates, EnableProvider, SkipEnable,
           DisableProvider, SkipDisable, StopIfCounted, MarkDisabled, ImplStart, ImplStop,
           EngineSlot, SetSatelliteState, SatelliteSlot, SatelliteMirror, SetDoesSatellite,
           StopSession, providerVars
    <2> QED
      BY <2>1, <2>2, ActiveStep DEF Quiet
  <1>2. CASE PersistEngineState \/ ServiceSlot \/ SetServiceState
    <2>1. PICK calls : /\ Replaced(calls)
                       /\ todo[1].op # "set_engine_state"
                       /\ \A i \in 1 .. Len(calls) : calls[i].op # "set_engine_state"
      <3>1. CASE PersistEngineState
        <4>1. Replaced(<<>>) /\ todo[1].op = "persist"
          BY <3>1, PersistStep, CallFields
        <4> QED
          BY <4>1
      <3>2. CASE SetServiceState
        <4>1. Replaced(<<>>) /\ todo[1].op = "set_service_state"
          BY <3>2, SetServiceStep, CallFields
        <4> QED
          BY <4>1
      <3>3. CASE ServiceSlot
        <4>1. PICK v \in Status :
                todo[1] = Call("service_slot", 0, 0, v) /\ Replaced(MirrorOf(v))
          BY <3>3, ServiceSlotStep
        <4>2. todo[1].op = "service_slot"
          BY <4>1, CallFields
        <4>3. \A i \in 1 .. Len(MirrorOf(v)) : MirrorOf(v)[i].op # "set_engine_state"
          BY CallFields DEF MirrorOf
        <4> QED
          BY <4>1, <4>2, <4>3
      <3> QED
        BY <1>2, <3>1, <3>2, <3>3
    <2>2. UNCHANGED <<engine_state, tracked>>
      BY <1>2 DEF PersistEngineState, ServiceSlot, SetServiceState, configVars,
          providerVars
    <2> QED
      BY <2>1, <2>2, ActiveStep
  <1>3. CASE SetIsOnline
    <2>1. PICK v \in OnOff :
            /\ todo[1] = Call("set_is_online", 0, 0, v)
            /\ Replaced(<<>>) \/ Replaced(<<Call("set_engine_state", 0, 0, v)>>)
      BY <1>3, SetOnlineStep
    <2>2. todo[1].op = "set_is_online"
      BY <2>1, CallFields
    <2>3. UNCHANGED <<engine_state, tracked>>
      BY <1>3 DEF SetIsOnline, configVars, providerVars
    <2>4. CASE Replaced(<<>>)
      BY <2>2, <2>3, <2>4, ActiveStep
    <2>5. CASE Replaced(<<Call("set_engine_state", 0, 0, v)>>)
      <3>1. \A i \in 1 .. 1 : <<Call("set_engine_state", 0, 0, v)>>[i].v # "active"
        BY CallFields DEF OnOff
      <3> QED
        BY <2>2, <2>3, <2>5, <3>1, ActiveStep
    <2> QED
      BY <2>1, <2>4, <2>5
  <1>4. CASE TrackState
    <2>1. PICK p \in Providers, v \in TrackedState :
           /\ todo[1] = Call("track", p, 0, v)
           /\ tracked' = [tracked EXCEPT ![p] = v]
           /\ \/ tracked[p] = v /\ Replaced(<<>>)
              \/ \E s \in {"active", "on"} :
                   /\ s = "active" <=> is_any_active(tracked')
                   /\ Replaced(<<Call("set_engine_state", 0, 0, s)>>)
      BY <1>4, TrackStep
    <2>2. todo[1].op = "track"
      BY <2>1, CallFields
    <2>3. engine_state' = engine_state
      BY <1>4 DEF TrackState, configVars
    <2>4. CASE tracked[p] = v /\ Replaced(<<>>)
      <3>1. tracked' = tracked
        BY <2>1, <2>4 DEF TypeOK
      <3> QED
        BY <2>2, <2>3, <2>4, <3>1, ActiveStep
    <2>5. ASSUME NEW s \in {"active", "on"}, s = "active" <=> is_any_active(tracked'),
                 Replaced(<<Call("set_engine_state", 0, 0, s)>>)
          PROVE  ActiveIsTracked'
      <3>1. todo' # <<>> /\ This' = Call("set_engine_state", 0, 0, s)
        BY <2>5, NewHead
      <3>2. This'.op = "set_engine_state" /\ This'.v = s
        <4> HIDE DEF This
        <4> QED
          BY <3>1, CallFields
      <3> QED
        BY <2>5, <3>1, <3>2 DEF ActiveIsTracked, Calling, This, is_any_active
    <2> QED
      BY <2>1, <2>4, <2>5
  <1>5. CASE SetEngineState
    <2>1. PICK v \in Status :
            /\ todo[1] = Call("set_engine_state", 0, 0, v)
            /\ engine_state' = v
            /\ \/ Replaced(<<>>)
               \/ Replaced(<<Call("engine_slot", 0, 0, v), Call("persist", 0, 0, v),
                             Call("service_slot", 0, 0, v)>>)
      BY <1>5, SetEngineStep
    <2>2. This.v = v /\ Calling("set_engine_state")
      <3>1. todo[1].v = v
        BY <2>1, CallFields
      <3>2. \E calls : Replaced(calls)
        BY <2>1
      <3> QED
        BY <1>5, <3>1, <3>2, HeadIs DEF SetEngineState
    <2>3. tracked' = tracked
      BY <1>5 DEF SetEngineState, providerVars
    <2>4. ~Calling("set_engine_state")'
      <3>1. CASE Replaced(<<>>)
        BY <3>1, NoNewHead DEF Immediate
      <3> DEFINE calls == <<Call("engine_slot", 0, 0, v), Call("persist", 0, 0, v),
                            Call("service_slot", 0, 0, v)>>
      <3>2. CASE Replaced(calls)
        <4>1. Len(calls) = 3 /\ calls[1].op = "engine_slot"
          BY CallFields
        <4> HIDE DEF calls
        <4>2. \A op : Calling(op)' <=> calls[1].op = op
          BY <3>2, <4>1, NewHead
        <4> QED
          BY <4>1, <4>2
      <3> QED
        BY <2>1, <3>1, <3>2
    <2> QED
      BY <2>1, <2>2, <2>3, <2>4 DEF ActiveIsTracked, is_any_active
  <1> QED
    BY <1>1, <1>2, <1>3, <1>4, <1>5 DEF Loud

\* A provider that reports its state was not refusing, and what disabled it
\* since is not done.
LEMMA TracksStep ==
  ASSUME TypeOK, OffRefusesSoon, NEW calls, Replaced(calls), engine_state' = engine_state,
         NEW p \in Providers, ~Refuses(p), todo[1].op \notin Mirroring,
         \A i \in 1 .. Len(calls) : calls[i].op \notin Mirroring
  PROVE  TracksWhileOn'
  <1>1. CASE engine_state = "off"
    <2>1. PICK j \in Positions : FirstMirror(j) /\ todo[j].op = "service_slot"
      BY <1>1 DEF OffRefusesSoon
    <2> DEFINE n == j + Len(calls) - 1
    <2>2. n \in 1 .. Len(todo') /\ FirstMirror(n)' /\ todo'[n].op = "service_slot"
      BY <2>1, FirstMirrorMoves
    <2> QED
      BY <2>2 DEF TracksWhileOn
  <1>2. CASE engine_state # "off"
    BY <1>2 DEF TracksWhileOn
  <1> QED
    BY <1>1, <1>2

(* The counters of provider and implementation. *)

\* The calls that the balance of the two counters depends on.
Counted == {"stop_if_counted", "mark_disabled", "impl_start", "impl_stop"}

\* A step that leaves both counters and those calls alone.
Plain(calls) ==
  /\ todo[1].op \notin Counted
  /\ \A i \in 1 .. Len(calls) : calls[i].op \notin Counted \union {"track"}
  /\ UNCHANGED <<counter, implCounter, hardware>>

MovesCounters == StartUpdates \/ StopUpdates \/ EnableProvider \/ DisableProvider \/ StopIfCounted
              \/ MarkDisabled \/ ImplStart \/ ImplStop

\* A step that moves no counter pushes none of these calls, and no report.
LEMMA PlainDispatch ==
  ASSUME TypeOK, Dispatch, ~MovesCounters
  PROVE  \E calls : Replaced(calls) /\ Plain(calls)
  <1> USE DEF providerVars
  <1>1. CASE SkipEnable \/ SkipDisable \/ RequiresUnanswered
    <2>1. Replaced(<<>>) /\ todo[1].op \notin Counted
      BY <1>1, SkipStep, UnansweredStep DEF Counted
    <2>2. Plain(<<>>)
      BY <1>1, <2>1 DEF SkipEnable, SkipDisable, RequiresUnanswered, Plain
    <2> QED
      BY <2>1, <2>2
  <1>2. CASE TrackState
    <2>1. PICK v \in {"active", "on"} :
            /\ todo[1].op = "track"
            /\ Replaced(<<>>) \/ Replaced(<<Call("set_engine_state", 0, 0, v)>>)
      BY <1>2, TrackStep, CallFields
    <2>2. Plain(<<Call("set_engine_state", 0, 0, v)>>) /\ Plain(<<>>)
      BY <1>2, <2>1 DEF TrackState, Plain, Counted, Call
    <2> QED
      BY <2>1, <2>2
  <1>3. CASE SetEngineState
    <2>1. PICK v \in Status :
            /\ todo[1] = Call("set_engine_state", 0, 0, v)
            /\ \/ Replaced(<<>>)
               \/ Replaced(<<Call("engine_slot", 0, 0, v), Call("persist", 0, 0, v),
                             Call("service_slot", 0, 0, v)>>)
      BY <1>3, SetEngineStep
    <2>2. Plain(<<Call("engine_slot", 0, 0, v), Call("persist", 0, 0, v),
                  Call("service_slot", 0, 0, v)>>) /\ Plain(<<>>)
      BY <1>3, <2>1 DEF SetEngineState, Plain, Counted, Call
    <2> QED
      BY <2>1, <2>2
  <1>4. CASE EngineSlot
    <2>1. PICK v \in Status, calls \in Seq(Calls) :
            /\ todo[1] = Call("engine_slot", 0, 0, v)
            /\ Replaced(calls)
            /\ v = "active" => calls = <<>>
            /\ v # "active" =>
                 /\ Len(calls) = NProviders
                 /\ \A p \in 1 .. NProviders :
                      calls[p] = Call(IF v = "on" THEN "enable" ELSE "disable", p, 0, "-")
      BY <1>4, EngineSlotStep
    <2>2. \A i \in 1 .. Len(calls) : calls[i].op \in {"enable", "disable"}
      BY <2>1, CallFields
    <2>3. Plain(calls)
      BY <1>4, <2>1, <2>2 DEF EngineSlot, Plain, Counted, Call
    <2> QED
      BY <2>1, <2>3
  <1>5. CASE PersistEngineState
    <2>1. Replaced(<<>>) /\ todo[1].op = "persist"
      BY <1>5, PersistStep, CallFields
    <2>2. Plain(<<>>)
      BY <1>5, <2>1 DEF PersistEngineState, Plain, Counted
    <2> QED
      BY <2>1, <2>2
  <1>6. CASE SetSatelliteState
    <2>1. PICK v \in OnOff :
            /\ todo[1] = Call("set_satellite_state", 0, 0, v)
            /\ \/ Replaced(<<Call("satellite_slot", 0, 0, v), Call("satellite_mirror", 0, 0, v)>>)
               \/ Replaced(<<>>)
      BY <1>6, SetSatelliteStep
    <2>2. Plain(<<Call("satellite_slot", 0, 0, v), Call("satellite_mirror", 0, 0, v)>>) /\ Plain(<<>>)
      BY <1>6, <2>1 DEF SetSatelliteState, Plain, Counted, Call
    <2> QED
      BY <2>1, <2>2
  <1>7. CASE SatelliteSlot
    <2>1. PICK v \in OnOff, calls \in Seq(Calls) :
            /\ todo[1] = Call("satellite_slot", 0, 0, v)
            /\ Replaced(calls)
            /\ Len(calls) = NProviders
            /\ \A p \in 1 .. NProviders :
                 calls[p] = Call(IF v = "on" THEN "enable_if_on" ELSE "disable_satellite", p, 0, "-")
      BY <1>7, SatelliteSlotStep
    <2>2. \A i \in 1 .. Len(calls) : calls[i].op \in {"enable_if_on", "disable_satellite"}
      BY <2>1 DEF Call
    <2>3. Plain(calls)
      BY <1>7, <2>1, <2>2 DEF SatelliteSlot, Plain, Counted, Call
    <2> QED
      BY <2>1, <2>3
  <1>8. CASE SatelliteMirror
    <2>1. PICK v \in OnOff :
            /\ todo[1] = Call("satellite_mirror", 0, 0, v)
            /\ Replaced(<<Call("set_does_satellite", 0, 0, v)>>)
      BY <1>8, SatelliteMirrorStep
    <2>2. Plain(<<Call("set_does_satellite", 0, 0, v)>>)
      BY <1>8, <2>1 DEF SatelliteMirror, Plain, Counted, Call
    <2> QED
      BY <2>1, <2>2
  <1>9. CASE SetIsOnline
    <2>1. PICK v \in OnOff :
            /\ todo[1] = Call("set_is_online", 0, 0, v)
            /\ \/ Replaced(<<Call("set_engine_state", 0, 0, v)>>)
               \/ Replaced(<<>>)
      BY <1>9, SetOnlineStep
    <2>2. Plain(<<Call("set_engine_state", 0, 0, v)>>) /\ Plain(<<>>)
      BY <1>9, <2>1 DEF SetIsOnline, Plain, Counted, Call
    <2> QED
      BY <2>1, <2>2
  <1>10. CASE SetDoesSatellite
    <2>1. PICK v \in OnOff :
            /\ todo[1] = Call("set_does_satellite", 0, 0, v)
            /\ \/ Replaced(<<Call("set_satellite_state", 0, 0, v)>>)
               \/ Replaced(<<>>)
      BY <1>10, SetSatelliteUseStep
    <2>2. Plain(<<Call("set_satellite_state", 0, 0, v)>>) /\ Plain(<<>>)
      BY <1>10, <2>1 DEF SetDoesSatellite, Plain, Counted, Call
    <2> QED
      BY <2>1, <2>2
  <1>11. CASE ServiceSlot
    <2>1. PICK v \in Status :
            todo[1] = Call("service_slot", 0, 0, v) /\ Replaced(MirrorOf(v))
      BY <1>11, ServiceSlotStep
    <2>2. Plain(MirrorOf(v))
      BY <1>11, <2>1 DEF ServiceSlot, MirrorOf, Plain, Counted, Call
    <2> QED
      BY <2>1, <2>2
  <1>12. CASE SetServiceState
    <2>1. Replaced(<<>>) /\ todo[1].op = "set_service_state"
      BY <1>12, SetServiceStep, CallFields
    <2>2. Plain(<<>>)
      BY <1>12, <2>1 DEF SetServiceState, Plain, Counted
    <2> QED
      BY <2>1, <2>2
  <1>13. CASE StopSession
    <2>1. PICK s \in Sessions, f \in Features, calls \in Seq(Calls) :
            /\ todo[1] = Call("session_stop", 0, f, s)
            /\ Replaced(calls)
            /\ \A k \in 1 .. Len(calls) : calls[k].op = "stop"
      BY <1>13, StopSessionStep
    <2>2. Plain(calls)
      BY <1>13, <2>1 DEF StopSession, Plain, Counted, Call
    <2> QED
      BY <2>1, <2>2
  <1> QED
    BY <1>1, <1>2, <1>3, <1>4, <1>5, <1>6, <1>7, <1>8, <1>9, <1>10, <1>11, <1>12, <1>13
    DEF Dispatch, Proceed, MovesCounters

\* A provider that reports its state was not refusing when it was started.
LEMMA TracksDispatch ==
  ASSUME TypeOK, StackInv, OffRefusesSoon, Dispatch
  PROVE  TracksWhileOn'
  <1>1. CASE ~MovesCounters
    <2>1. PICK calls : Replaced(calls) /\ Plain(calls)
      BY <1>1, PlainDispatch
    <2>2. ~Calling("track")'
      BY <2>1, NoNewHead DEF Plain, Immediate
    <2> QED
      BY <2>2 DEF TracksWhileOn
  <1>2. CASE EnableProvider \/ MarkDisabled \/ ImplStart \/ ImplStop
    <2>1. Replaced(<<>>)
      BY <1>2, EnableStep, MarkStep, ImplStartStep, ImplStopStep
    <2>2. ~Calling("track")'
      BY <2>1, NoNewHead DEF Immediate
    <2> QED
      BY <2>2 DEF TracksWhileOn
  <1>3. CASE DisableProvider
    <2>1. PICK p \in Providers, calls \in Seq(Calls) :
            /\ Replaced(calls)
            /\ Len(calls) = NFeatures + 1
            /\ \A f \in 1 .. NFeatures : calls[f] = Call("stop_if_counted", p, f, "-")
            /\ calls[NFeatures + 1] = Call("mark_disabled", p, 0, "-")
      BY <1>3, DisableStep
    <2>2. ASSUME NEW i \in 1 .. Len(calls)
          PROVE  calls[i].op # "track"
      <3>1. i \in 1 .. NFeatures \/ i = NFeatures + 1
        BY <2>1, EngineAssumption
      <3> QED
        BY <2>1, <3>1, CallFields
    <2>3. ~Calling("track")'
      BY <2>1, <2>2, NoNewHead DEF Immediate
    <2> QED
      BY <2>3 DEF TracksWhileOn
  <1>4. ASSUME NEW p \in Providers, NEW f \in Features, NEW v \in TrackedState, NEW op,
               counter[p][f] >= 0, engine_state' = engine_state,
               Replaced(<<Call("track", p, 0, v), Call(op, p, f, "-")>>),
               op \in {"impl_start", "impl_stop"},
               todo[1].op \in {"start", "stop", "stop_if_counted"}
        PROVE  TracksWhileOn'
    <2> DEFINE calls == <<Call("track", p, 0, v), Call(op, p, f, "-")>>
    <2>1. \A i \in 1 .. Len(calls) : calls[i].op \notin Mirroring
      BY <1>4, CallFields DEF Mirroring
    <2>2. ~Refuses(p)
      BY <1>4 DEF Refuses, TypeOK
    <2>3. todo[1].op \notin Mirroring
      BY <1>4 DEF Mirroring
    <2> HIDE DEF calls
    <2> QED
      BY <1>4, <2>1, <2>2, <2>3, TracksStep DEF calls
  <1>5. CASE Replaced(<<>>)
    <2>1. ~Calling("track")'
      BY <1>5, NoNewHead DEF Immediate
    <2> QED
      BY <2>1 DEF TracksWhileOn
  <1>6. CASE StartUpdates
    <2>1. PICK p \in Providers, f \in Features :
            /\ todo[1] = Call("start", p, f, "-")
            /\ \/ /\ counter[p][f] = 0
                  /\ Replaced(<<Call("track", p, 0, "active"), Call("impl_start", p, f, "-")>>)
               \/ Replaced(<<>>)
      BY <1>6, StartStep
    <2>2. engine_state' = engine_state
      BY <1>6 DEF StartUpdates, configVars
    <2>3. todo[1].op = "start"
      BY <2>1, CallFields
    <2> QED
      BY <1>4, <1>5, <2>1, <2>2, <2>3 DEF TrackedState
  <1>7. CASE StopUpdates
    <2>1. PICK p \in Providers, f \in Features :
            /\ todo[1] = Call("stop", p, f, "-")
            /\ \/ /\ counter[p][f] = 1
                  /\ Replaced(<<Call("track", p, 0, "enabled"), Call("impl_stop", p, f, "-")>>)
               \/ Replaced(<<>>)
      BY <1>7, StopStep
    <2>2. engine_state' = engine_state
      BY <1>7 DEF StopUpdates, configVars
    <2>3. todo[1].op = "stop"
      BY <2>1, CallFields
    <2> QED
      BY <1>4, <1>5, <2>1, <2>2, <2>3 DEF TrackedState
  <1>8. CASE StopIfCounted
    <2>1. PICK p \in Providers, f \in Features :
            /\ todo[1] = Call("stop_if_counted", p, f, "-")
            /\ \/ /\ counter[p][f] > 0
                  /\ Replaced(<<Call("track", p, 0, "enabled"), Call("impl_stop", p, f, "-")>>)
               \/ Replaced(<<>>)
      BY <1>8, StopIfStep
    <2>2. engine_state' = engine_state
      BY <1>8 DEF StopIfCounted, configVars
    <2>3. todo[1].op = "stop_if_counted"
      BY <2>1, CallFields
    <2>4. counter[p][f] \in Int
      BY DEF TypeOK
    <2>5. counter[p][f] > 0 => counter[p][f] >= 0
      BY <2>4
    <2> QED
      BY <1>4, <1>5, <2>1, <2>2, <2>3, <2>5 DEF TrackedState
  <1> QED
    BY <1>1, <1>2, <1>3, <1>6, <1>7, <1>8 DEF MovesCounters

-----------------------------------------------------------------------------
(* The implementation's controller counts what the wrapper's has started. *)

Below(op, p, f) ==
  \E i \in Positions : i > 1 /\ todo[i].op = op /\ todo[i].p = p /\ todo[i].f = f

Pushed(calls, op, p, f) ==
  \E i \in 1 .. Len(calls) : calls[i].op = op /\ calls[i].p = p /\ calls[i].f = f

\* What waits after a step was pushed by it or waited below the head.
LEMMA WaitingMoves ==
  ASSUME NEW calls, Replaced(calls), NEW op, NEW p, NEW f
  PROVE  /\ Waiting(op, p, f)' <=> Pushed(calls, op, p, f) \/ Below(op, p, f)
         /\ Waiting(op, p, f) <=> \/ todo[1].op = op /\ todo[1].p = p /\ todo[1].f = f
                                  \/ Below(op, p, f)
  <1>1. ASSUME Waiting(op, p, f)'
        PROVE  Pushed(calls, op, p, f) \/ Below(op, p, f)
    <2>1. PICK i \in 1 .. Len(todo') : todo'[i].op = op /\ todo'[i].p = p /\ todo'[i].f = f
      BY <1>1 DEF Waiting
    <2>2. CASE i <= Len(calls)
      <3>1. i \in 1 .. Len(calls) /\ todo'[i] = calls[i]
        BY <2>2 DEF Replaced
      <3> QED
        BY <2>1, <3>1 DEF Pushed
    <2>3. CASE i > Len(calls)
      <3> DEFINE k == i - Len(calls) + 1
      <3>1. k \in Positions /\ k > 1 /\ todo'[i] = todo[k]
        BY <2>3 DEF Replaced
      <3> QED
        BY <2>1, <3>1 DEF Below
    <2> QED
      BY <2>2, <2>3 DEF Replaced
  <1>2. ASSUME Pushed(calls, op, p, f)
        PROVE  Waiting(op, p, f)'
    <2>1. PICK i \in 1 .. Len(calls) : calls[i].op = op /\ calls[i].p = p /\ calls[i].f = f
      BY <1>2 DEF Pushed
    <2>2. i \in 1 .. Len(todo') /\ todo'[i] = calls[i]
      BY DEF Replaced
    <2> QED
      BY <2>1, <2>2 DEF Waiting
  <1>3. ASSUME Below(op, p, f)
        PROVE  Waiting(op, p, f)'
    <2>1. PICK i \in Positions : i > 1 /\ todo[i].op = op /\ todo[i].p = p /\ todo[i].f = f
      BY <1>3 DEF Below
    <2> DEFINE k == i + Len(calls) - 1
    <2>2. k \in 1 .. Len(todo') /\ todo'[k] = todo[i]
      BY <2>1 DEF Replaced
    <2> QED
      BY <2>1, <2>2 DEF Waiting
  <1>4. Waiting(op, p, f) <=> \/ todo[1].op = op /\ todo[1].p = p /\ todo[1].f = f
                              \/ Below(op, p, f)
    <2>1. 1 \in Positions /\ \A i \in Positions : i = 1 \/ i > 1
      BY DEF Replaced
    <2> QED
      BY <2>1 DEF Waiting, Below
  <1> QED
    BY <1>1, <1>2, <1>3, <1>4

\* What waits below the head may wait there.
LEMMA BelowHead ==
  ASSUME TypeOK, StackInv, NEW op, NEW p, NEW f, Below(op, p, f)
  PROVE  \E d \in Calls : MayPrecede(todo[1], d) /\ d.op = op /\ d.p = p /\ d.f = f
  <1>1. PICK i \in Positions : i > 1 /\ todo[i].op = op /\ todo[i].p = p /\ todo[i].f = f
    BY DEF Below
  <1>2. 1 \in Positions /\ 1 < i /\ todo[i] \in Calls
    BY <1>1, LenProperties, ElementOfSeq DEF TypeOK
  <1> QED
    BY <1>1, <1>2 DEF StackInv, Nested

\* Above which of the calls that count a call may be made.
LEMMA NotBelow ==
  ASSUME TypeOK, StackInv, todo # <<>>, NEW p, NEW f
  PROVE  /\ todo[1].op \in {"start", "stop", "impl_start", "impl_stop", "stop_if_counted",
                            "mark_disabled", "disable", "disable_satellite"} =>
              /\ ~Below("impl_start", p, f)
              /\ ~Below("impl_stop", p, f)
         /\ todo[1].op \in {"start", "stop", "disable", "disable_satellite"} =>
              /\ ~Below("mark_disabled", p, f)
              /\ ~Below("stop_if_counted", p, f)
         /\ todo[1].op \in {"impl_stop", "stop_if_counted"} /\ todo[1].p = p /\ todo[1].f = f =>
              ~Below("stop_if_counted", p, f)
  BY BelowHead DEF MayPrecede, SwitchesOn, Elsewhere

\* The balance of a step that neither counts nor stops.
LEMMA BalancedStep ==
  ASSUME Balanced, ImplementationBalanced, NEW calls, Replaced(calls), Plain(calls)
  PROVE  Balanced' /\ ImplementationBalanced'
  <1>1. UNCHANGED <<counter, implCounter, hardware>>
    BY DEF Plain
  <1>2. ASSUME NEW op \in Counted, NEW p, NEW f
        PROVE  Waiting(op, p, f)' <=> Waiting(op, p, f)
    <2>1. ~Pushed(calls, op, p, f) /\ todo[1].op # op
      BY DEF Plain, Pushed, Counted
    <2> QED
      BY <2>1, WaitingMoves
  <1>3. ASSUME NEW p \in Providers, NEW f \in Features
        PROVE  BalancedFor(p, f)'
    <2>1. /\ Waiting("impl_stop", p, f)' <=> Waiting("impl_stop", p, f)
          /\ Waiting("impl_start", p, f)' <=> Waiting("impl_start", p, f)
          /\ Waiting("stop_if_counted", p, f)' <=> Waiting("stop_if_counted", p, f)
          /\ Waiting("mark_disabled", p, 0)' <=> Waiting("mark_disabled", p, 0)
      BY <1>2 DEF Counted
    <2> QED
      BY <1>1, <2>1 DEF Balanced, BalancedFor
  <1> QED
    BY <1>1, <1>3 DEF Balanced, ImplementationBalanced

\* What waits when nothing is pushed.
LEMMA NothingPushed ==
  ASSUME Replaced(<<>>), NEW op, NEW p, NEW f
  PROVE  /\ Waiting(op, p, f)' <=> Below(op, p, f)
         /\ Waiting(op, p, f) <=> \/ todo[1].op = op /\ todo[1].p = p /\ todo[1].f = f
                                  \/ Below(op, p, f)
  BY WaitingMoves DEF Pushed

\* The head itself waits.
LEMMA HeadWaits ==
  ASSUME NEW calls, Replaced(calls)
  PROVE  todo # <<>> /\ 1 \in Positions
         /\ \A op, p, f : todo[1].op = op /\ todo[1].p = p /\ todo[1].f = f => Waiting(op, p, f)
  <1>1. todo # <<>> /\ 1 \in Positions
    BY DEF Replaced
  <1> QED
    BY <1>1 DEF Waiting

\* A step that pushes a report and a call to the implementation.
LEMMA ReportPushed ==
  ASSUME NEW p \in Providers, NEW f \in Features, NEW v, NEW op \in {"impl_start", "impl_stop"},
         Replaced(<<Call("track", p, 0, v), Call(op, p, f, "-")>>)
  PROVE  \A o \in Counted : \A q, g :
           Waiting(o, q, g)' <=> (o = op /\ q = p /\ g = f) \/ Below(o, q, g)
  <1> DEFINE calls == <<Call("track", p, 0, v), Call(op, p, f, "-")>>
  <1>1. /\ Len(calls) = 2
        /\ calls[1].op = "track"
        /\ calls[2].op = op /\ calls[2].p = p /\ calls[2].f = f
    BY CallFields
  <1> HIDE DEF calls
  <1>2. ASSUME NEW o \in Counted, NEW q, NEW g
        PROVE  Pushed(calls, o, q, g) <=> (o = op /\ q = p /\ g = f)
    BY <1>1 DEF Pushed, Counted
  <1> QED
    BY <1>2, WaitingMoves DEF calls

\* Every call keeps the two counters of a provider in step.
LEMMA BalancedDispatch ==
  ASSUME TypeOK, StackInv, Balanced, ImplementationBalanced, Dispatch
  PROVE  Balanced' /\ ImplementationBalanced'
  <1>1. CASE ~MovesCounters
    BY <1>1, PlainDispatch, BalancedStep
  <1>2. CASE EnableProvider
    <2>1. PICK p \in Providers :
           /\ todo[1].op \notin Counted
           /\ counter' = [counter EXCEPT ![p] = [f \in Features |-> 0]]
           /\ Replaced(<<>>)
      BY <1>2, EnableStep, CallFields DEF Counted
    <2>2. UNCHANGED <<implCounter, hardware>>
      BY <1>2 DEF EnableProvider
    <2>3. \A o \in Counted : \A q, g : Waiting(o, q, g)' <=> Waiting(o, q, g)
      BY <2>1, NothingPushed
    <2>4. ASSUME NEW q \in Providers, NEW g \in Features
          PROVE  BalancedFor(q, g)'
      <3>1. BalancedFor(q, g)
        BY DEF Balanced
      <3>2. counter'[q][g] > 0 => counter[q][g] > 0
        BY <2>1 DEF TypeOK
      <3> QED
        BY <2>2, <2>3, <3>1, <3>2 DEF BalancedFor, Counted
    <2> QED
      BY <2>2, <2>4 DEF Balanced, ImplementationBalanced
  <1>3. CASE MarkDisabled
    <2>1. PICK p \in Providers :
            /\ todo[1] = Call("mark_disabled", p, 0, "-")
            /\ counter' = [counter EXCEPT ![p] = [f \in Features |-> -1]]
            /\ Replaced(<<>>)
      BY <1>3, MarkStep
    <2>2. todo[1].op = "mark_disabled" /\ todo[1].p = p
      BY <2>1, CallFields
    <2>3. UNCHANGED <<implCounter, hardware>>
      BY <1>3 DEF MarkDisabled
    <2>4. \A o \in Counted : \A q, g : o # "mark_disabled" \/ q # p =>
            (Waiting(o, q, g)' <=> Waiting(o, q, g))
      BY <2>1, <2>2, NothingPushed
    <2>5. ASSUME NEW q \in Providers, NEW g \in Features
          PROVE  BalancedFor(q, g)'
      <3>1. BalancedFor(q, g)
        BY DEF Balanced
      <3>2. CASE q = p
        <4>1. ~(counter'[q][g] > 0)
          BY <2>1, <3>2 DEF TypeOK
        <4> QED
          BY <2>3, <2>4, <3>1, <4>1 DEF BalancedFor, Counted
      <3>3. CASE q # p
        <4>1. counter'[q][g] = counter[q][g]
          BY <2>1, <3>3 DEF TypeOK
        <4> QED
          BY <2>3, <2>4, <3>1, <3>3, <4>1 DEF BalancedFor, Counted
      <3> QED
        BY <3>2, <3>3
    <2> QED
      BY <2>3, <2>5 DEF Balanced, ImplementationBalanced
  <1>4. CASE ImplStart
    <2>1. PICK p \in Providers, f \in Features :
           /\ todo[1] = Call("impl_start", p, f, "-")
           /\ implCounter' = [implCounter EXCEPT ![p][f] = Incremented(@)]
           /\ hardware' = [hardware EXCEPT ![p][f] = @ \/ implCounter[p][f] = 0]
           /\ Replaced(<<>>)
      BY <1>4, ImplStartStep
    <2>2. todo[1].op = "impl_start" /\ todo[1].p = p /\ todo[1].f = f
      BY <2>1, CallFields
    <2>3. counter' = counter
      BY <1>4 DEF ImplStart
    <2>4. \A q, g : ~Waiting("impl_stop", q, g)'
      BY <2>1, <2>2, NotBelow, NothingPushed, HeadWaits
    <2>5. \A o \in {"stop_if_counted", "mark_disabled"} : \A q, g :
            Waiting(o, q, g)' <=> Waiting(o, q, g)
      BY <2>1, <2>2, NothingPushed
    <2>6. \A q, g : Waiting("impl_start", q, g) => q = p /\ g = f
      BY <2>1, <2>2, NotBelow, NothingPushed, HeadWaits
    <2>7. \A q \in Providers, g \in Features :
            /\ implCounter'[q][g] \in Int /\ implCounter[q][g] \in Int
            /\ implCounter'[q][g] = (IF q = p /\ g = f THEN implCounter[q][g] + 1
                                     ELSE implCounter[q][g])
      BY <2>1 DEF TypeOK, Incremented, ImplementationBalanced
    <2>9. /\ hardware'[p][f] <=> hardware[p][f] \/ implCounter[p][f] = 0
          /\ \A q \in Providers, g \in Features : ~(q = p /\ g = f) => (hardware'[q][g] <=> hardware[q][g])
      BY <2>1 DEF TypeOK
    <2>8. ASSUME NEW q \in Providers, NEW g \in Features
          PROVE  BalancedFor(q, g)'
      <3>1. BalancedFor(q, g) /\ implCounter[q][g] >= 0
        BY DEF Balanced, ImplementationBalanced
      <3>2. CASE q = p /\ g = f
        <4>1. implCounter'[q][g] > 0
          BY <2>7, <3>1, <3>2
        <4> QED
          BY <2>4, <4>1 DEF BalancedFor
      <3>3. CASE ~(q = p /\ g = f)
        <4>1. implCounter'[q][g] = implCounter[q][g] /\ ~Waiting("impl_start", q, g)
          BY <2>6, <2>7, <3>3
        <4> QED
          BY <2>3, <2>4, <2>5, <3>1, <4>1 DEF BalancedFor
      <3> QED
        BY <3>2, <3>3
    <2> QED
      BY <2>7, <2>8, <2>9 DEF Balanced, ImplementationBalanced
  <1>5. CASE ImplStop
    <2>1. PICK p \in Providers, f \in Features :
           /\ todo[1] = Call("impl_stop", p, f, "-")
           /\ implCounter' = [implCounter EXCEPT ![p][f] = Decremented(@)]
           /\ hardware' = [hardware EXCEPT ![p][f] = @ /\ implCounter[p][f] # 1]
           /\ Replaced(<<>>)
      BY <1>5, ImplStopStep
    <2>2. todo[1].op = "impl_stop" /\ todo[1].p = p /\ todo[1].f = f
      BY <2>1, CallFields
    <2>3. counter' = counter
      BY <1>5 DEF ImplStop
    <2>4. \A q, g : ~Waiting("impl_stop", q, g)' /\ ~Waiting("impl_start", q, g)
      BY <2>1, <2>2, NotBelow, NothingPushed, HeadWaits
    <2>5. \A o \in {"stop_if_counted", "mark_disabled"} : \A q, g :
            Waiting(o, q, g)' <=> Waiting(o, q, g)
      BY <2>1, <2>2, NothingPushed
    <2>6. Waiting("impl_stop", p, f) /\ implCounter[p][f] > 0
      <3>1. Waiting("impl_stop", p, f)
        BY <2>1, <2>2, HeadWaits
      <3> QED
        BY <3>1 DEF Balanced, BalancedFor
    <2>7. \A q \in Providers, g \in Features :
            /\ implCounter'[q][g] \in Int /\ implCounter[q][g] \in Int
            /\ implCounter'[q][g] = (IF q = p /\ g = f THEN implCounter[q][g] - 1
                                     ELSE implCounter[q][g])
      BY <2>1, <2>6 DEF TypeOK, Decremented
    <2>9. /\ hardware'[p][f] <=> hardware[p][f] /\ implCounter[p][f] # 1
          /\ \A q \in Providers, g \in Features : ~(q = p /\ g = f) => (hardware'[q][g] <=> hardware[q][g])
      BY <2>1 DEF TypeOK
    <2>8. ASSUME NEW q \in Providers, NEW g \in Features
          PROVE  BalancedFor(q, g)'
      <3>1. BalancedFor(q, g) /\ implCounter[q][g] >= 0
        BY DEF Balanced, ImplementationBalanced
      <3>2. CASE q = p /\ g = f
        BY <2>3, <2>4, <2>5, <2>6, <3>1, <3>2 DEF BalancedFor
      <3>3. CASE ~(q = p /\ g = f)
        <4>1. implCounter'[q][g] = implCounter[q][g]
          BY <2>7, <3>3
        <4> QED
          BY <2>3, <2>4, <2>5, <3>1, <4>1 DEF BalancedFor
      <3> QED
        BY <3>2, <3>3
    <2> QED
      BY <2>6, <2>7, <2>8, <2>9 DEF Balanced, ImplementationBalanced
  <1>6. CASE DisableProvider
    <2>1. PICK calls : Replaced(calls) /\ todo[1].op \in {"disable", "disable_satellite"}
                       /\ \A i \in 1 .. Len(calls) : calls[i].op \in {"stop_if_counted", "mark_disabled"}
      <3>1. PICK p \in Providers, calls \in Seq(Calls) :
              /\ todo[1].op \in {"disable", "disable_satellite"}
              /\ Replaced(calls)
              /\ Len(calls) = NFeatures + 1
              /\ \A f \in 1 .. NFeatures : calls[f] = Call("stop_if_counted", p, f, "-")
              /\ calls[NFeatures + 1] = Call("mark_disabled", p, 0, "-")
        BY <1>6, DisableStep
      <3>2. ASSUME NEW i \in 1 .. Len(calls)
            PROVE  calls[i].op \in {"stop_if_counted", "mark_disabled"}
        <4>1. i \in 1 .. NFeatures \/ i = NFeatures + 1
          BY <3>1, EngineAssumption
        <4> QED
          BY <3>1, <4>1, CallFields
      <3> QED
        BY <3>1, <3>2
    <2>2. UNCHANGED <<counter, implCounter, hardware>>
      BY <1>6 DEF DisableProvider, providerVars
    <2>3. \A o \in {"impl_start", "impl_stop"} : \A q, g : Waiting(o, q, g)' <=> Waiting(o, q, g)
      <3>1. \A o \in {"impl_start", "impl_stop"} : \A q, g : ~Pushed(calls, o, q, g) /\ todo[1].op # o
        BY <2>1 DEF Pushed
      <3> QED
        BY <2>1, <3>1, WaitingMoves
    <2>4. \A q : ~Waiting("mark_disabled", q, 0)
      BY <2>1, NotBelow, WaitingMoves, HeadWaits
    <2>5. ASSUME NEW q \in Providers, NEW g \in Features
          PROVE  BalancedFor(q, g)'
      <3>1. BalancedFor(q, g)
        BY DEF Balanced
      <3> QED
        BY <2>2, <2>3, <2>4, <3>1 DEF BalancedFor
    <2> QED
      BY <2>2, <2>5 DEF Balanced, ImplementationBalanced
  <1>7. CASE StartUpdates
    <2>1. PICK p \in Providers, f \in Features :
           /\ todo[1] = Call("start", p, f, "-")
           /\ counter' = [counter EXCEPT ![p][f] = Incremented(@)]
           /\ \/ /\ counter[p][f] = 0
                 /\ Replaced(<<Call("track", p, 0, "active"), Call("impl_start", p, f, "-")>>)
              \/ counter[p][f] # 0 /\ Replaced(<<>>)
      BY <1>7, StartStep
    <2>2. todo[1].op = "start"
      BY <2>1, CallFields
    <2>3. UNCHANGED <<implCounter, hardware>>
      BY <1>7 DEF StartUpdates
    <2>4. \A q \in Providers, g \in Features :
            counter'[q][g] > 0 => counter[q][g] > 0 \/ (q = p /\ g = f /\ counter[p][f] = 0)
      BY <2>1 DEF TypeOK, Incremented
    <2>5. CASE counter[p][f] = 0 /\ Replaced(<<Call("track", p, 0, "active"), Call("impl_start", p, f, "-")>>)
      <3>1. \A o \in Counted : \A q, g :
              Waiting(o, q, g)' <=> (o = "impl_start" /\ q = p /\ g = f) \/ Below(o, q, g)
        BY <2>5, ReportPushed
      <3>2. \A o \in Counted : \A q, g : Waiting(o, q, g) <=> Below(o, q, g)
        BY <2>2, <2>5, WaitingMoves DEF Counted
      <3>3. ASSUME NEW q \in Providers, NEW g \in Features
            PROVE  BalancedFor(q, g)'
        <4>1. BalancedFor(q, g)
          BY DEF Balanced
        <4> QED
          BY <2>3, <2>4, <3>1, <3>2, <4>1 DEF BalancedFor, Counted
      <3> QED
        BY <2>3, <3>3 DEF Balanced, ImplementationBalanced
    <2>6. CASE counter[p][f] # 0 /\ Replaced(<<>>)
      <3>1. \A o \in Counted : \A q, g : Waiting(o, q, g)' <=> Waiting(o, q, g)
        BY <2>2, <2>6, NothingPushed DEF Counted
      <3>2. ASSUME NEW q \in Providers, NEW g \in Features
            PROVE  BalancedFor(q, g)'
        <4>1. BalancedFor(q, g)
          BY DEF Balanced
        <4> QED
          BY <2>3, <2>4, <2>6, <3>1, <4>1 DEF BalancedFor, Counted
      <3> QED
        BY <2>3, <3>2 DEF Balanced, ImplementationBalanced
    <2> QED
      BY <2>1, <2>5, <2>6
  <1>8. CASE StopUpdates
    <2>1. PICK p \in Providers, f \in Features :
           /\ todo[1] = Call("stop", p, f, "-")
           /\ counter' = [counter EXCEPT ![p][f] = Decremented(@)]
           /\ \/ /\ counter[p][f] = 1
                 /\ Replaced(<<Call("track", p, 0, "enabled"), Call("impl_stop", p, f, "-")>>)
              \/ counter[p][f] # 1 /\ Replaced(<<>>)
      BY <1>8, StopStep
    <2>2. todo[1].op = "stop"
      BY <2>1, CallFields
    <2>3. UNCHANGED <<implCounter, hardware>>
      BY <1>8 DEF StopUpdates
    <2>4. \A q \in Providers, g \in Features :
            counter'[q][g] > 0 => counter[q][g] > 0 /\ ~(q = p /\ g = f /\ counter[p][f] = 1)
      BY <2>1 DEF TypeOK, Decremented
    <2>5. CASE counter[p][f] = 1 /\ Replaced(<<Call("track", p, 0, "enabled"), Call("impl_stop", p, f, "-")>>)
      <3>1. \A o \in Counted : \A q, g :
              Waiting(o, q, g)' <=> (o = "impl_stop" /\ q = p /\ g = f) \/ Below(o, q, g)
        BY <2>5, ReportPushed
      <3>2. \A o \in Counted : \A q, g : (Waiting(o, q, g) <=> Below(o, q, g)) /\ ~Below(o, q, g)
        <4>1. todo # <<>>
          BY <2>5, HeadWaits
        <4> QED
          BY <2>2, <2>5, <4>1, WaitingMoves, NotBelow DEF Counted
      <3>3. implCounter[p][f] > 0
        BY <2>5, <3>2 DEF Balanced, BalancedFor, Counted
      <3>4. ASSUME NEW q \in Providers, NEW g \in Features
            PROVE  BalancedFor(q, g)'
        <4>1. BalancedFor(q, g)
          BY DEF Balanced
        <4> QED
          BY <2>3, <2>4, <2>5, <3>1, <3>2, <3>3, <4>1 DEF BalancedFor, Counted
      <3> QED
        BY <2>3, <3>4 DEF Balanced, ImplementationBalanced
    <2>6. CASE counter[p][f] # 1 /\ Replaced(<<>>)
      <3>1. \A o \in Counted : \A q, g : Waiting(o, q, g)' <=> Waiting(o, q, g)
        BY <2>2, <2>6, NothingPushed DEF Counted
      <3>2. ASSUME NEW q \in Providers, NEW g \in Features
            PROVE  BalancedFor(q, g)'
        <4>1. BalancedFor(q, g)
          BY DEF Balanced
        <4> QED
          BY <2>3, <2>4, <3>1, <4>1 DEF BalancedFor, Counted
      <3> QED
        BY <2>3, <3>2 DEF Balanced, ImplementationBalanced
    <2> QED
      BY <2>1, <2>5, <2>6
  <1>9. CASE StopIfCounted
    <2>1. PICK p \in Providers, f \in Features :
           /\ todo[1] = Call("stop_if_counted", p, f, "-")
           /\ \/ /\ counter[p][f] > 0
                 /\ Replaced(<<Call("track", p, 0, "enabled"), Call("impl_stop", p, f, "-")>>)
              \/ ~(counter[p][f] > 0) /\ Replaced(<<>>)
      BY <1>9, StopIfStep
    <2>2. todo[1].op = "stop_if_counted" /\ todo[1].p = p /\ todo[1].f = f
      BY <2>1, CallFields
    <2>3. UNCHANGED <<counter, implCounter, hardware>>
      BY <1>9 DEF StopIfCounted, providerVars
    <2>4. todo # <<>> /\ 1 \in Positions /\ Waiting("stop_if_counted", p, f)
      BY <2>1, <2>2, HeadWaits
    <2>5. /\ \A q, g : ~Below("impl_start", q, g) /\ ~Below("impl_stop", q, g)
          /\ ~Below("stop_if_counted", p, f)
      BY <2>2, <2>4, NotBelow
    <2>6. Waiting("mark_disabled", p, 0) /\ Below("mark_disabled", p, 0)
      <3>1. PICK j \in Positions : 1 < j /\ todo[j].op = "mark_disabled" /\ todo[j].p = p
        BY <2>2, <2>4 DEF StackInv, Framed
      <3>2. todo[j].f = 0
        <4>1. todo[j] \in Calls
          BY <3>1, ElementOfSeq DEF TypeOK
        <4> QED
          BY <3>1, <4>1 DEF Calls, FeatureOps, ProviderOps
      <3> QED
        BY <3>1, <3>2 DEF Waiting, Below
    <2>7. CASE counter[p][f] > 0 /\ Replaced(<<Call("track", p, 0, "enabled"), Call("impl_stop", p, f, "-")>>)
      <3>1. \A o \in Counted : \A q, g :
              Waiting(o, q, g)' <=> (o = "impl_stop" /\ q = p /\ g = f) \/ Below(o, q, g)
        BY <2>7, ReportPushed
      <3>2. \A o \in Counted : \A q, g : o # "stop_if_counted" \/ ~(q = p /\ g = f) =>
              (Waiting(o, q, g) <=> Below(o, q, g))
        BY <2>2, <2>7, WaitingMoves DEF Counted
      <3>3. implCounter[p][f] > 0
        BY <2>4, <2>5, <2>7, <3>2 DEF Balanced, BalancedFor, Counted
      <3>4. ASSUME NEW q \in Providers, NEW g \in Features
            PROVE  BalancedFor(q, g)'
        <4>1. BalancedFor(q, g)
          BY DEF Balanced
        <4>2. CASE q = p /\ g = f
          BY <2>3, <2>5, <2>6, <3>1, <3>3, <4>2 DEF BalancedFor, Counted
        <4>3. CASE ~(q = p /\ g = f)
          BY <2>3, <3>1, <3>2, <4>1, <4>3 DEF BalancedFor, Counted
        <4> QED
          BY <4>2, <4>3
      <3> QED
        BY <2>3, <3>4 DEF Balanced, ImplementationBalanced
    <2>8. CASE ~(counter[p][f] > 0) /\ Replaced(<<>>)
      <3>1. \A o \in Counted : \A q, g : o # "stop_if_counted" \/ ~(q = p /\ g = f) =>
              (Waiting(o, q, g)' <=> Waiting(o, q, g))
        BY <2>2, <2>8, NothingPushed DEF Counted
      <3>2. ASSUME NEW q \in Providers, NEW g \in Features
            PROVE  BalancedFor(q, g)'
        <4>1. BalancedFor(q, g)
          BY DEF Balanced
        <4> QED
          BY <2>3, <2>8, <3>1, <4>1 DEF BalancedFor, Counted
      <3> QED
        BY <2>3, <3>2 DEF Balanced, ImplementationBalanced
    <2> QED
      BY <2>1, <2>7, <2>8
  <1> QED
    BY <1>1, <1>2, <1>3, <1>4, <1>5, <1>6, <1>7, <1>8, <1>9 DEF MovesCounters

\* Every call of the dispatching thread preserves the invariant.
LEMMA DispatchInv ==
  ASSUME EngineInv, Dispatch
  PROVE  EngineInv'
  <1> USE DEF EngineInv, StateInv
  <1>1. TypeOK' /\ StackInv'
    BY TypeDispatch, StackDispatch
  <1>2. SlotsAreCurrent' /\ AgreesSoon' /\ ShownSoon' /\ PersistedSoon'
    BY SlotsDispatch, AgreesDispatch, ShownDispatch, PersistedDispatch
  <1>3. OnlineIsKnown' /\ OffRefusesSoon' /\ TracksWhileOn'
    BY KnownDispatch, OffDispatch, TracksDispatch
  <1>4. SatelliteRefusesSoon' /\ ActiveIsTracked'
    <2> DEFINE S == Satellite \ RemoteProviders
    <2>1. Proceed \/ (RequiresUnanswered /\ This.p \notin S)
      BY DEF Dispatch, RequiresUnanswered, Asks
    <2>2. SatelliteRefusesSoon <=> RefuseIn(S)
      BY DEF SatelliteRefusesSoon, RefuseIn
    <2>3. SatelliteRefusesSoon' <=> RefuseIn(S)'
      BY DEF SatelliteRefusesSoon, RefuseIn
    <2> HIDE DEF S
    <2>4. S \in SUBSET Satellite
      BY DEF S
    <2> QED
      BY <2>1, <2>2, <2>3, <2>4, SatelliteDispatch, ActiveDispatch
  <1>5. Balanced' /\ ImplementationBalanced'
    BY BalancedDispatch
  <1> QED
    BY <1>1, <1>2, <1>3, <1>4, <1>5
-----------------------------------------------------------------------------
(* Requests are taken when nothing waits: then all that was to come has come. *)

\* Between two requests nothing is waiting, and the invariant says what the
\* properties of EngineProperties ask for.
LEMMA IdleFacts ==
  ASSUME EngineInv, Idle
  PROVE  /\ Agreed
         /\ service_state = "disabled" <=> engine_state = "off"
         /\ is_online = requested
         /\ settings = engine_state
         /\ engine_state = "off" => \A p \in Providers : Refuses(p)
         /\ satellite_state = "off" => \A p \in Satellite \ RemoteProviders : Refuses(p)
         /\ ~Restarts /\ engine_state = "active" => is_any_active(tracked)
         /\ \A p \in Providers, f \in Features : counter[p][f] > 0 => implCounter[p][f] > 0
  <1>1. Len(todo) = 0 /\ \A op : ~Calling(op)
    BY DEF Idle, Calling
  <1>2. ~AboutToSwitchOff
    BY DEF AboutToSwitchOff, Idle
  <1>3. \A i \in Positions : FALSE
    BY <1>1
  <1>4. Agreed /\ (service_state = "disabled" <=> engine_state = "off")
    BY <1>1, <1>3 DEF EngineInv, StateInv, AgreesSoon, ShownSoon
  <1>5. is_online = requested
    <2>1. 1 \in 1 .. Len(todo) + 1 /\ Known(1) /\ KnownOnline(1) = requested
      BY <1>1 DEF Known, KnownOnline
    <2>2. is_online <=> KnownOnline(1)
      BY <1>3, <2>1 DEF EngineInv, StateInv, OnlineIsKnown
    <2>3. is_online \in BOOLEAN /\ requested \in BOOLEAN
      BY DEF EngineInv, TypeOK
    <2> QED
      BY <2>1, <2>2, <2>3
  <1>6. settings = engine_state
    BY <1>2, <1>3 DEF EngineInv, StateInv, PersistedSoon
  <1>7. engine_state = "off" => \A p \in Providers : Refuses(p)
    BY <1>3 DEF EngineInv, StateInv, OffRefusesSoon
  <1>8. satellite_state = "off" => \A p \in Satellite \ RemoteProviders : Refuses(p)
    BY <1>3 DEF EngineInv, SatelliteRefusesSoon, RefusesSoon
  <1>9. ~Restarts /\ engine_state = "active" => is_any_active(tracked)
    BY <1>1 DEF EngineInv, ActiveIsTracked
  <1>10. \A p \in Providers, f \in Features : counter[p][f] > 0 => implCounter[p][f] > 0
    BY <1>3 DEF EngineInv, Balanced, BalancedFor, Waiting
  <1> QED
    BY <1>4, <1>5, <1>6, <1>7, <1>8, <1>9, <1>10

\* What a request pushes on the empty stack.
Requested == {"start", "session_stop", "set_does_satellite", "set_is_online"}

\* A request arrives only while no call is being made.
LEMMA RequestsWait ==
  ASSUME NEW c, NEW d, d.op \in Requested \ {"set_is_online"}
  PROVE  MayPrecede(c, d)
  BY DEF MayPrecede, Immediate, Requested

\* A request that changes no state pushes calls onto an empty stack.
LEMMA RequestStep ==
  ASSUME EngineInv, Idle, todo' \in Seq(Calls),
         \A i \in 1 .. Len(todo') :
           todo'[i].op \in Requested /\ (i > 1 => todo'[i].op # "set_is_online"),
         UNCHANGED <<providerVars, configVars, serviceVars>>
  PROVE  /\ StackInv' /\ SlotsAreCurrent' /\ AgreesSoon' /\ ShownSoon' /\ PersistedSoon'
         /\ OffRefusesSoon' /\ TracksWhileOn' /\ SatelliteRefusesSoon' /\ ActiveIsTracked'
         /\ Balanced' /\ ImplementationBalanced'
         /\ \A op : Calling(op)' => op \in Requested
  <1> USE DEF providerVars, configVars, serviceVars, Requested
  <1>1. \A op : Calling(op)' => op \in Requested
    <2> SUFFICES ASSUME todo' # <<>>
                 PROVE  Head(todo').op \in Requested
      BY DEF Calling
    <2>1. Len(todo') > 0 /\ Head(todo') = todo'[1]
      BY EmptySeq, LenProperties
    <2> QED
      BY <2>1, LenProperties
  <1>2. Nested'
    <2>1. \A j \in 1 .. Len(todo') : j > 1 => todo'[j].op \in Requested \ {"set_is_online"}
      OBVIOUS
    <2>2. \A i, j \in 1 .. Len(todo') : i < j => MayPrecede(todo'[i], todo'[j])
      BY <2>1, RequestsWait
    <2> QED
      BY <2>2 DEF Nested, MayPrecede, Immediate, SwitchesOn, Elsewhere
  <1>3. Framed'
    BY DEF Framed
  <1>4. SlotsAreCurrent'
    BY DEF SlotsAreCurrent, IsCurrent
  <1>5. AgreesSoon' /\ ShownSoon' /\ PersistedSoon'
    BY IdleFacts DEF AgreesSoon, Agreed, ShownSoon, PersistedSoon
  <1>6. OffRefusesSoon' /\ SatelliteRefusesSoon'
    BY IdleFacts DEF OffRefusesSoon, SatelliteRefusesSoon, RefusesSoon, Refuses
  <1>7. TracksWhileOn' /\ ActiveIsTracked'
    BY <1>1, IdleFacts DEF TracksWhileOn, ActiveIsTracked, is_any_active
  <1>8. Balanced'
    <2>1. \A op \in Counted : \A p, f : ~Waiting(op, p, f)'
      BY DEF Waiting, Counted
    <2> QED
      BY <2>1, IdleFacts DEF Balanced, BalancedFor, Counted
  <1>9. ImplementationBalanced'
    BY DEF EngineInv, ImplementationBalanced
  <1> QED
    BY <1>1, <1>2, <1>3, <1>4, <1>5, <1>6, <1>7, <1>8, <1>9 DEF StackInv

\* A request that leaves is_online alone.
LEMMA OtherRequest ==
  ASSUME EngineInv, Idle, TypeOK',
         \A i \in 1 .. Len(todo') : todo'[i].op \in Requested \ {"set_is_online"},
         UNCHANGED <<providerVars, configVars, serviceVars, requested>>
  PROVE  EngineInv'
  <1>1. todo' \in Seq(Calls) /\ Len(todo') \in Nat
    BY LenProperties DEF TypeOK
  <1>2. /\ StackInv' /\ SlotsAreCurrent' /\ AgreesSoon' /\ ShownSoon' /\ PersistedSoon'
        /\ OffRefusesSoon' /\ TracksWhileOn' /\ SatelliteRefusesSoon' /\ ActiveIsTracked'
        /\ Balanced' /\ ImplementationBalanced'
        /\ \A op : Calling(op)' => op \in Requested
    BY <1>1, RequestStep
  <1>3. OnlineIsKnown'
    <2>1. \A i \in 1 .. Len(todo') + 1 : Known(i)' => KnownOnline(i)' = requested
      BY DEF Known, KnownOnline, Requested
    <2>2. \A k \in 1 .. Len(todo') : ~SetsOnline(todo'[k])
      BY DEF SetsOnline, Requested
    <2>3. ~Calling("set_engine_state")'
      BY <1>2 DEF Requested
    <2>4. is_online' = requested
      BY IdleFacts DEF serviceVars
    <2> QED
      BY <2>1, <2>2, <2>3, <2>4 DEF OnlineIsKnown, LastWrite, SetsOnline
  <1> QED
    BY <1>2, <1>3 DEF EngineInv, StateInv

\* The client sets is_online.
LEMMA SetsOnlineRequest ==
  ASSUME EngineInv, NEW v \in OnOff, ClientSetsOnline(v)
  PROVE  EngineInv'
  <1> DEFINE c == Call("set_is_online", 0, 0, v)
  <1>1. c \in Calls /\ c.op = "set_is_online" /\ c.v = v
    BY DEF Calls, Call
  <1>2. todo' \in Seq(Calls) /\ Len(todo') = 1 /\ todo'[1] = c /\ Idle
    BY <1>1 DEF ClientSetsOnline
  <1>3. UNCHANGED <<claims, providerVars, configVars, serviceVars>> /\ requested' = (v = "on")
    BY DEF ClientSetsOnline
  <1> HIDE DEF c
  <1>4. TypeOK'
    BY <1>2, <1>3 DEF EngineInv, TypeOK, providerVars, configVars, serviceVars
  <1>5. \A i \in 1 .. Len(todo') :
          todo'[i].op \in Requested /\ (i > 1 => todo'[i].op # "set_is_online")
    BY <1>1, <1>2 DEF Requested
  <1>6. /\ StackInv' /\ SlotsAreCurrent' /\ AgreesSoon' /\ ShownSoon' /\ PersistedSoon'
        /\ OffRefusesSoon' /\ TracksWhileOn' /\ SatelliteRefusesSoon' /\ ActiveIsTracked'
        /\ Balanced' /\ ImplementationBalanced'
    BY <1>2, <1>3, <1>5, RequestStep
  <1>7. OnlineIsKnown'
    <2>1. ASSUME NEW i \in 1 .. Len(todo') + 1, Known(i)'
          PROVE  i = 2 /\ (KnownOnline(i)' <=> v # "off")
      <3>1. i \in {1, 2} /\ Len(todo') + 1 = 2
        BY <1>2
      <3>2. i # 1
        BY <1>1, <1>2, <2>1 DEF Known
      <3> QED
        BY <1>3, <3>1, <3>2 DEF KnownOnline, OnOff
    <2>2. 1 \in 1 .. Len(todo') /\ SetsOnline(todo'[1]) /\ todo'[1].v = v
      BY <1>1, <1>2 DEF SetsOnline
    <2>3. \A i \in 1 .. Len(todo') + 1 : Known(i)' =>
            /\ \A j \in 1 .. Len(todo') : LastWrite(j, i)' => (KnownOnline(i)' <=> todo'[j].v # "off")
            /\ ~(\A k \in 1 .. Len(todo') : k < i => ~SetsOnline(todo'[k]))
      BY <1>2, <2>1, <2>2
    <2> QED
      BY <2>3 DEF OnlineIsKnown, SetsOnline
  <1> QED
    BY <1>4, <1>6, <1>7 DEF EngineInv, StateInv

\* Every request preserves the invariant.
LEMMA RequestInv ==
  ASSUME EngineInv, Request
  PROVE  EngineInv'
  <1> USE DEF EngineInv, providerVars, configVars, serviceVars, clientVars
  <1>1. ASSUME NEW v \in OnOff, ClientSetsSatellite(v)
        PROVE  EngineInv'
    <2> DEFINE c == Call("set_does_satellite", 0, 0, v)
    <2>1. c \in Calls /\ c.op = "set_does_satellite"
      BY DEF Calls, Call
    <2>2. todo' \in Seq(Calls) /\ Len(todo') = 1 /\ todo'[1] = c /\ Idle
      BY <1>1, <2>1 DEF ClientSetsSatellite
    <2> HIDE DEF c
    <2>3. TypeOK'
      BY <1>1, <2>2 DEF TypeOK, ClientSetsSatellite
    <2>4. \A i \in 1 .. Len(todo') : todo'[i].op \in Requested \ {"set_is_online"}
      BY <2>1, <2>2 DEF Requested
    <2> QED
      BY <1>1, <2>2, <2>3, <2>4, OtherRequest DEF ClientSetsSatellite
  <1>2. ASSUME NEW s \in Sessions, NEW f \in Features, SessionStart(s, f)
        PROVE  EngineInv'
    <2>1. /\ Fused(s, "start", f) \in Seq(Calls)
          /\ \A k \in 1 .. Len(Fused(s, "start", f)) : Fused(s, "start", f)[k].op = "start"
      BY FusedCalls
    <2>2. todo' = Fused(s, "start", f) /\ Idle
      BY <1>2 DEF SessionStart
    <2>3. claims' \in [Sessions -> SUBSET Features]
      BY <1>2 DEF TypeOK, SessionStart
    <2>4. TypeOK'
      BY <1>2, <2>1, <2>2, <2>3 DEF TypeOK, SessionStart
    <2>5. \A i \in 1 .. Len(todo') : todo'[i].op \in Requested \ {"set_is_online"}
      BY <2>1, <2>2 DEF Requested
    <2> QED
      BY <1>2, <2>2, <2>4, <2>5, OtherRequest DEF SessionStart
  <1>3. ASSUME NEW s \in Sessions, NEW f \in Features, SessionStop(s, f)
        PROVE  EngineInv'
    <2> DEFINE c == Call("session_stop", 0, f, s)
    <2>1. c \in Calls /\ c.op = "session_stop"
      BY DEF Calls, Call
    <2>2. todo' \in Seq(Calls) /\ Len(todo') = 1 /\ todo'[1] = c /\ Idle
      BY <1>3, <2>1 DEF SessionStop
    <2> HIDE DEF c
    <2>3. TypeOK'
      BY <1>3, <2>2 DEF TypeOK, SessionStop
    <2>4. \A i \in 1 .. Len(todo') : todo'[i].op \in Requested \ {"set_is_online"}
      BY <2>1, <2>2 DEF Requested
    <2> QED
      BY <1>3, <2>2, <2>3, <2>4, OtherRequest DEF SessionStop
  <1>4. ASSUME NEW s \in Sessions, SessionDestroyed(s)
        PROVE  EngineInv'
    <2> DEFINE calls == [f \in Features |-> Call("session_stop", 0, f, s)]
    <2>1. \A f \in Features : Call("session_stop", 0, f, s) \in Calls
      BY DEF Calls, Call
    <2>2. calls \in [1 .. NFeatures -> Calls]
      BY <2>1 DEF Features
    <2>3. calls \in Seq(Calls) /\ Len(calls) = NFeatures
      BY <2>2, SeqDef, LenProperties, EngineAssumption
    <2>4. \A i \in 1 .. Len(calls) : calls[i].op = "session_stop"
      <3>1. \A i \in 1 .. Len(calls) : calls[i] = Call("session_stop", 0, i, s)
        BY <2>3 DEF Features
      <3> HIDE DEF calls
      <3> QED
        BY <3>1, CallFields
    <2>5. todo' = calls /\ Idle
      BY <1>4 DEF SessionDestroyed
    <2> HIDE DEF calls
    <2>6. TypeOK'
      BY <1>4, <2>3, <2>5 DEF TypeOK, SessionDestroyed
    <2>7. \A i \in 1 .. Len(todo') : todo'[i].op \in Requested \ {"set_is_online"}
      BY <2>4, <2>5 DEF Requested
    <2> QED
      BY <1>4, <2>5, <2>6, <2>7, OtherRequest DEF SessionDestroyed
  <1> QED
    BY <1>1, <1>2, <1>3, <1>4, SetsOnlineRequest DEF Request

-----------------------------------------------------------------------------
(* The daemon comes up, for the first time or after a crash. *)

\* The state a start of the daemon makes of what the settings hold.
Fresh ==
  /\ settings \in Status
  /\ engine_state = settings
  /\ satellite_state = "on"
  /\ counter = FreshCounters(settings)
  /\ tracked = [p \in Providers |-> "enabled"]
  /\ implCounter = [p \in Providers |-> [f \in Features |-> 0]]
  /\ hardware = NoneRunning
  /\ is_online = FALSE
  /\ does_satellite = FALSE
  /\ service_state = "disabled"
  /\ claims = [s \in Sessions |-> {}]
  /\ requested = (settings # "off")
  /\ ~Restarts => settings # "active"
  /\ todo = Booted(settings)

\* The calls that the start of the daemon makes.
LEMMA BootedCalls ==
  ASSUME NEW s \in Status
  PROVE  /\ Booted(s) \in Seq(Calls) /\ Len(Booted(s)) = 3
         /\ Booted(s)[1].op = "set_is_online" /\ (Booted(s)[1].v # "off" <=> s # "off")
         /\ Booted(s)[2].op = "set_service_state" /\ (Booted(s)[2].v # "disabled" <=> s # "off")
         /\ Booted(s)[3].op = "set_does_satellite"
  <1> DEFINE a == Call("set_is_online", 0, 0, OnOffFor(s))
             b == Call("set_service_state", 0, 0, ServiceStateFor(s))
             c == Call("set_does_satellite", 0, 0, "on")
  <1>1. a \in Calls /\ b \in Calls /\ c \in Calls
    BY Mirrored DEF Calls, Call, OnOff
  <1>2. Booted(s) = Append(<<a, b>>, c)
    BY DEF Booted, MirrorOf
  <1>3. /\ a.op = "set_is_online" /\ a.v = OnOffFor(s)
        /\ b.op = "set_service_state" /\ b.v = ServiceStateFor(s)
        /\ c.op = "set_does_satellite"
    BY CallFields
  <1> HIDE DEF a, b, c
  <1>4. <<a, b>> \in Seq(Calls) /\ Len(<<a, b>>) = 2
    BY <1>1
  <1>5. /\ Booted(s) \in Seq(Calls) /\ Len(Booted(s)) = 3
        /\ Booted(s)[1] = a /\ Booted(s)[2] = b /\ Booted(s)[3] = c
    BY <1>1, <1>2, <1>4, AppendProperties
  <1> QED
    BY <1>3, <1>5, Mirrored

\* A fresh daemon is well typed.
LEMMA FreshTyped == Fresh => TypeOK
  <1> SUFFICES ASSUME Fresh
               PROVE  TypeOK
    OBVIOUS
  <1>1. todo \in Seq(Calls)
    BY BootedCalls DEF Fresh
  <1>2. /\ counter \in [Providers -> [Features -> Int]]
        /\ implCounter \in [Providers -> [Features -> Int]]
    BY DEF Fresh, FreshCounters
  <1>3. /\ tracked \in [Providers -> TrackedState]
        /\ hardware \in [Providers -> [Features -> BOOLEAN]]
        /\ claims \in [Sessions -> SUBSET Features]
    BY DEF Fresh, NoneRunning, TrackedState
  <1>4. /\ engine_state \in Status /\ settings \in Status
        /\ satellite_state \in OnOff /\ service_state \in ServiceState
        /\ is_online \in BOOLEAN /\ does_satellite \in BOOLEAN /\ requested \in BOOLEAN
    BY DEF Fresh, OnOff, ServiceState
  <1> QED
    BY <1>1, <1>2, <1>3, <1>4 DEF TypeOK

\* A fresh daemon satisfies the invariant, whatever its settings hold.
LEMMA FreshInv == Fresh => EngineInv
  <1> SUFFICES ASSUME Fresh
               PROVE  EngineInv
    OBVIOUS
  <1> DEFINE s == settings
  <1>1. /\ todo \in Seq(Calls) /\ Len(todo) = 3
        /\ todo[1].op = "set_is_online" /\ (todo[1].v # "off" <=> s # "off")
        /\ todo[2].op = "set_service_state" /\ (todo[2].v # "disabled" <=> s # "off")
        /\ todo[3].op = "set_does_satellite"
    BY BootedCalls DEF Fresh
  <1>2. Positions = {1, 2, 3}
    BY <1>1
  <1>3. todo # <<>> /\ This = todo[1]
    <2>1. todo # <<>>
      <3>1. todo \in Seq(Calls) /\ Len(todo) = 3
        BY <1>1
      <3> QED
        BY <3>1, EmptySeq
    <2> QED
      BY <1>1, <2>1 DEF This
  <1>4. \A op : Calling(op) => op = "set_is_online"
    BY <1>1, <1>3 DEF Calling, This
  <1>5. Nested /\ Framed
    BY <1>1, <1>2 DEF Nested, Framed, MayPrecede, Immediate
  <1>6. SlotsAreCurrent
    BY <1>1, <1>2 DEF SlotsAreCurrent, IsCurrent
  <1>7. FirstMirror(1)
    BY <1>1, <1>2 DEF FirstMirror, Mirroring
  <1>8. AgreesSoon /\ ShownSoon /\ PersistedSoon
    BY <1>1, <1>2, <1>7 DEF AgreesSoon, ShownSoon, PersistedSoon, Fresh
  <1>9. OnlineIsKnown
    <2>1. ASSUME NEW i \in 1 .. Len(todo) + 1, Known(i)
          PROVE  /\ i \in {2, 4}
                 /\ KnownOnline(i) <=> s # "off"
      <3>1. i \in {1, 2, 3, 4} /\ Len(todo) + 1 = 4
        BY <1>1
      <3>2. i \in {2, 4}
        BY <1>1, <2>1, <3>1 DEF Known
      <3> QED
        BY <1>1, <3>1, <3>2 DEF KnownOnline, Fresh
    <2>2. SetsOnline(todo[1]) /\ ~SetsOnline(todo[2]) /\ ~SetsOnline(todo[3])
      BY <1>1 DEF SetsOnline
    <2>3. ASSUME NEW i \in 1 .. Len(todo) + 1, Known(i)
          PROVE  /\ \A j \in Positions : LastWrite(j, i) => (KnownOnline(i) <=> todo[j].v # "off")
                 /\ ~(\A k \in Positions : k < i => ~SetsOnline(todo[k]))
      <3>1. i \in {2, 4} /\ (KnownOnline(i) <=> s # "off")
        BY <2>1, <2>3
      <3>2. \A j \in Positions : LastWrite(j, i) => j = 1
        BY <1>2, <2>2 DEF LastWrite
      <3> QED
        BY <1>1, <1>2, <2>2, <3>1, <3>2
    <2> QED
      BY <2>3 DEF OnlineIsKnown
  <1>10. OffRefusesSoon
    BY DEF OffRefusesSoon, Refuses, Fresh, FreshCounters
  <1>11. TracksWhileOn /\ ActiveIsTracked
    BY <1>4 DEF TracksWhileOn, ActiveIsTracked, Fresh
  <1>12. SatelliteRefusesSoon
    BY DEF SatelliteRefusesSoon, RefusesSoon, Fresh
  <1>13. Balanced /\ ImplementationBalanced
    <2>1. \A p, f : ~Waiting("impl_stop", p, f)
      BY <1>1, <1>2 DEF Waiting
    <2> QED
      BY <2>1 DEF Balanced, BalancedFor, ImplementationBalanced, Fresh,
          FreshCounters, NoneRunning
  <1> QED
    BY <1>5, <1>6, <1>8, <1>9, <1>10, <1>11, <1>12, <1>13, FreshTyped
    DEF EngineInv, StackInv, StateInv

\* The daemon starts fresh.
LEMMA InitFresh == Init => Fresh
  BY DEF Init, Fresh, Status

\* It restarts fresh: what the client asked for last is what was persisted.
LEMMA RestartFresh ==
  ASSUME EngineInv, Restart
  PROVE  Fresh'
  <1>1. settings \in Status /\ settings' = settings
    BY DEF EngineInv, TypeOK, Restart
  <1>2. requested' = (settings # "off")
    <2>1. CASE Idle
      <3>1. is_online \in BOOLEAN /\ requested \in BOOLEAN
        BY DEF EngineInv, TypeOK
      <3>2. is_online = requested /\ Agreed /\ settings = engine_state
        BY <2>1, IdleFacts
      <3> QED
        BY <2>1, <3>1, <3>2 DEF Restart, Agreed
    <2>2. CASE ~Idle
      BY <2>2 DEF Restart
    <2> QED
      BY <2>1, <2>2
  <1> QED
    BY <1>1, <1>2 DEF Restart, Fresh

\* Stuttering preserves the invariant.
LEMMA UnchangedInv ==
  ASSUME EngineInv, UNCHANGED vars
  PROVE  EngineInv'
  <1> USE DEF vars, providerVars, configVars, serviceVars, clientVars
  <1>1. TypeOK'
    BY DEF EngineInv, TypeOK
  <1>2. StackInv'
    BY DEF EngineInv, StackInv, Nested, Framed, MayPrecede, SwitchesOn, Elsewhere,
        Immediate
  <1>3. SlotsAreCurrent' /\ TracksWhileOn'
    BY DEF EngineInv, StateInv, SlotsAreCurrent, IsCurrent, TracksWhileOn,
        FirstMirror, Calling, This
  <1>4. AgreesSoon' /\ ShownSoon'
    BY DEF EngineInv, StateInv, AgreesSoon, ShownSoon, Agreed, FirstMirror, Calling,
        This
  <1>5. OnlineIsKnown'
    BY DEF EngineInv, StateInv, OnlineIsKnown, Known, KnownOnline, LastWrite,
        SetsOnline,
           Calling, This
  <1>6. PersistedSoon'
    BY DEF EngineInv, StateInv, PersistedSoon, AboutToSwitchOff, This
  <1>7. OffRefusesSoon' /\ SatelliteRefusesSoon'
    BY DEF EngineInv, StateInv, OffRefusesSoon, SatelliteRefusesSoon, RefusesSoon, Refuses, Disables,
           DisablesSatellite, FirstMirror
  <1>8. ActiveIsTracked' /\ Balanced' /\ ImplementationBalanced'
    BY DEF EngineInv, ActiveIsTracked, is_any_active, Calling, This, Balanced,
        BalancedFor,
           Waiting, ImplementationBalanced
  <1> QED
    BY <1>1, <1>2, <1>3, <1>4, <1>5, <1>6, <1>7, <1>8 DEF EngineInv, StateInv
-----------------------------------------------------------------------------
(* The engine implements the switch: a request that finds it where it is to  *)
(* be never makes a call that moves it.                                      *)

\* What is true of the calls that wait and of those pushed is true of the
\* stack after the step.
LEMMA StaysOnStep ==
  ASSUME NEW calls, Replaced(calls), StaysOn, engine_state' # "off", settings' # "off",
         \A i \in 1 .. Len(calls) : ~SwitchesOff(calls[i])
  PROVE  StaysOn'
  <1>1. ASSUME NEW i \in 1 .. Len(todo')
        PROVE  ~SwitchesOff(todo'[i])
    <2>1. CASE i > Len(calls)
      BY <1>1, <2>1 DEF Replaced, StaysOn
    <2>2. CASE ~(i > Len(calls))
      BY <1>1, <2>2 DEF Replaced
    <2> QED
      BY <2>1, <2>2
  <1>2. \A c : SwitchesOff(c)' <=> SwitchesOff(c)
    BY DEF SwitchesOff
  <1> QED
    BY <1>1, <1>2 DEF StaysOn, SwitchesOff

\* No call switches off a service that is on and stays on.
LEMMA StaysOnDispatch ==
  ASSUME TypeOK, StaysOn, Dispatch
  PROVE  StaysOn'
  <1>1. \A calls : Replaced(calls) => ~SwitchesOff(todo[1])
    BY DEF Replaced, StaysOn
  <1>2. engine_state # "off" /\ settings # "off"
    BY DEF StaysOn
  <1>3. CASE ~Loud
    <2>1. PICK calls : Replaced(calls) /\ Quiet(calls)
      BY <1>3, QuietDispatch
    <2>2. \A i \in 1 .. Len(calls) : ~SwitchesOff(calls[i])
      BY <2>1 DEF Quiet, SwitchesOff, Mirroring
    <2> QED
      BY <1>2, <2>1, <2>2, StaysOnStep DEF Quiet
  <1>4. CASE TrackState
    <2>1. PICK s \in {"active", "on"} :
            Replaced(<<>>) \/ Replaced(<<Call("set_engine_state", 0, 0, s)>>)
      BY <1>4, TrackStep
    <2>2. engine_state' = engine_state /\ settings' = settings
      BY <1>4 DEF TrackState, configVars
    <2>3. ~SwitchesOff(Call("set_engine_state", 0, 0, s))
      BY DEF SwitchesOff, Call
    <2> QED
      BY <1>2, <2>1, <2>2, <2>3, StaysOnStep
  <1>5. CASE SetEngineState
    <2>1. PICK v \in Status :
            /\ todo[1] = Call("set_engine_state", 0, 0, v)
            /\ engine_state' = v
            /\ \/ Replaced(<<>>)
               \/ Replaced(<<Call("engine_slot", 0, 0, v), Call("persist", 0, 0, v),
                             Call("service_slot", 0, 0, v)>>)
      BY <1>5, SetEngineStep
    <2>2. v # "off"
      BY <1>1, <2>1 DEF SwitchesOff, Call
    <2>3. settings' = settings
      BY <1>5 DEF SetEngineState
    <2>4. \A i \in 1 .. 3 : ~SwitchesOff(<<Call("engine_slot", 0, 0, v),
            Call("persist", 0, 0, v), Call("service_slot", 0, 0, v)>>[i])
      BY <2>2 DEF SwitchesOff, Call
    <2> QED
      BY <1>2, <2>1, <2>2, <2>3, <2>4, StaysOnStep
  <1>6. CASE PersistEngineState
    <2>1. PICK v \in Status :
            todo[1] = Call("persist", 0, 0, v) /\ settings' = v /\ Replaced(<<>>)
      BY <1>6, PersistStep
    <2>2. v # "off"
      BY <1>1, <2>1 DEF SwitchesOff, Call
    <2>3. engine_state' = engine_state
      BY <1>6 DEF PersistEngineState
    <2> QED
      BY <1>2, <2>1, <2>2, <2>3, StaysOnStep
  <1>7. CASE SetIsOnline
    <2>1. PICK v \in OnOff :
            /\ todo[1] = Call("set_is_online", 0, 0, v)
            /\ Replaced(<<>>) \/ Replaced(<<Call("set_engine_state", 0, 0, v)>>)
      BY <1>7, SetOnlineStep
    <2>2. ~SwitchesOff(Call("set_engine_state", 0, 0, v))
      BY <1>1, <2>1 DEF SwitchesOff, Call
    <2>3. engine_state' = engine_state /\ settings' = settings
      BY <1>7 DEF SetIsOnline, configVars
    <2> QED
      BY <1>2, <2>1, <2>2, <2>3, StaysOnStep
  <1>8. CASE ServiceSlot
    <2>1. PICK v \in Status :
            todo[1] = Call("service_slot", 0, 0, v) /\ Replaced(MirrorOf(v))
      BY <1>8, ServiceSlotStep
    <2>2. v # "off"
      BY <1>1, <2>1 DEF SwitchesOff, Call
    <2>3. \A i \in 1 .. Len(MirrorOf(v)) : ~SwitchesOff(MirrorOf(v)[i])
      BY <2>2, Mirrored DEF SwitchesOff, MirrorOf, Call, OnOff
    <2>4. engine_state' = engine_state /\ settings' = settings
      BY <1>8 DEF ServiceSlot, configVars
    <2> QED
      BY <1>2, <2>1, <2>3, <2>4, StaysOnStep
  <1>9. CASE SetServiceState
    <2>1. Replaced(<<>>)
      BY <1>9, SetServiceStep
    <2>2. engine_state' = engine_state /\ settings' = settings
      BY <1>9 DEF SetServiceState, configVars
    <2> QED
      BY <1>2, <2>1, <2>2, StaysOnStep
  <1> QED
    BY <1>3, <1>4, <1>5, <1>6, <1>7, <1>8, <1>9 DEF Loud

\* The same for the calls that switch something on.
LEMMA StaysOffStep ==
  ASSUME NEW calls, Replaced(calls), StaysOff, engine_state' = "off", settings' = "off",
         \A p \in Providers : Refuses(p)',
         \A i \in 1 .. Len(calls) : ~SwitchesOn(calls[i])
  PROVE  StaysOff'
  <1>1. ASSUME NEW i \in 1 .. Len(todo')
        PROVE  ~SwitchesOn(todo'[i])
    <2>1. CASE i > Len(calls)
      BY <1>1, <2>1 DEF Replaced, StaysOff
    <2>2. CASE ~(i > Len(calls))
      BY <1>1, <2>2 DEF Replaced
    <2> QED
      BY <2>1, <2>2
  <1> QED
    BY <1>1 DEF StaysOff, SwitchesOn, Refuses

\* While every provider refuses, a step that moves counters starts none of them
\* and reports nothing.
LEMMA RefusedMoves ==
  ASSUME TypeOK, StaysOff, Dispatch, MovesCounters
  PROVE  StaysOff'
  <1>1. \A calls : Replaced(calls) => ~SwitchesOn(todo[1])
    BY DEF Replaced, StaysOff
  <1>2. /\ engine_state = "off" /\ settings = "off"
        /\ \A p \in Providers : Refuses(p)
        /\ \A p \in Providers, f \in Features : counter[p][f] \in Int /\ counter[p][f] < 0
    BY DEF StaysOff, Refuses, TypeOK
  <1>3. engine_state' = "off" /\ settings' = "off"
    BY <1>2 DEF MovesCounters, StartUpdates, StopUpdates, EnableProvider, DisableProvider,
         StopIfCounted, MarkDisabled, ImplStart, ImplStop, configVars
  <1>4. CASE StartUpdates
    <2>1. PICK p \in Providers, f \in Features :
            /\ counter' = [counter EXCEPT ![p][f] = Incremented(@)]
            /\ counter[p][f] = 0 \/ Replaced(<<>>)
      BY <1>4, StartStep
    <2>2. \A q \in Providers : Refuses(q)'
      BY <1>2, <2>1, CountingRefuses
    <2> QED
      BY <1>2, <1>3, <2>1, <2>2, StaysOffStep
  <1>5. CASE StopUpdates
    <2>1. PICK p \in Providers, f \in Features :
            /\ counter' = [counter EXCEPT ![p][f] = Decremented(@)]
            /\ counter[p][f] = 1 \/ Replaced(<<>>)
      BY <1>5, StopStep
    <2>2. \A q \in Providers : Refuses(q)'
      BY <1>2, <2>1, CountingRefuses
    <2> QED
      BY <1>2, <1>3, <2>1, <2>2, StaysOffStep
  <1>6. CASE EnableProvider
    <2>1. Replaced(<<>>) /\ ~Calling("enable_if_on")
      BY <1>2, <1>6, EnableStep DEF EnableProvider, Calling
    <2>2. Calling("enable") /\ todo[1].op = "enable"
      BY <1>6, <2>1, Called DEF EnableProvider
    <2> QED
      BY <1>1, <2>1, <2>2 DEF SwitchesOn
  <1>7. CASE DisableProvider
    <2>1. PICK p \in Providers, calls \in Seq(Calls) :
            /\ Replaced(calls)
            /\ Len(calls) = NFeatures + 1
            /\ \A f \in 1 .. NFeatures : calls[f] = Call("stop_if_counted", p, f, "-")
            /\ calls[NFeatures + 1] = Call("mark_disabled", p, 0, "-")
      BY <1>7, DisableStep
    <2>2. ASSUME NEW i \in 1 .. Len(calls)
          PROVE  ~SwitchesOn(calls[i])
      <3>1. i \in 1 .. NFeatures \/ i = NFeatures + 1
        BY <2>1, EngineAssumption
      <3>2. calls[i].op \in {"stop_if_counted", "mark_disabled"}
        BY <2>1, <3>1, CallFields
      <3> QED
        BY <3>2 DEF SwitchesOn
    <2>3. \A q \in Providers : Refuses(q)'
      BY <1>2, <1>7 DEF DisableProvider, providerVars, Refuses
    <2> QED
      BY <1>3, <2>1, <2>2, <2>3, StaysOffStep
  <1>8. CASE StopIfCounted
    <2>1. PICK p \in Providers, f \in Features : counter[p][f] > 0 \/ Replaced(<<>>)
      BY <1>8, StopIfStep
    <2>2. ~(counter[p][f] > 0)
      BY <1>2
    <2>3. \A q \in Providers : Refuses(q)'
      BY <1>2, <1>8 DEF StopIfCounted, providerVars, Refuses
    <2> QED
      BY <1>2, <1>3, <2>1, <2>3, <2>2, StaysOffStep
  <1>9. CASE MarkDisabled
    <2>1. PICK p \in Providers :
            counter' = [counter EXCEPT ![p] = [f \in Features |-> -1]] /\ Replaced(<<>>)
      BY <1>9, MarkStep
    <2>2. \A q \in Providers : Refuses(q)'
      BY <1>2, <2>1, MarkRefuses
    <2> QED
      BY <1>3, <2>1, <2>2, StaysOffStep
  <1>10. CASE ImplStart \/ ImplStop
    <2>1. Replaced(<<>>)
      BY <1>10, ImplStartStep, ImplStopStep
    <2>2. \A q \in Providers : Refuses(q)'
      BY <1>2, <1>10 DEF ImplStart, ImplStop, Refuses
    <2> QED
      BY <1>3, <2>1, <2>2, StaysOffStep
  <1> QED
    BY <1>4, <1>5, <1>6, <1>7, <1>8, <1>9, <1>10 DEF MovesCounters

\* No call switches on a service that is off and stays off.
LEMMA StaysOffDispatch ==
  ASSUME TypeOK, StaysOff, Dispatch
  PROVE  StaysOff'
  <1>1. \A calls : Replaced(calls) => ~SwitchesOn(todo[1])
    BY DEF Replaced, StaysOff
  <1>2. /\ engine_state = "off" /\ settings = "off"
        /\ \A p \in Providers : Refuses(p)
    BY DEF StaysOff
  <1>3. CASE MovesCounters
    BY <1>3, RefusedMoves
  <1>4. ASSUME ~MovesCounters
        PROVE  \A q \in Providers : Refuses(q)'
    <2>1. counter' = counter
      BY <1>4, PlainDispatch DEF Plain
    <2> QED
      BY <1>2, <2>1 DEF Refuses
  <1>5. CASE ~Loud /\ ~MovesCounters
    <2>1. PICK calls : Replaced(calls) /\ Plain(calls)
      BY <1>5, PlainDispatch
    <2>2. UNCHANGED <<engine_state, settings>>
      BY <1>5, QuietDispatch DEF Quiet
    <2>3. CASE EngineSlot
      <3>1. PICK v \in Status, called \in Seq(Calls) :
              /\ todo[1] = Call("engine_slot", 0, 0, v)
              /\ Replaced(called)
              /\ v # "active" =>
                   /\ Len(called) = NProviders
                   /\ \A p \in 1 .. NProviders :
                        called[p] = Call(IF v = "on" THEN "enable" ELSE "disable", p, 0, "-")
        BY <2>3, EngineSlotStep
      <3>2. v = "off"
        BY <1>1, <3>1 DEF SwitchesOn, Call
      <3>3. \A i \in 1 .. Len(called) : called[i].op = "disable"
        BY <3>1, <3>2, CallFields
      <3>4. \A i \in 1 .. Len(called) : ~SwitchesOn(called[i])
        BY <3>3 DEF SwitchesOn
      <3> QED
        BY <1>2, <1>4, <1>5, <2>2, <3>1, <3>4, StaysOffStep
    <2>4. CASE SkipEnable \/ SkipDisable \/ RequiresUnanswered
      <3>1. Replaced(<<>>)
        BY <2>4, SkipStep, UnansweredStep
      <3> QED
        BY <1>2, <1>4, <1>5, <2>2, <3>1, StaysOffStep
    <2>5. CASE SetSatelliteState
      <3>1. PICK v \in OnOff :
              \/ Replaced(<<>>)
              \/ Replaced(<<Call("satellite_slot", 0, 0, v), Call("satellite_mirror", 0, 0, v)>>)
        BY <2>5, SetSatelliteStep
      <3>2. \A i \in 1 .. 2 : ~SwitchesOn(<<Call("satellite_slot", 0, 0, v),
              Call("satellite_mirror", 0, 0, v)>>[i])
        BY DEF SwitchesOn, Call
      <3> QED
        BY <1>2, <1>4, <1>5, <2>2, <3>1, <3>2, StaysOffStep
    <2>6. CASE SatelliteSlot
      <3>1. PICK v \in OnOff, called \in Seq(Calls) :
              /\ Replaced(called)
              /\ Len(called) = NProviders
              /\ \A p \in 1 .. NProviders : called[p] =
                   Call(IF v = "on" THEN "enable_if_on" ELSE "disable_satellite", p, 0, "-")
        BY <2>6, SatelliteSlotStep
      <3>2. \A i \in 1 .. Len(called) : called[i].op \in {"enable_if_on", "disable_satellite"}
        BY <3>1 DEF Call
      <3>3. \A i \in 1 .. Len(called) : ~SwitchesOn(called[i])
        BY <3>2 DEF SwitchesOn
      <3> QED
        BY <1>2, <1>4, <1>5, <2>2, <3>1, <3>3, StaysOffStep
    <2>7. CASE SatelliteMirror \/ SetDoesSatellite
      <3>1. PICK v \in OnOff :
              \/ Replaced(<<>>)
              \/ Replaced(<<Call("set_does_satellite", 0, 0, v)>>)
              \/ Replaced(<<Call("set_satellite_state", 0, 0, v)>>)
        BY <2>7, SatelliteMirrorStep, SetSatelliteUseStep
      <3>2. /\ ~SwitchesOn(Call("set_does_satellite", 0, 0, v))
            /\ ~SwitchesOn(Call("set_satellite_state", 0, 0, v))
        BY DEF SwitchesOn, Call
      <3> QED
        BY <1>2, <1>4, <1>5, <2>2, <3>1, <3>2, StaysOffStep
    <2>8. CASE StopSession
      <3>1. PICK called \in Seq(Calls) :
              Replaced(called) /\ \A k \in 1 .. Len(called) : called[k].op = "stop"
        BY <2>8, StopSessionStep
      <3>2. \A i \in 1 .. Len(called) : ~SwitchesOn(called[i])
        BY <3>1 DEF SwitchesOn
      <3> QED
        BY <1>2, <1>4, <1>5, <2>2, <3>1, <3>2, StaysOffStep
    <2> QED
      BY <1>5, <2>3, <2>4, <2>5, <2>6, <2>7, <2>8 DEF Dispatch, Proceed, Loud, MovesCounters
  <1>6. CASE TrackState
    <2>1. todo[1].op = "track" /\ \E calls : Replaced(calls)
      BY <1>6, TrackStep, CallFields
    <2> QED
      BY <1>1, <2>1 DEF SwitchesOn
  <1>7. CASE SetEngineState
    <2>1. PICK v \in Status :
            /\ todo[1] = Call("set_engine_state", 0, 0, v)
            /\ \/ engine_state = v /\ Replaced(<<>>)
               \/ engine_state # v /\ Replaced(<<Call("engine_slot", 0, 0, v),
                    Call("persist", 0, 0, v), Call("service_slot", 0, 0, v)>>)
            /\ engine_state' = v
      BY <1>7, SetEngineStep
    <2>2. v = "off"
      BY <1>1, <2>1 DEF SwitchesOn, Call
    <2>3. settings' = "off" /\ \A q \in Providers : Refuses(q)'
      BY <1>2, <1>7 DEF SetEngineState, providerVars, Refuses
    <2> QED
      BY <1>2, <2>1, <2>2, <2>3, StaysOffStep
  <1>8. CASE PersistEngineState
    <2>1. PICK v \in Status :
            todo[1] = Call("persist", 0, 0, v) /\ settings' = v /\ Replaced(<<>>)
      BY <1>8, PersistStep
    <2>2. v = "off"
      BY <1>1, <2>1 DEF SwitchesOn, Call
    <2>3. engine_state' = "off" /\ \A q \in Providers : Refuses(q)'
      BY <1>2, <1>8 DEF PersistEngineState, providerVars, Refuses
    <2> QED
      BY <2>1, <2>2, <2>3, StaysOffStep
  <1>9. CASE SetIsOnline
    <2>1. PICK v \in OnOff :
            /\ todo[1] = Call("set_is_online", 0, 0, v)
            /\ Replaced(<<>>) \/ Replaced(<<Call("set_engine_state", 0, 0, v)>>)
      BY <1>9, SetOnlineStep
    <2>2. ~SwitchesOn(Call("set_engine_state", 0, 0, v))
      BY <1>1, <2>1 DEF SwitchesOn, Call, OnOff
    <2>3. engine_state' = "off" /\ settings' = "off" /\ \A q \in Providers : Refuses(q)'
      BY <1>2, <1>9 DEF SetIsOnline, configVars, providerVars, Refuses
    <2> QED
      BY <2>1, <2>2, <2>3, StaysOffStep
  <1>10. CASE ServiceSlot
    <2>1. PICK v \in Status :
            todo[1] = Call("service_slot", 0, 0, v) /\ Replaced(MirrorOf(v))
      BY <1>10, ServiceSlotStep
    <2>2. v = "off"
      BY <1>1, <2>1 DEF SwitchesOn, Call
    <2>3. \A i \in 1 .. Len(MirrorOf(v)) : ~SwitchesOn(MirrorOf(v)[i])
      BY <2>2, Mirrored DEF SwitchesOn, MirrorOf, Call
    <2>4. engine_state' = "off" /\ settings' = "off" /\ \A q \in Providers : Refuses(q)'
      BY <1>2, <1>10 DEF ServiceSlot, configVars, providerVars, Refuses
    <2> QED
      BY <2>1, <2>3, <2>4, StaysOffStep
  <1>11. CASE SetServiceState
    <2>1. Replaced(<<>>)
      BY <1>11, SetServiceStep
    <2>2. engine_state' = "off" /\ settings' = "off" /\ \A q \in Providers : Refuses(q)'
      BY <1>2, <1>11 DEF SetServiceState, configVars, providerVars, Refuses
    <2> QED
      BY <2>1, <2>2, StaysOffStep
  <1> QED
    BY <1>3, <1>5, <1>6, <1>7, <1>8, <1>9, <1>10, <1>11 DEF Loud

\* A daemon that comes up with its settings as they are makes no call that
\* changes them.
LEMMA FreshSwitch == Fresh /\ before = requested => SwitchInv
  <1> SUFFICES ASSUME Fresh, before = requested
               PROVE  SwitchInv
    OBVIOUS
  <1>1. /\ Len(todo) = 3
        /\ todo[1].op = "set_is_online" /\ (todo[1].v # "off" <=> settings # "off")
        /\ todo[2].op = "set_service_state" /\ (todo[2].v # "disabled" <=> settings # "off")
        /\ todo[3].op = "set_does_satellite"
    BY BootedCalls DEF Fresh
  <1>2. Positions = {1, 2, 3}
    BY <1>1
  <1>3. requested \in BOOLEAN /\ engine_state = settings /\ (requested <=> settings # "off")
    BY DEF Fresh
  <1>4. CASE requested
    <2>1. \A i \in Positions : ~SwitchesOff(todo[i])
      BY <1>1, <1>2, <1>3, <1>4 DEF SwitchesOff
    <2> QED
      BY <1>3, <1>4, <2>1 DEF SwitchInv, UnmovedSwitchStays, StaysOn
  <1>5. CASE ~requested
    <2>1. \A i \in Positions : ~SwitchesOn(todo[i])
      BY <1>1, <1>2, <1>3, <1>5 DEF SwitchesOn
    <2>2. \A p \in Providers : Refuses(p)
      BY <1>3, <1>5 DEF Refuses, Fresh, FreshCounters
    <2> QED
      BY <1>3, <1>5, <2>1, <2>2 DEF SwitchInv, UnmovedSwitchStays, StaysOff
  <1> QED
    BY <1>3, <1>4, <1>5

\* The dispatching thread makes a call while there is one, and what the client
\* asked for is not its to change.
LEMMA DispatchKeeps ==
  ASSUME Dispatch
  PROVE  ~Idle /\ requested' = requested
  BY DEF Dispatch, Proceed, RequiresUnanswered, Asks, StartUpdates, StopUpdates, EnableProvider, SkipEnable, DisableProvider,
    SkipDisable, StopIfCounted, MarkDisabled, ImplStart, ImplStop, TrackState, SetEngineState,
    EngineSlot, PersistEngineState, SetSatelliteState, SatelliteSlot, SatelliteMirror,
    SetIsOnline, SetDoesSatellite, ServiceSlot, SetServiceState, StopSession, Calling, Idle,
    clientVars

\* The calls a request pushes move the switch to where it was asked to be.
LEMMA RequestAsks ==
  ASSUME EngineInv, Request
  PROVE  /\ Idle
         /\ UNCHANGED <<providerVars, configVars, serviceVars>>
         /\ requested' \in BOOLEAN
         /\ requested' = requested \/ ~Idle'
         /\ \A i \in 1 .. Len(todo') :
              \/ todo'[i].op \in {"start", "session_stop", "set_does_satellite"}
              \/ /\ todo'[i].op = "set_is_online"
                 /\ todo'[i].v = IF requested' THEN "on" ELSE "off"
  <1> USE DEF clientVars
  <1>1. requested \in BOOLEAN
    BY DEF EngineInv, TypeOK
  <1>2. ASSUME NEW v \in OnOff, ClientSetsOnline(v)
        PROVE  /\ requested' \in BOOLEAN /\ ~Idle'
               /\ \A i \in 1 .. Len(todo') :
                    /\ todo'[i].op = "set_is_online"
                    /\ todo'[i].v = IF requested' THEN "on" ELSE "off"
    <2>1. /\ requested' = (v = "on")
          /\ todo' = <<Call("set_is_online", 0, 0, v)>>
      BY <1>2 DEF ClientSetsOnline
    <2>2. /\ Call("set_is_online", 0, 0, v).op = "set_is_online"
          /\ Call("set_is_online", 0, 0, v).v = v
      BY CallFields
    <2>3. v = (IF requested' THEN "on" ELSE "off")
      BY <2>1 DEF OnOff
    <2>4. Len(todo') = 1 /\ todo'[1] = Call("set_is_online", 0, 0, v) /\ todo' # <<>>
      BY <2>1
    <2> QED
      BY <2>1, <2>2, <2>3, <2>4 DEF Idle
  <1>3. ASSUME NEW v \in OnOff, ClientSetsSatellite(v)
        PROVE  /\ requested' = requested
               /\ \A i \in 1 .. Len(todo') : todo'[i].op = "set_does_satellite"
    BY <1>3 DEF ClientSetsSatellite, Call
  <1>4. ASSUME NEW s \in Sessions, NEW f \in Features, SessionStart(s, f)
        PROVE  /\ requested' = requested
               /\ \A i \in 1 .. Len(todo') : todo'[i].op = "start"
    BY <1>4, FusedCalls DEF SessionStart
  <1>5. ASSUME NEW s \in Sessions, NEW f \in Features, SessionStop(s, f)
        PROVE  /\ requested' = requested
               /\ \A i \in 1 .. Len(todo') : todo'[i].op = "session_stop"
    BY <1>5 DEF SessionStop, Call
  <1>6. ASSUME NEW s \in Sessions, SessionDestroyed(s)
        PROVE  /\ requested' = requested
               /\ \A i \in 1 .. Len(todo') : todo'[i].op = "session_stop"
    <2>1. Len(todo') = NFeatures
      BY <1>6, EngineAssumption DEF SessionDestroyed, Features
    <2> QED
      BY <1>6, <2>1 DEF SessionDestroyed, Features, Call
  <1>7. Idle /\ UNCHANGED <<providerVars, configVars, serviceVars>>
    BY DEF Request, ClientSetsOnline, ClientSetsSatellite, SessionStart, SessionStop,
        SessionDestroyed
  <1> QED
    BY <1>1, <1>2, <1>3, <1>4, <1>5, <1>6, <1>7 DEF Request

\* Whatever a request asks for, it starts from a switch that is settled.
LEMMA RequestSwitch ==
  ASSUME EngineInv, Request, Takes
  PROVE  SwitchInv'
  <1> USE DEF providerVars, configVars, serviceVars
  <1>1. /\ Idle /\ before' = requested /\ requested \in BOOLEAN
        /\ UNCHANGED <<counter, engine_state, settings>>
    BY RequestAsks DEF Takes, EngineInv, TypeOK
  <1>2. /\ settings = engine_state /\ (requested <=> engine_state # "off")
        /\ engine_state = "off" => \A p \in Providers : Refuses(p)
    BY <1>1, IdleFacts DEF Agreed
  <1>3. CASE requested /\ requested'
    <2>1. \A i \in 1 .. Len(todo') : ~SwitchesOff(todo'[i])
      BY <1>3, RequestAsks DEF SwitchesOff
    <2>2. StaysOn'
      BY <1>1, <1>2, <1>3, <2>1 DEF StaysOn, SwitchesOff
    <2> QED
      BY <1>1, <1>3, <2>2 DEF SwitchInv, UnmovedSwitchStays
  <1>4. CASE ~requested /\ ~requested'
    <2>1. \A i \in 1 .. Len(todo') : ~SwitchesOn(todo'[i])
      BY <1>4, RequestAsks DEF SwitchesOn
    <2>2. StaysOff'
      BY <1>1, <1>2, <1>4, <2>1 DEF StaysOff, SwitchesOn, Refuses
    <2> QED
      BY <1>1, <1>4, <2>2 DEF SwitchInv, UnmovedSwitchStays
  <1> QED
    BY <1>1, <1>3, <1>4, RequestAsks DEF SwitchInv, UnmovedSwitchStays

\* Calls that are made leave an unmoved switch unmoved.
LEMMA DispatchSwitch ==
  ASSUME EngineInv, SwitchInv, Dispatch, Takes
  PROVE  SwitchInv'
  <1>1. TypeOK /\ ~Idle /\ requested' = requested /\ before' = before /\ before \in BOOLEAN
    BY DispatchKeeps DEF EngineInv, Takes, SwitchInv
  <1>2. before = requested => IF requested THEN StaysOn' ELSE StaysOff'
    BY <1>1, StaysOnDispatch, StaysOffDispatch DEF SwitchInv, UnmovedSwitchStays
  <1> QED
    BY <1>1, <1>2 DEF SwitchInv, UnmovedSwitchStays

\* The invariant of the engine and that of the switch, step by step.
LEMMA SwitchStep ==
  ASSUME EngineInv, SwitchInv, [SwitchNext]_switchVars
  PROVE  EngineInv' /\ SwitchInv'
  <1>1. CASE Dispatch /\ Takes
    BY <1>1, DispatchInv, DispatchSwitch
  <1>2. CASE Request /\ Takes
    BY <1>2, RequestInv, RequestSwitch
  <1>3. CASE Restart /\ before' = requested'
    <2>1. Fresh'
      BY <1>3, RestartFresh
    <2>2. (Fresh => EngineInv)' /\ (Fresh /\ before = requested => SwitchInv)'
      BY FreshInv, FreshSwitch, PTL
    <2> QED
      BY <1>3, <2>1, <2>2
  <1>4. CASE UNCHANGED switchVars
    <2>1. EngineInv'
      BY <1>4, UnchangedInv DEF switchVars
    <2>2. SwitchInv'
      BY <1>4 DEF switchVars, vars, providerVars, configVars, serviceVars, clientVars, SwitchInv,
          UnmovedSwitchStays, StaysOn, StaysOff, SwitchesOn, SwitchesOff, Refuses, Idle
    <2> QED
      BY <2>1, <2>2
  <1> QED
    BY <1>1, <1>2, <1>3, <1>4 DEF SwitchNext

\* Between requests every view shows what the last client asked for.
LEMMA SettledView ==
  ASSUME EngineInv, Idle
  PROVE  View = Switch!Everywhere(requested)
  <1>1. is_online \in BOOLEAN /\ requested \in BOOLEAN
    BY DEF EngineInv, TypeOK
  <1>2. /\ (engine_state # "off") = requested /\ (settings # "off") = requested
        /\ is_online = requested /\ (service_state # "disabled") = requested
    BY <1>1, IdleFacts DEF Agreed
  <1> QED
    BY <1>2 DEF View, Switch!Everywhere, Switch!Views

\* Every step of the engine is one of the switch, or none.
LEMMA SwitchRefines ==
  ASSUME EngineInv, SwitchInv, EngineInv', SwitchInv', [SwitchNext]_switchVars
  PROVE  [Switch!Next]_(Switch!vars)
  <1> USE DEF Switch!vars, Switch!Everywhere, Switch!Views
  <1>1. CASE Dispatch /\ Takes
    <2>1. ~Idle /\ requested' = requested /\ before' = before
      BY <1>1, DispatchKeeps DEF Takes
    <2>2. CASE Idle'
      <3>1. View' = [w \in {"engine_state", "settings", "is_online", "state"} |-> requested]
        <4>1. (EngineInv /\ Idle => View = Switch!Everywhere(requested))'
          BY SettledView, PTL
        <4> QED
          BY <2>1, <2>2, <4>1
      <3> QED
        BY <2>1, <2>2, <3>1 DEF Switch!Next, Switch!Serve
    <2>3. CASE ~Idle'
      BY <2>1, <2>3
    <2> QED
      BY <2>2, <2>3
  <1>2. CASE Request /\ Takes
    <2>1. /\ Idle /\ before' = requested /\ requested' \in BOOLEAN
          /\ requested' = requested \/ ~Idle'
          /\ View' = View
          /\ View = [w \in {"engine_state", "settings", "is_online", "state"} |-> requested]
      BY <1>2, RequestAsks, SettledView
      DEF Takes, View, configVars, serviceVars
    <2>2. CASE Idle'
      BY <2>1, <2>2
    <2>3. CASE ~Idle'
      BY <2>1, <2>3 DEF Switch!Next, Switch!Ask
    <2> QED
      BY <2>2, <2>3
  <1>3. CASE Restart /\ before' = requested'
    <2>1. ~Idle'
      <3>1. settings \in Status
        BY DEF EngineInv, TypeOK
      <3>2. Len(Booted(settings)) = 3 /\ todo' = Booted(settings)
        BY <1>3, <3>1, BootedCalls DEF Restart
      <3> QED
        BY <3>2 DEF Idle
    <2>2. requested' \in BOOLEAN /\ requested \in BOOLEAN /\ before \in BOOLEAN
      BY DEF EngineInv, TypeOK, SwitchInv
    <2>3. CASE Idle
      <3>1. requested' = requested
        BY <1>3, <2>3 DEF Restart
      <3> QED
        BY <1>3, <2>1, <2>3, <3>1 DEF Switch!Next, Switch!Crash
    <2>4. CASE ~Idle
      <3>1. requested' = (settings # "off")
        BY <1>3, <2>4 DEF Restart
      <3>2. requested' \in {requested, before}
        BY <2>2, <2>4, <3>1 DEF SwitchInv, UnmovedSwitchStays, StaysOn, StaysOff
      <3> QED
        BY <1>3, <2>1, <2>4, <3>2 DEF Switch!Next, Switch!Crash
    <2> QED
      BY <2>3, <2>4
  <1>4. CASE UNCHANGED switchVars
    BY <1>4 DEF switchVars, vars, configVars, serviceVars, clientVars, Idle, View
  <1> QED
    BY <1>1, <1>2, <1>3, <1>4 DEF SwitchNext

-----------------------------------------------------------------------------
(* Theorems. *)

\* The inductive invariant holds: at every moment, also in the middle of a
\* request, the calls still waiting on the dispatching thread repair whatever
\* of the engine, the service and the providers does not agree.
THEOREM EngineIsInvariant == Spec => []EngineInv
  <1>1. Init => EngineInv
    BY InitFresh, FreshInv
  <1>2. EngineInv /\ Restart => Fresh'
    BY RestartFresh
  <1>3. Fresh' => EngineInv'
    BY FreshInv, PTL
  <1>4. EngineInv /\ [Next]_vars => EngineInv'
    BY <1>2, <1>3, DispatchInv, RequestInv, UnchangedInv DEF Next
  <1> QED
    BY <1>1, <1>4, PTL DEF Spec

\* Variables keep their types; every call made is one of the code's, with
\* parameters it is made for.
THEOREM EngineTypes == Spec => []TypeOK
  <1>1. EngineInv => TypeOK
    BY DEF EngineInv
  <1> QED
    BY <1>1, EngineIsInvariant, PTL

\* When a request has been served is_online is what the client asked for last,
\* and while the engine is off every provider refuses to start (engine.cpp
\* 74-94, service/implementation.cpp 98-116): switching off may be answered by
\* nothing that a provider reports in the meantime.
THEOREM RequestsHold == Spec => []ServedRequestHolds
  <1>1. EngineInv => ServedRequestHolds
    BY IdleFacts DEF ServedRequestHolds, LastRequestWins, OffRefusesAll, Agreed, Refuses
  <1> QED
    BY <1>1, EngineIsInvariant, PTL

\* When a request has been served the settings hold the engine's state
\* (engine.cpp 108-111) and the service shows "disabled" exactly while the
\* engine is off (service/implementation.cpp), for nested notifications too.
THEOREM StatesComeToAgree == Spec => []StatesAgree
  <1>1. EngineInv => StatesAgree
    BY IdleFacts DEF StatesAgree, PersistedIsCurrent, DisabledShownIffOff
  <1> QED
    BY <1>1, EngineIsInvariant, PTL

\* When a request has been served while satellite positioning is off no
\* provider of the service's own process that needs satellites can be started
\* (engine.cpp 52-72), also after the engine was switched off and on in between
\* and although a provider before it in the loop may have thrown.
THEOREM SatellitesRefuse == Spec => []SatelliteOffRefuses
  <1>1. EngineInv => SatelliteOffRefuses
    BY IdleFacts DEF SatelliteOffRefuses, Refuses
  <1> QED
    BY <1>1, EngineIsInvariant, PTL

\* When a request has been served and the engine is active some provider is
\* delivering (engine.h 63, engine.cpp 208-217), unless the engine has just
\* come up with what a crash left in the settings.
THEOREM ActiveDelivers == Spec => []ActiveMeansDelivering
  <1>1. EngineInv => ActiveMeansDelivering
    BY IdleFacts, EngineAssumption DEF ActiveMeansDelivering, is_any_active, Providers
  <1> QED
    BY <1>1, EngineIsInvariant, PTL

\* No stale stop reaches the implementation behind a provider, and when a
\* request has been served it delivers every feature that the provider's own
\* controller counts (provider.cpp 52-72): no start is lost between the two.
THEOREM StartsServed == Spec => []StartsAreServed
  <1>1. EngineInv => StartsAreServed
    <2> SUFFICES ASSUME EngineInv
                 PROVE  StartsAreServed
      OBVIOUS
    <2>1. ImplementationBalanced
      BY DEF EngineInv
    <2> QED
      BY <2>1, IdleFacts DEF StartsAreServed, CountedIsServed, ImplementationBalanced
  <1> QED
    BY <1>1, EngineIsInvariant, PTL

\* While a request is served that found the service as it leaves it, nothing on
\* the dispatching thread moves the engine or the settings, however the slots of
\* engine.cpp 52-111 and 208-217 call each other: no crash can expose a third
\* state.
THEOREM UnmovedSwitchIsStill == SwitchSpec => []UnmovedSwitchStays
  <1>1. SwitchInit => EngineInv /\ SwitchInv
    BY InitFresh, FreshInv, FreshSwitch DEF SwitchInit
  <1>2. EngineInv /\ SwitchInv /\ [SwitchNext]_switchVars => EngineInv' /\ SwitchInv'
    BY SwitchStep
  <1>3. SwitchInv => UnmovedSwitchStays
    BY DEF SwitchInv
  <1> QED
    BY <1>1, <1>2, <1>3, PTL DEF SwitchSpec

\* The engine, its settings and the two properties of the service implement one
\* switch that a client turns atomically, and crashes included: after every
\* request all four show what was asked for last (service/implementation.cpp
\* 69-122, engine.cpp 52-111), and a restart goes on from before or after it.
THEOREM EngineImplementsSwitch == SwitchSpec => ImplementsPowerSwitch
  <1>1. SwitchInit => EngineInv /\ SwitchInv
    BY InitFresh, FreshInv, FreshSwitch DEF SwitchInit
  <1>2. EngineInv /\ SwitchInv /\ [SwitchNext]_switchVars => EngineInv' /\ SwitchInv'
    BY SwitchStep
  <1>3. SwitchInit => Switch!Init
    <2> SUFFICES ASSUME SwitchInit
                 PROVE  Switch!Init
      OBVIOUS
    <2>1. requested = TRUE /\ before = TRUE /\ todo = Booted("on")
      BY DEF SwitchInit, Init
    <2>2. ~Idle
      BY <2>1, BootedCalls DEF Idle, Status
    <2> QED
      BY <2>1, <2>2 DEF Switch!Init, Switch!Everywhere, Switch!Views
  <1>4. EngineInv /\ SwitchInv /\ EngineInv' /\ SwitchInv' /\ [SwitchNext]_switchVars
          => [Switch!Next]_(Switch!vars)
    BY SwitchRefines
  <1> QED
    BY <1>1, <1>2, <1>3, <1>4, PTL DEF SwitchSpec, ImplementsPowerSwitch, Switch!Spec

-----------------------------------------------------------------------------
(* The engine drives providers in other daemons: what is proved of the two   *)
(* components apart holds of them together.                                  *)

Stubs == INSTANCE RemoteProofs WITH counter <- stub, hardware <- source

\* The names of the remote component, in the instance whose theorems are cited.
LEMMA SameRemotes ==
  /\ Remotes = Stubs!Remotes /\ Remote!Remotes = Remotes
  /\ stubsVars' = stubsVars <=> UNCHANGED Stubs!vars
  /\ Remote!Init => Stubs!Init
  /\ Remote!RunTask => Stubs!RunTask
  /\ \A r \in Remotes :
       /\ Remote!Load(r) => Stubs!Load(r)
       /\ Remote!Handle(r) => Stubs!Handle(r)
       /\ Remote!CallFails(r) => Stubs!CallFails(r)
       /\ Remote!ComesUp(r) => Stubs!ComesUp(r)
       /\ Remote!Crash(r) => Stubs!Crash(r)
       /\ \A f \in Features :
            /\ Remote!StartUpdates(r, f) => Stubs!StartUpdates(r, f)
            /\ Remote!StopUpdates(r, f) => Stubs!StopUpdates(r, f)
            /\ Remote!Pending(r, f) <=> Stubs!Pending(r, f)
  <1> USE DEF Remote!loadVars, Stubs!loadVars, Remote!stubVars, Stubs!stubVars,
              Remote!remoteVars, Stubs!remoteVars, Remote!daemonVars, Stubs!daemonVars,
              Remote!Remotes, Stubs!Remotes, Remotes
  <1>1. stubsVars' = stubsVars <=> UNCHANGED Stubs!vars
    BY DEF stubsVars, Stubs!vars
  <1>2. Remote!Init => Stubs!Init
    BY DEF Remote!Init, Stubs!Init, Remote!Zero, Stubs!Zero, Remote!Silent, Stubs!Silent
  <1>3. Remote!RunTask => Stubs!RunTask
    BY DEF Remote!RunTask, Stubs!RunTask
  <1>4. ASSUME NEW r \in Remotes
        PROVE  Remote!Load(r) => Stubs!Load(r)
    BY DEF Remote!Load, Stubs!Load, Remote!CheckOwner, Stubs!CheckOwner, Remote!Watch,
        Stubs!Watch, Remote!Registered, Stubs!Registered, Remote!WaitTimesOut,
        Stubs!WaitTimesOut, Remote!Ping, Stubs!Ping, Remote!GoTo, Stubs!GoTo,
        Remote!LoadUnchanged, Stubs!LoadUnchanged
  <1>5. \A op, r, f : Remote!Called(op, r, f) <=> Stubs!Called(op, r, f)
    BY DEF Remote!Called, Stubs!Called
  <1>6. ASSUME NEW r \in Remotes
        PROVE  Remote!Handle(r) => Stubs!Handle(r)
    <2>1. ASSUME NEW f \in Features, Remote!HandleStart(r, f)
          PROVE  Stubs!HandleStart(r, f)
      BY <1>5, <2>1 DEF Remote!HandleStart, Stubs!HandleStart, Remote!Incremented,
          Stubs!Incremented
    <2>2. ASSUME NEW f \in Features, Remote!HandleStop(r, f)
          PROVE  Stubs!HandleStop(r, f)
      BY <1>5, <2>2 DEF Remote!HandleStop, Stubs!HandleStop, Remote!Decremented,
          Stubs!Decremented
    <2> QED
      BY <2>1, <2>2 DEF Remote!Handle, Stubs!Handle
  <1>7. ASSUME NEW r \in Remotes
        PROVE  /\ Remote!CallFails(r) => Stubs!CallFails(r)
               /\ Remote!ComesUp(r) => Stubs!ComesUp(r)
    BY <1>5 DEF Remote!CallFails, Stubs!CallFails, Remote!ComesUp, Stubs!ComesUp
  <1>8. ASSUME NEW r \in Remotes
        PROVE  Remote!Crash(r) => Stubs!Crash(r)
    BY <1>5 DEF Remote!Crash, Stubs!Crash, Remote!Zero, Stubs!Zero, Remote!Silent, Stubs!Silent
  <1>9. ASSUME NEW r \in Remotes, NEW f \in Features
        PROVE  /\ Remote!StartUpdates(r, f) => Stubs!StartUpdates(r, f)
               /\ Remote!StopUpdates(r, f) => Stubs!StopUpdates(r, f)
    BY DEF Remote!StartUpdates, Stubs!StartUpdates, Remote!StopUpdates, Stubs!StopUpdates,
        Remote!Post, Stubs!Post
  <1>10. ASSUME NEW r \in Remotes, NEW f \in Features
         PROVE  Remote!Pending(r, f) <=> Stubs!Pending(r, f)
    BY <1>5 DEF Remote!Pending, Stubs!Pending
  <1>11. Remotes = Stubs!Remotes /\ Remote!Remotes = Remotes
    OBVIOUS
  <1> QED
    BY <1>1, <1>2, <1>3, <1>4, <1>6, <1>7, <1>8, <1>9, <1>10, <1>11

LEMMA StubsAssumed == Stubs!RemoteAssumption
  <1>1. NFeatures \in Int /\ Features = 1 .. NFeatures
    BY EngineAssumption DEF Features
  <1>2. IsFiniteSet(Features)
    BY <1>1, FS_Interval
  <1>3. Stubs!IsFiniteSet(Features)
    BY <1>2 DEF IsFiniteSet, Stubs!IsFiniteSet
  <1> QED
    BY <1>3, DaemonsAssumption DEF Stubs!RemoteAssumption

\* The engine of the composition is the engine, but for calls to daemons that are up.
LEMMA EngineIsEngine == EngineNext => Next
  BY DEF EngineNext, Next, Dispatch

\* A step of the whole is a step of each part, or leaves it alone.
LEMMA DaemonsAreParts ==
  ASSUME [DaemonsNext]_daemonsVars
  PROVE  [Next]_vars /\ [Stubs!Next]_(Stubs!vars)
  <1>1. CASE EngineAlone
    BY <1>1, EngineIsEngine, SameRemotes DEF EngineAlone
  <1>2. ASSUME NEW r \in Remotes, NEW f \in Features, EngineStarts(r, f) \/ EngineStops(r, f)
        PROVE  Next /\ Stubs!Next
    BY <1>2, EngineIsEngine, SameRemotes DEF EngineStarts, EngineStops, Stubs!Next
  <1>3. CASE RemoteAlone
    <2>1. Stubs!Next
      BY <1>3, SameRemotes DEF RemoteAlone, Stubs!Next
    <2> QED
      BY <1>3, <2>1 DEF RemoteAlone
  <1>4. CASE UNCHANGED daemonsVars
    BY <1>4, SameRemotes DEF daemonsVars
  <1> QED
    BY <1>1, <1>2, <1>3, <1>4 DEF DaemonsNext

\* A step of the engine starts or stops one feature of one provider at most.
LEMMA OneSourceMoves ==
  ASSUME TypeOK, ~Restarts, [Next]_vars
  PROVE  \/ hardware' = hardware
         \/ \E p \in Providers, f \in Features, b \in BOOLEAN :
              hardware' = [hardware EXCEPT ![p][f] = b]
  <1> USE DEF vars, providerVars
  <1>1. CASE ImplStart
    <2>1. PICK p \in Providers, f \in Features :
            hardware' = [hardware EXCEPT ![p][f] = @ \/ implCounter[p][f] = 0]
      BY <1>1, ImplStartStep
    <2>2. hardware' = [hardware EXCEPT ![p][f] = (hardware[p][f] \/ implCounter[p][f] = 0)]
      BY <2>1
    <2> QED
      BY <2>2
  <1>2. CASE ImplStop
    <2>1. PICK p \in Providers, f \in Features :
            hardware' = [hardware EXCEPT ![p][f] = @ /\ implCounter[p][f] # 1]
      BY <1>2, ImplStopStep
    <2>2. hardware' = [hardware EXCEPT ![p][f] = (hardware[p][f] /\ implCounter[p][f] # 1)]
      BY <2>1
    <2> QED
      BY <2>2
  <1>3. CASE Dispatch /\ ~ImplStart /\ ~ImplStop
    BY <1>3 DEF Dispatch, Proceed, RequiresUnanswered, StartUpdates, StopUpdates, EnableProvider, SkipEnable, DisableProvider,
        SkipDisable, StopIfCounted, MarkDisabled, TrackState, SetEngineState, EngineSlot,
        PersistEngineState, SetSatelliteState, SatelliteSlot, SatelliteMirror, SetIsOnline,
        SetDoesSatellite, ServiceSlot, SetServiceState, StopSession
  <1>4. CASE Request
    BY <1>4 DEF Request, ClientSetsOnline, ClientSetsSatellite, SessionStart, SessionStop,
        SessionDestroyed
  <1>5. CASE UNCHANGED vars
    BY <1>5
  <1> QED
    BY <1>1, <1>2, <1>3, <1>4, <1>5 DEF Next, Restart

\* The Stub's controller goes with that of the implementation it is.
LEMMA FollowsStep ==
  ASSUME TypeOK, Stubs!TypeOK, StubsFollow, [DaemonsNext]_daemonsVars
  PROVE  StubsFollow'
  <1> SUFFICES ASSUME NEW q \in Remotes, NEW g \in Features
               PROVE  stub'[q][g] = IF hardware'[ProviderOf[q]][g] THEN 1 ELSE 0
    BY DEF StubsFollow
  <1>1. /\ stub[q][g] = IF hardware[ProviderOf[q]][g] THEN 1 ELSE 0
        /\ stub \in [Remotes -> [Features -> Nat]]
        /\ hardware \in [Providers -> [Features -> BOOLEAN]]
        /\ ProviderOf[q] \in Providers
    BY DaemonsAssumption DEF StubsFollow, TypeOK, Stubs!TypeOK, Stubs!Remotes, Remotes
  <1>2. ASSUME hardware'[ProviderOf[q]] = hardware[ProviderOf[q]], stub' = stub
        PROVE  stub'[q][g] = IF hardware'[ProviderOf[q]][g] THEN 1 ELSE 0
    BY <1>1, <1>2
  <1>3. CASE EngineAlone
    BY <1>2, <1>3 DEF EngineAlone, stubsVars
  <1>4. CASE RemoteAlone \/ UNCHANGED daemonsVars
    <2>1. stub' = stub /\ hardware' = hardware
      BY <1>4 DEF RemoteAlone, daemonsVars, stubsVars, vars, providerVars, Remote!RunTask,
          Remote!Load, Remote!CheckOwner, Remote!Watch, Remote!Registered,
          Remote!WaitTimesOut, Remote!Ping, Remote!LoadUnchanged, Remote!stubVars,
          Remote!Handle, Remote!HandleStart, Remote!HandleStop, Remote!CallFails,
          Remote!ComesUp, Remote!Crash
    <2> QED
      BY <1>2, <2>1
  <1>5. ASSUME NEW r \in Remotes, NEW f \in Features, NEW b \in BOOLEAN,
               Next, hardware[ProviderOf[r]][f] = ~b, hardware'[ProviderOf[r]][f] = b,
               stub' = [stub EXCEPT ![r][f] = IF b THEN 1 ELSE 0]
        PROVE  stub'[q][g] = IF hardware'[ProviderOf[q]][g] THEN 1 ELSE 0
    <2>1. PICK p \in Providers, e \in Features, a \in BOOLEAN :
            hardware' = [hardware EXCEPT ![p][e] = a]
      BY <1>1, <1>5, OneSourceMoves, DaemonsAssumption
    <2>2. p = ProviderOf[r] /\ e = f /\ a = b
      BY <1>1, <1>5, <2>1, DaemonsAssumption
    <2>3. CASE q = r /\ g = f
      BY <1>1, <1>5, <2>3
    <2>4. CASE ~(q = r /\ g = f)
      <3>1. stub'[q][g] = stub[q][g]
        BY <1>1, <1>5, <2>4
      <3>2. ~(ProviderOf[q] = ProviderOf[r] /\ g = f)
        BY <2>4, DaemonsAssumption
      <3>3. hardware'[ProviderOf[q]][g] = hardware[ProviderOf[q]][g]
        BY <1>1, <2>1, <2>2, <3>2
      <3> QED
        BY <1>1, <3>1, <3>3
    <2> QED
      BY <2>3, <2>4
  <1>6. ASSUME NEW r \in Remotes, NEW f \in Features, EngineStarts(r, f)
        PROVE  stub'[q][g] = IF hardware'[ProviderOf[q]][g] THEN 1 ELSE 0
    <2>1. /\ Next /\ stub' = [stub EXCEPT ![r][f] = 1]
          /\ ~hardware[ProviderOf[r]][f] /\ hardware'[ProviderOf[r]][f]
      BY <1>6, EngineIsEngine DEF EngineStarts, Remote!StartUpdates
    <2>2. \/ hardware' = hardware
          \/ \E p \in Providers, e \in Features, a \in BOOLEAN :
               hardware' = [hardware EXCEPT ![p][e] = a]
      BY <2>1, OneSourceMoves, DaemonsAssumption
    <2>3. hardware'[ProviderOf[r]][f] = TRUE /\ hardware[ProviderOf[r]][f] = FALSE
      BY <1>1, <2>1, <2>2, DaemonsAssumption
    <2> QED
      BY <1>5, <2>1, <2>3
  <1>7. ASSUME NEW r \in Remotes, NEW f \in Features, EngineStops(r, f)
        PROVE  stub'[q][g] = IF hardware'[ProviderOf[q]][g] THEN 1 ELSE 0
    <2>1. /\ Next /\ stub' = [stub EXCEPT ![r][f] = 0]
          /\ hardware[ProviderOf[r]][f] /\ ~hardware'[ProviderOf[r]][f]
      BY <1>7, EngineIsEngine DEF EngineStops, Remote!StopUpdates
    <2>2. \/ hardware' = hardware
          \/ \E p \in Providers, e \in Features, a \in BOOLEAN :
               hardware' = [hardware EXCEPT ![p][e] = a]
      BY <2>1, OneSourceMoves, DaemonsAssumption
    <2>3. hardware'[ProviderOf[r]][f] = FALSE /\ hardware[ProviderOf[r]][f] = TRUE
      BY <1>1, <2>1, <2>2, DaemonsAssumption
    <2> QED
      BY <1>5, <2>1, <2>3
  <1> QED
    BY <1>3, <1>4, <1>6, <1>7 DEF DaemonsNext

\* A satellite provider whose daemon has not crashed goes on refusing or about to
\* be disabled: the engine gets its answer.
LEMMA ReachesStep ==
  ASSUME EngineInv, Stubs!IInv, SatelliteOffReachesSoon, [DaemonsNext]_daemonsVars
  PROVE  SatelliteOffReachesSoon'
  <1> SUFFICES ASSUME NEW p \in Satellite, Reachable(p)'
               PROVE  RefusesSoon(p)'
    BY DEF SatelliteOffReachesSoon
  <1>1. crashed \subseteq crashed'
    BY DEF DaemonsNext, EngineAlone, EngineStarts, EngineStops, RemoteAlone, daemonsVars,
        stubsVars, Remote!StartUpdates, Remote!StopUpdates, Remote!RunTask, Remote!Load,
        Remote!CheckOwner, Remote!Watch, Remote!Registered, Remote!WaitTimesOut, Remote!Ping,
        Remote!LoadUnchanged, Remote!Handle, Remote!HandleStart, Remote!HandleStop,
        Remote!CallFails, Remote!ComesUp, Remote!Crash, Remote!daemonVars
  <1>2. Reachable(p) /\ RefusesSoon(p)
    BY <1>1 DEF Reachable, SatelliteOffReachesSoon
  <1>3. CASE EngineNext /\ Loaded
    <2>1. CASE Request
      <3>1. UNCHANGED <<counter, satellite_state>> /\ Idle
        BY <2>1 DEF Request, ClientSetsOnline, ClientSetsSatellite, SessionStart, SessionStop,
            SessionDestroyed, providerVars, configVars
      <3>2. \A i \in Positions : FALSE
        BY <3>1 DEF Idle, Positions
      <3> QED
        BY <1>2, <3>1, <3>2 DEF RefusesSoon, Refuses
    <2>2. CASE ~Request
      <3>1. Proceed \/ (RequiresUnanswered /\ This.p \notin {p})
        <4> SUFFICES ASSUME NEW r \in Remotes \ up, Asks(ProviderOf[r])
                     PROVE  This.p # p
          BY <1>3, <2>2 DEF EngineNext
        <4>1. r \in crashed
          BY <1>3, SameRemotes DEF Loaded, Stubs!IInv, Stubs!Unasked
        <4> QED
          BY <1>2, <4>1 DEF Asks, Reachable
      <3>2. RefuseIn({p}) /\ {p} \in SUBSET Satellite
        BY <1>2 DEF RefuseIn
      <3>3. RefuseIn({p})'
        BY <3>1, <3>2, SatelliteDispatch DEF EngineInv, StateInv
      <3> QED
        BY <3>3 DEF RefuseIn
    <2> QED
      BY <2>1, <2>2
  <1>4. CASE UNCHANGED vars
    BY <1>2, <1>4 DEF vars, providerVars, configVars, RefusesSoon, Refuses, Positions
  <1> QED
    BY <1>3, <1>4 DEF DaemonsNext, EngineAlone, EngineStarts, EngineStops, RemoteAlone, daemonsVars

LEMMA DaemonsInvariant ==
  DaemonsSpec => [](/\ EngineInv /\ Stubs!TypeOK /\ Stubs!InStep /\ Stubs!UnwantedIsOff
                    /\ StubsFollow /\ SatelliteOffReachesSoon)
  <1>1. DaemonsInit => Init /\ Stubs!Init
    BY SameRemotes DEF DaemonsInit
  <1>2. [DaemonsNext]_daemonsVars => [Next]_vars /\ [Stubs!Next]_(Stubs!vars)
    BY DaemonsAreParts
  <1>3. DaemonsSpec => Spec /\ Stubs!Spec
    BY <1>1, <1>2, PTL DEF DaemonsSpec, Spec, Stubs!Spec
  <1>4. Stubs!Spec => [](Stubs!IInv /\ Stubs!TypeOK /\ Stubs!InStep /\ Stubs!UnwantedIsOff)
    BY StubsAssumed, Stubs!InvHolds, Stubs!RemotesAreTyped, Stubs!StubAndSourceInStep,
       Stubs!UnwantedSourcesAreOff, PTL
  <1>5. DaemonsInit => StubsFollow
    <2> SUFFICES ASSUME DaemonsInit, NEW r \in Remotes, NEW f \in Features
                 PROVE  stub[r][f] = 0 /\ ~hardware[ProviderOf[r]][f]
      BY DEF StubsFollow
    <2>1. ProviderOf[r] \in Providers
      BY DaemonsAssumption
    <2> QED
      BY <2>1 DEF DaemonsInit, Init, NoneRunning, Remote!Init, Remote!Zero, Remote!Remotes,
          Remotes
  <1>6. EngineInv /\ Stubs!TypeOK /\ StubsFollow /\ [DaemonsNext]_daemonsVars => StubsFollow'
    BY FollowsStep DEF EngineInv
  <1>7. DaemonsInit => SatelliteOffReachesSoon
    BY DEF DaemonsInit, Init, SatelliteOffReachesSoon, RefusesSoon
  <1>8. EngineInv /\ Stubs!IInv /\ SatelliteOffReachesSoon /\ [DaemonsNext]_daemonsVars
          => SatelliteOffReachesSoon'
    BY ReachesStep
  <1> QED
    BY <1>3, <1>4, <1>5, <1>6, <1>7, <1>8, EngineIsInvariant, PTL DEF DaemonsSpec

\* A start that is counted for a session in the engine runs the source in the
\* remote daemon, and a source that runs there is counted in the engine, when
\* the request has been served and the posted calls have been made: whatever
\* number of remote providers share the queue, whichever of their daemons
\* crash, and however the engine was switched (provider.cpp 52-72,
\* providers/remote/provider.cpp 386-481).
THEOREM StartsReach == DaemonsSpec => []StartsReachDaemons
  <1>1. EngineInv /\ Stubs!InStep /\ Stubs!UnwantedIsOff /\ Stubs!TypeOK /\ StubsFollow
          => StartsReachDaemons
    <2> SUFFICES ASSUME EngineInv, Stubs!InStep, Stubs!UnwantedIsOff, StubsFollow,
                        NEW r \in Remotes, NEW f \in Features, ~Remote!Pending(r, f)
                 PROVE  /\ Idle /\ r \notin crashed /\ counter[ProviderOf[r]][f] > 0 => source[r][f]
                        /\ source[r][f] => implCounter[ProviderOf[r]][f] > 0
      BY DEF StartsReachDaemons
    <2> DEFINE p == ProviderOf[r]
    <2>1. p \in Providers /\ r \in Stubs!Remotes /\ ~Stubs!Pending(r, f)
      BY SameRemotes, DaemonsAssumption
    <2>2. hardware[p][f] <=> implCounter[p][f] > 0
      BY <2>1 DEF EngineInv, ImplementationBalanced
    <2>3. stub[r][f] = IF hardware[p][f] THEN 1 ELSE 0
      BY DEF StubsFollow
    <2>4. ASSUME Idle, r \notin crashed, counter[p][f] > 0
          PROVE  source[r][f]
      <3>1. hardware[p][f]
        BY <2>1, <2>2, <2>4, IdleFacts
      <3> QED
        BY <2>1, <2>3, <2>4, <3>1 DEF Stubs!InStep
    <2>5. ASSUME source[r][f]
          PROVE  implCounter[p][f] > 0
      BY <2>1, <2>2, <2>3, <2>5 DEF Stubs!UnwantedIsOff
    <2> QED
      BY <2>4, <2>5
  <1> QED
    BY <1>1, DaemonsInvariant, PTL

\* While satellite based positioning is off no provider that needs satellites
\* accepts a start, in this process or in a daemon that has not crashed: the one
\* step that leaves a provider as it is, a requires() that throws (engine.cpp 57
\* and 223-237, providers/remote/provider.cpp 311-315), asks a daemon that is gone.
THEOREM SatelliteOffReaches == DaemonsSpec => []SatelliteOffReachesAll
  <1>1. SatelliteOffReachesSoon => SatelliteOffReachesAll
    <2> SUFFICES ASSUME SatelliteOffReachesSoon, Idle, satellite_state = "off",
                        NEW p \in Satellite, Reachable(p)
                 PROVE  Refuses(p)
      BY DEF SatelliteOffReachesAll, Refuses
    <2>1. \A i \in Positions : FALSE
      BY DEF Idle, Positions
    <2> QED
      BY <2>1 DEF SatelliteOffReachesSoon, RefusesSoon
  <1> QED
    BY <1>1, DaemonsInvariant, PTL
=============================================================================
