-------------------------- MODULE ControllerProofs --------------------------
(***************************************************************************)
(* Proofs about Provider::Controller for any finite set of observers and   *)
(* any number of features.                                                 *)
(***************************************************************************)
EXTENDS ControllerProperties, FiniteSetTheorems, TLAPS

USE DEF our_magic_disabling_value

-----------------------------------------------------------------------------
(* Lemmas about the helpers the actions are built from. *)

\* Moving an observer, or the engine, to one of its labels keeps PcOK.
LEMMA GotoObserver ==
  ASSUME PcOK, NEW o \in Observers, NEW l \in ObserverLabels, NEW f \in 0 .. NFeatures,
         l # "idle" => f \in Features, Goto(o, l, f)
  PROVE  PcOK'
  BY ControllerAssumption DEF PcOK, Goto, Threads, Features

LEMMA GotoEngine ==
  ASSUME PcOK, NEW l \in EngineLabels, NEW f \in 0 .. NFeatures,
         l # "idle" => f \in Features, Goto(Engine, l, f)
  PROVE  PcOK'
  BY ControllerAssumption DEF PcOK, Goto, Threads, Features

LEMMA ClaimType ==
  ASSUME claims \in [Observers -> SUBSET Features],
         NEW o \in Observers, NEW f \in Features, Claim(o, f) \/ Unclaim(o, f)
  PROVE  claims' \in [Observers -> SUBSET Features]
  BY DEF Claim, Unclaim

\* DisableCheck and DisableStop move on to the next feature, or to the stores.
LEMMA AfterCheckType ==
  ASSUME PcOK, NEW f \in Features, AfterCheck(f)
  PROVE  PcOK'
  <1>1. CASE f < NFeatures
    BY <1>1, GotoEngine, ControllerAssumption DEF AfterCheck, EngineLabels, Features
  <1>2. CASE ~(f < NFeatures)
    BY <1>2, GotoEngine, ControllerAssumption DEF AfterCheck, EngineLabels, Features
  <1>3. QED
    BY <1>1, <1>2

\* The feature a busy thread is at.
LEMMA ArgType ==
  ASSUME PcOK
  PROVE  /\ \A o \in Observers : pc[o] # "idle" => arg[o] \in Features
         /\ pc[Engine] # "idle" => arg[Engine] \in Features
         /\ Features \subseteq 0 .. NFeatures
         /\ 0 \in 0 .. NFeatures
         /\ 1 \in Features
  BY ControllerAssumption DEF PcOK, Threads, Features

-----------------------------------------------------------------------------
(***************************************************************************)
(* Type correctness of every interleaving of calls (provider.cpp 31-126).  *)
(***************************************************************************)
LEMMA InitTypeOK == Init => TypeOK
  BY ControllerAssumption
  DEF Init, TypeOK, PcOK, Features, Threads, ObserverLabels, EngineLabels

LEMMA NextTypeOK == TypeOK /\ [Next]_vars => TypeOK'
  <1> SUFFICES ASSUME TypeOK, [Next]_vars PROVE TypeOK'
    OBVIOUS
  <1>a. /\ PcOK
        /\ counter \in [Features -> Int]
        /\ running \in [Features -> BOOLEAN]
        /\ forgotten \subseteq Features
        /\ claims \in [Observers -> SUBSET Features]
        /\ phase \in {"enabled", "disabled"}
        /\ callers \in Behaviours
    BY DEF TypeOK
  <1>1. ASSUME NEW o \in Observers, ObserverStep(o) PROVE TypeOK'
    <2> USE DEF TypeOK
    <2>a. pc[o] # "idle" => arg[o] \in Features
      BY <1>a, ArgType
    <2>1. ASSUME NEW f \in Features, CallStart(o, f) PROVE TypeOK'
      <3>1. PcOK'
        <4>1. CASE Goto(o, "increment", f)
          BY <4>1, <1>a, GotoObserver, ArgType DEF ObserverLabels
        <4>2. CASE UNCHANGED <<pc, arg>>
          BY <4>2, <1>a DEF PcOK
        <4>3. QED
          BY <2>1, <4>1, <4>2 DEF CallStart
      <3>2. claims' \in [Observers -> SUBSET Features]
        BY <1>a, <2>1, ClaimType DEF CallStart
      <3>3. QED
        BY <1>a, <2>1, <3>1, <3>2 DEF CallStart
    <2>2. ASSUME NEW f \in Features, CallStop(o, f) PROVE TypeOK'
      <3>1. PcOK'
        <4>1. CASE Goto(o, "decrement", f)
          BY <4>1, <1>a, GotoObserver, ArgType DEF ObserverLabels
        <4>2. CASE UNCHANGED <<pc, arg>>
          BY <4>2, <1>a DEF PcOK
        <4>3. QED
          BY <2>2, <4>1, <4>2 DEF CallStop
      <3>2. claims' \in [Observers -> SUBSET Features]
        BY <1>a, <2>2, ClaimType DEF CallStop
      <3>3. QED
        BY <1>a, <2>2, <3>1, <3>2 DEF CallStop
    <2>3. CASE Increment(o)
      <3> DEFINE f == arg[o]
      <3>1. f \in Features
        BY <2>a, <2>3 DEF Increment
      <3>2. PcOK'
        <4>1. CASE Goto(o, "start_instance", f)
          BY <4>1, <3>1, <1>a, GotoObserver, ArgType DEF ObserverLabels
        <4>2. CASE Goto(o, "idle", 0)
          BY <4>2, <1>a, GotoObserver, ArgType DEF ObserverLabels
        <4>3. QED
          BY <2>3, <4>1, <4>2 DEF Increment, Return
      <3>3. claims' \in [Observers -> SUBSET Features]
        BY <1>a, <2>3, <3>1, ClaimType DEF Increment
      <3>4. counter' \in [Features -> Int]
        BY <1>a, <2>3, <3>1 DEF Increment
      <3>5. QED
        BY <1>a, <2>3, <3>2, <3>3, <3>4 DEF Increment
    <2>4. CASE StartInstance(o)
      <3>1. arg[o] \in Features
        BY <2>a, <2>4 DEF StartInstance
      <3>2. PcOK'
        BY <2>4, <1>a, GotoObserver, ArgType DEF StartInstance, Return, ObserverLabels
      <3>3. claims' \in [Observers -> SUBSET Features]
        BY <1>a, <2>4, <3>1, ClaimType DEF StartInstance
      <3>4. QED
        BY <1>a, <2>4, <3>1, <3>2, <3>3 DEF StartInstance, Instance
    <2>5. CASE Decrement(o)
      <3> DEFINE f == arg[o]
      <3>1. f \in Features
        BY <2>a, <2>5 DEF Decrement
      <3>2. PcOK'
        <4>1. CASE Goto(o, "stop_instance", f)
          BY <4>1, <3>1, <1>a, GotoObserver, ArgType DEF ObserverLabels
        <4>2. CASE Goto(o, "idle", 0)
          BY <4>2, <1>a, GotoObserver, ArgType DEF ObserverLabels
        <4>3. QED
          BY <2>5, <4>1, <4>2 DEF Decrement, Return
      <3>3. claims' \in [Observers -> SUBSET Features]
        BY <1>a, <2>5, <3>1, ClaimType DEF Decrement
      <3>4. counter' \in [Features -> Int]
        BY <1>a, <2>5, <3>1 DEF Decrement
      <3>5. QED
        BY <1>a, <2>5, <3>2, <3>3, <3>4 DEF Decrement
    <2>6. CASE StopInstance(o)
      <3>1. arg[o] \in Features
        BY <2>a, <2>6 DEF StopInstance
      <3>2. PcOK'
        BY <2>6, <1>a, GotoObserver, ArgType DEF StopInstance, Return, ObserverLabels
      <3>3. claims' \in [Observers -> SUBSET Features]
        BY <1>a, <2>6, <3>1, ClaimType DEF StopInstance
      <3>4. QED
        BY <1>a, <2>6, <3>1, <3>2, <3>3 DEF StopInstance, Instance
    <2>7. QED
      BY <1>1, <2>1, <2>2, <2>3, <2>4, <2>5, <2>6 DEF ObserverStep
  <1>2. ASSUME EngineStep PROVE TypeOK'
    <2> USE DEF TypeOK
    <2>a. pc[Engine] # "idle" => arg[Engine] \in Features
      BY <1>a, ArgType
    <2>1. CASE CallDisable
      BY <1>a, <2>1, GotoEngine, ArgType DEF CallDisable, EngineLabels
    <2>2. CASE DisableCheck
      <3>1. arg[Engine] \in Features
        BY <2>a, <2>2 DEF DisableCheck
      <3>2. CASE Goto(Engine, "disable_stop", arg[Engine])
        BY <1>a, <2>2, <3>1, <3>2, GotoEngine, ArgType DEF DisableCheck, EngineLabels
      <3>3. CASE AfterCheck(arg[Engine])
        BY <1>a, <2>2, <3>1, <3>3, AfterCheckType DEF DisableCheck
      <3>4. QED
        BY <2>2, <3>2, <3>3 DEF DisableCheck
    <2>3. CASE DisableStop
      BY <1>a, <2>a, <2>3, AfterCheckType DEF DisableStop, Instance
    <2>4. CASE DisableStore
      <3> DEFINE f == arg[Engine]
      <3>1. f \in Features
        BY <2>a, <2>4 DEF DisableStore
      <3>2. PcOK'
        <4>1. CASE f < NFeatures
          BY <1>a, <2>4, <3>1, <4>1, GotoEngine, ControllerAssumption
          DEF DisableStore, EngineLabels, Features
        <4>2. CASE f = NFeatures
          BY <1>a, <2>4, <3>1, <4>2, GotoEngine, ControllerAssumption
          DEF DisableStore, Return, EngineLabels, Features
        <4>3. QED
          BY <2>4, <4>1, <4>2 DEF DisableStore
      <3>3. claims' \in [Observers -> SUBSET Features]
        BY <1>a, <2>4 DEF DisableStore, Evict
      <3>4. counter' \in [Features -> Int]
        BY <1>a, <2>4, <3>1 DEF DisableStore
      <3>5. phase' \in {"enabled", "disabled"}
        BY <1>a, <2>4 DEF DisableStore
      <3>6. QED
        BY <1>a, <2>4, <3>2, <3>3, <3>4, <3>5 DEF DisableStore
    <2>5. CASE CallEnable
      BY <1>a, <2>5, GotoEngine, ArgType DEF CallEnable, EngineLabels
    <2>6. CASE EnableStore
      <3> DEFINE f == arg[Engine]
      <3>1. f \in Features
        BY <2>a, <2>6 DEF EnableStore
      <3>2. PcOK'
        <4>1. CASE f < NFeatures
          BY <1>a, <2>6, <3>1, <4>1, GotoEngine, ControllerAssumption
          DEF EnableStore, EngineLabels, Features
        <4>2. CASE f = NFeatures
          BY <1>a, <2>6, <3>1, <4>2, GotoEngine, ControllerAssumption
          DEF EnableStore, Return, EngineLabels, Features
        <4>3. QED
          BY <2>6, <4>1, <4>2 DEF EnableStore
      <3>3. counter' \in [Features -> Int]
        BY <1>a, <2>6, <3>1 DEF EnableStore
      <3>4. phase' \in {"enabled", "disabled"}
        BY <1>a, <2>6 DEF EnableStore
      <3>5. claims' \in [Observers -> SUBSET Features]
        BY <1>a, <2>6 DEF EnableStore, Evict
      <3>6. forgotten' \subseteq Features
        BY <1>a, <2>6, <3>1 DEF EnableStore
      <3>7. QED
        BY <1>a, <2>6, <3>2, <3>3, <3>4, <3>5, <3>6 DEF EnableStore
    <2>7. QED
      BY <1>2, <2>1, <2>2, <2>3, <2>4, <2>5, <2>6 DEF EngineStep
  <1>3. CASE UNCHANGED vars
    BY <1>a, <1>3 DEF TypeOK, PcOK, vars
  <1>4. QED
    BY <1>1, <1>2, <1>3 DEF Next

THEOREM Typing == Spec => []TypeOK
  <1>1. QED
    BY InitTypeOK, NextTypeOK, PTL DEF Spec

-----------------------------------------------------------------------------
(***************************************************************************)
(* The counter never exceeds the number of observers with a request.       *)
(* NeverOvercounted alone is not inductive: an increment by an observer    *)
(* that already counts would break it.  NotYetClaimed excludes that.       *)
(***************************************************************************)
NotYetClaimed ==
  \A o \in Observers : pc[o] \in {"increment", "start_instance"} => arg[o] \notin claims[o]

CountInv == NotYetClaimed /\ NeverOvercounted

LEMMA CountedFinite ==
  ASSUME NEW f
  PROVE  /\ IsFiniteSet(Counted(f)) /\ Cardinality(Counted(f)) \in Nat
         /\ IsFiniteSet(Counted(f)') /\ Cardinality(Counted(f)') \in Nat
  <1>1. Counted(f) \in SUBSET Observers /\ Counted(f)' \in SUBSET Observers
    BY DEF Counted
  <1>2. IsFiniteSet(Counted(f)) /\ IsFiniteSet(Counted(f)')
    BY <1>1, FS_Subset, ControllerAssumption
  <1>3. QED
    BY <1>2, FS_CardinalityType

\* A step under which no observer of f stops counting.
LEMMA CountedGrows ==
  ASSUME NEW f, Counted(f) \subseteq Counted(f)'
  PROVE  Cardinality(Counted(f)) <= Cardinality(Counted(f)')
  BY CountedFinite, FS_Subset

\* A step by which the observer o, and no other, may start to count for f.
LEMMA CountedPlusOne ==
  ASSUME NEW f, NEW o, o \notin Counted(f), Counted(f)' = Counted(f) \cup {o}
  PROVE  Cardinality(Counted(f)') = Cardinality(Counted(f)) + 1
  BY CountedFinite, FS_AddElement

\* A step by which the observer o, and no other, may stop counting for f.
LEMMA CountedMinusOne ==
  ASSUME NEW f, NEW o, Counted(f) \ {o} \subseteq Counted(f)'
  PROVE  Cardinality(Counted(f)) - 1 <= Cardinality(Counted(f)')
  <1> DEFINE R == Counted(f) \ {o}
  <1>1. IsFiniteSet(R) /\ Cardinality(R) >= Cardinality(Counted(f)) - 1
    BY CountedFinite, FS_RemoveElement
  <1>2. Cardinality(R) \in Nat
    BY <1>1, FS_CardinalityType
  <1>3. Cardinality(R) <= Cardinality(Counted(f)')
    BY CountedFinite, FS_Subset
  <1>4. QED
    BY <1>1, <1>2, <1>3, CountedFinite

LEMMA NextNotYetClaimed ==
  ASSUME TypeOK, NotYetClaimed, [Next]_vars
  PROVE  NotYetClaimed'
  <1> USE DEF NotYetClaimed, TypeOK, PcOK, Threads
  <1>1. ASSUME NEW o \in Observers, ObserverStep(o) PROVE NotYetClaimed'
    <2>1. ASSUME NEW f \in Features, CallStart(o, f) PROVE NotYetClaimed'
      BY <2>1 DEF CallStart, Goto, Claim
    <2>2. ASSUME NEW f \in Features, CallStop(o, f) PROVE NotYetClaimed'
      BY <2>2 DEF CallStop, Goto, Unclaim
    <2>3. CASE Increment(o)
      BY <2>3 DEF Increment, Return, Goto, Claim
    <2>4. CASE StartInstance(o)
      BY <2>4 DEF StartInstance, Return, Goto, Claim
    <2>5. CASE Decrement(o)
      BY <2>5 DEF Decrement, Return, Goto, Unclaim
    <2>6. CASE StopInstance(o)
      BY <2>6 DEF StopInstance, Return, Goto, Unclaim
    <2>7. QED
      BY <1>1, <2>1, <2>2, <2>3, <2>4, <2>5, <2>6 DEF ObserverStep
  <1>2. ASSUME EngineStep PROVE NotYetClaimed'
    <2>1. \A o \in Observers : pc'[o] = pc[o] /\ arg'[o] = arg[o]
      BY <1>2, ControllerAssumption
      DEF EngineStep, CallDisable, DisableCheck, DisableStop, DisableStore, CallEnable,
          EnableStore, AfterCheck, Return, Goto
    <2>2. UNCHANGED claims \/ Evict(arg[Engine])
      BY <1>2 DEF EngineStep, CallDisable, DisableCheck, DisableStop, DisableStore, CallEnable,
                  EnableStore
    <2>3. \A o \in Observers : claims'[o] \subseteq claims[o]
      BY <2>2 DEF Evict
    <2>4. QED
      BY <2>1, <2>3
  <1>3. CASE UNCHANGED vars
    BY <1>3 DEF vars
  <1>4. QED
    BY <1>1, <1>2, <1>3 DEF Next

\* What one step does to the counter of g and to the observers it includes.
LEMMA StepCounts ==
  ASSUME TypeOK, NotYetClaimed, [Next]_vars, NEW g \in Features
  PROVE  \/ counter'[g] <= 0
         \/ counter'[g] = counter[g] /\ Counted(g) \subseteq Counted(g)'
         \/ /\ counter'[g] = counter[g] + 1
            /\ \E o : o \notin Counted(g) /\ Counted(g)' = Counted(g) \cup {o}
         \/ /\ counter'[g] = counter[g] - 1
            /\ \E o : Counted(g) \ {o} \subseteq Counted(g)'
  <1> DEFINE Goal == \/ counter'[g] <= 0
                     \/ counter'[g] = counter[g] /\ Counted(g) \subseteq Counted(g)'
                     \/ /\ counter'[g] = counter[g] + 1
                        /\ \E o : o \notin Counted(g) /\ Counted(g)' = Counted(g) \cup {o}
                     \/ /\ counter'[g] = counter[g] - 1
                        /\ \E o : Counted(g) \ {o} \subseteq Counted(g)'
  <1> SUFFICES Goal
    OBVIOUS
  <1> USE DEF TypeOK, PcOK, Threads
  <1>1. ASSUME NEW o \in Observers, ObserverStep(o) PROVE Goal
    <2>0. \A p \in Observers : p # o =>
             pc[p] = pc'[p] /\ arg[p] = arg'[p] /\ claims[p] = claims'[p]
      BY <1>1 DEF ObserverStep, CallStart, CallStop, Increment, StartInstance, Decrement,
                  StopInstance, Return, Goto, Claim, Unclaim
    <2>1. ASSUME NEW f \in Features, CallStart(o, f) PROVE Goal
      <3>1. counter'[g] = counter[g] /\ Counted(g) \subseteq Counted(g)'
        BY <2>0, <2>1 DEF CallStart, Goto, Claim, Counted, At
      <3>2. QED
        BY <3>1
    <2>2. ASSUME NEW f \in Features, CallStop(o, f) PROVE Goal
      <3>1. CASE g = f /\ counter[f] < 0
        BY <2>2, <3>1 DEF CallStop
      <3>2. CASE ~(g = f /\ counter[f] < 0)
        <4>1. counter'[g] = counter[g] /\ Counted(g) \subseteq Counted(g)'
          BY <2>0, <2>2, <3>2 DEF CallStop, Goto, Unclaim, Counted, At
        <4>2. QED
          BY <4>1
      <3>3. QED
        BY <3>1, <3>2
    <2>3. CASE Increment(o)
      <3>1. CASE g = arg[o]
        <4>1. o \notin Counted(g) /\ Counted(g)' = Counted(g) \cup {o}
          BY <2>0, <2>3, <3>1 DEF Increment, Return, Goto, Claim, Counted, At, NotYetClaimed
        <4>2. counter'[g] = counter[g] + 1
          BY <2>3, <3>1 DEF Increment
        <4>3. QED
          BY <4>1, <4>2
      <3>2. CASE g # arg[o]
        <4>1. Counted(g) \subseteq Counted(g)'
          BY <2>0, <2>3, <3>2 DEF Increment, Return, Goto, Claim, Counted, At
        <4>2. counter'[g] = counter[g]
          BY <2>3, <3>2 DEF Increment
        <4>3. QED
          BY <4>1, <4>2
      <3>3. QED
        BY <3>1, <3>2
    <2>4. CASE StartInstance(o)
      <3>1. counter'[g] = counter[g] /\ Counted(g) \subseteq Counted(g)'
        BY <2>0, <2>4 DEF StartInstance, Return, Goto, Claim, Counted, At
      <3>2. QED
        BY <3>1
    <2>5. CASE Decrement(o)
      <3>1. CASE g = arg[o]
        <4>1. Counted(g) \ {o} \subseteq Counted(g)'
          BY <2>0 DEF Counted, At
        <4>2. counter'[g] = counter[g] - 1
          BY <2>5, <3>1 DEF Decrement
        <4>3. QED
          BY <4>1, <4>2
      <3>2. CASE g # arg[o]
        <4>1. Counted(g) \subseteq Counted(g)'
          BY <2>0, <2>5, <3>2 DEF Decrement, Return, Goto, Unclaim, Counted, At
        <4>2. counter'[g] = counter[g]
          BY <2>5, <3>2 DEF Decrement
        <4>3. QED
          BY <4>1, <4>2
      <3>3. QED
        BY <3>1, <3>2
    <2>6. CASE StopInstance(o)
      <3>1. counter'[g] = counter[g] /\ Counted(g) \subseteq Counted(g)'
        BY <2>0, <2>6 DEF StopInstance, Return, Goto, Unclaim, Counted, At
      <3>2. QED
        BY <3>1
    <2>7. QED
      BY <1>1, <2>1, <2>2, <2>3, <2>4, <2>5, <2>6 DEF ObserverStep
  <1>2. ASSUME EngineStep PROVE Goal
    <2>1. \A o \in Observers : pc'[o] = pc[o] /\ arg'[o] = arg[o]
      BY <1>2, ControllerAssumption
      DEF EngineStep, CallDisable, DisableCheck, DisableStop, DisableStore, CallEnable,
          EnableStore, AfterCheck, Return, Goto
    <2>2. CASE DisableStore
      <3>1. CASE g = arg[Engine]
        BY <2>2, <3>1 DEF DisableStore, our_magic_disabling_value
      <3>2. CASE g # arg[Engine]
        <4>1. \A o \in Observers : g \in claims[o] => g \in claims'[o]
          BY <2>2, <3>2 DEF DisableStore, Evict
        <4>2. Counted(g) \subseteq Counted(g)'
          BY <2>1, <4>1 DEF Counted, At
        <4>3. counter'[g] = counter[g]
          BY <2>2, <3>2 DEF DisableStore
        <4>4. QED
          BY <4>2, <4>3
      <3>3. QED
        BY <3>1, <3>2
    <2>3. CASE EnableStore
      <3>1. CASE g = arg[Engine]
        BY <2>3, <3>1 DEF EnableStore
      <3>2. CASE g # arg[Engine]
        <4>1. /\ counter'[g] = counter[g]
              /\ \A o \in Observers : g \in claims[o] => g \in claims'[o]
          BY <2>3, <3>2 DEF EnableStore, Evict
        <4>2. Counted(g) \subseteq Counted(g)'
          BY <2>1, <4>1 DEF Counted, At
        <4>3. QED
          BY <4>1, <4>2
      <3>3. QED
        BY <3>1, <3>2
    <2>4. CASE CallDisable \/ DisableCheck \/ DisableStop \/ CallEnable
      <3>1. counter' = counter /\ claims' = claims
        BY <2>4 DEF CallDisable, DisableCheck, DisableStop, CallEnable
      <3>2. Counted(g) \subseteq Counted(g)'
        BY <2>1, <3>1 DEF Counted, At
      <3>3. QED
        BY <3>1, <3>2
    <2>5. QED
      BY <1>2, <2>2, <2>3, <2>4 DEF EngineStep
  <1>3. CASE UNCHANGED vars
    BY <1>3 DEF vars, Counted, At
  <1>4. QED
    BY <1>1, <1>2, <1>3 DEF Next

LEMMA NextCountInv == TypeOK /\ CountInv /\ [Next]_vars => CountInv'
  <1> SUFFICES ASSUME TypeOK, CountInv, [Next]_vars PROVE CountInv'
    OBVIOUS
  <1>1. TypeOK'
    BY NextTypeOK
  <1>2. ASSUME NEW g \in Features PROVE counter'[g] <= Cardinality(Counted(g)')
    <2>1. /\ counter[g] \in Int /\ counter'[g] \in Int
          /\ Cardinality(Counted(g)) \in Nat /\ Cardinality(Counted(g)') \in Nat
          /\ counter[g] <= Cardinality(Counted(g))
      BY <1>1, CountedFinite DEF TypeOK, CountInv, NeverOvercounted
    <2>2. CASE counter'[g] <= 0
      BY <2>1, <2>2
    <2>3. CASE counter'[g] = counter[g] /\ Counted(g) \subseteq Counted(g)'
      BY <2>1, <2>3, CountedGrows
    <2>4. CASE /\ counter'[g] = counter[g] + 1
               /\ \E o : o \notin Counted(g) /\ Counted(g)' = Counted(g) \cup {o}
      <3>1. Cardinality(Counted(g)') = Cardinality(Counted(g)) + 1
        BY <2>4, CountedPlusOne
      <3>2. QED
        BY <2>1, <2>4, <3>1
    <2>5. CASE /\ counter'[g] = counter[g] - 1
               /\ \E o : Counted(g) \ {o} \subseteq Counted(g)'
      <3>1. Cardinality(Counted(g)) - 1 <= Cardinality(Counted(g)')
        BY <2>5, CountedMinusOne
      <3>2. QED
        BY <2>1, <2>5, <3>1
    <2>6. QED
      BY <2>2, <2>3, <2>4, <2>5, StepCounts DEF CountInv
  <1>3. NotYetClaimed'
    BY NextNotYetClaimed DEF CountInv
  <1>4. QED
    BY <1>2, <1>3 DEF CountInv, NeverOvercounted

LEMMA InitCountInv == Init => CountInv
  <1> SUFFICES ASSUME Init PROVE CountInv
    OBVIOUS
  <1>1. \A f \in Features : counter[f] <= Cardinality(Counted(f))
    <2> SUFFICES ASSUME NEW f \in Features PROVE counter[f] <= Cardinality(Counted(f))
      OBVIOUS
    <2>1. counter[f] = 0
      BY DEF Init
    <2>2. QED
      BY <2>1, CountedFinite
  <1>2. NotYetClaimed
    BY DEF Init, NotYetClaimed, Threads
  <1>3. QED
    BY <1>1, <1>2 DEF CountInv, NeverOvercounted

(***************************************************************************)
(* No interleaving makes the counter exceed the number of requests.        *)
(***************************************************************************)
THEOREM NoPhantomObserver == Spec => []NeverOvercounted
  <1>1. Spec => []CountInv
    BY InitCountInv, NextCountInv, Typing, PTL DEF Spec
  <1>2. CountInv => NeverOvercounted
    BY DEF CountInv
  <1>3. QED
    BY <1>1, <1>2, PTL

-----------------------------------------------------------------------------
(***************************************************************************)
(* Without disable() and enable() the counter is exact.  The additional    *)
(* invariant: an observer that decrements still has its claim, and the     *)
(* engine never enters the controller.                                     *)
(***************************************************************************)
Holding ==
  \A o \in Observers : pc[o] \in {"decrement", "stop_instance"} => arg[o] \in claims[o]

StillClaimed == pc[Engine] = "idle" /\ phase = "enabled" /\ Holding

ExactInv ==
  /\ NotYetClaimed
  /\ StillClaimed
  /\ \A f \in Features : counter[f] = Cardinality(Counted(f))

LEMMA NextStillClaimed ==
  ASSUME ~Administered, TypeOK, StillClaimed, [Next]_vars
  PROVE  StillClaimed'
  <1> USE DEF StillClaimed, Holding, TypeOK, PcOK, Threads
  <1>1. ASSUME NEW o \in Observers, ObserverStep(o) PROVE StillClaimed'
    <2>a. o # Engine
      BY ControllerAssumption
    <2>1. ASSUME NEW f \in Features, CallStart(o, f) PROVE StillClaimed'
      BY <2>a, <2>1 DEF CallStart, Goto, Claim
    <2>2. ASSUME NEW f \in Features, CallStop(o, f) PROVE StillClaimed'
      BY <2>a, <2>2 DEF CallStop, Goto, Unclaim
    <2>3. CASE Increment(o)
      BY <2>a, <2>3 DEF Increment, Return, Goto, Claim
    <2>4. CASE StartInstance(o)
      BY <2>a, <2>4 DEF StartInstance, Return, Goto, Claim
    <2>5. CASE Decrement(o)
      BY <2>a, <2>5 DEF Decrement, Return, Goto, Unclaim
    <2>6. CASE StopInstance(o)
      BY <2>a, <2>6 DEF StopInstance, Return, Goto, Unclaim
    <2>7. QED
      BY <1>1, <2>1, <2>2, <2>3, <2>4, <2>5, <2>6 DEF ObserverStep
  <1>2. ASSUME EngineStep PROVE FALSE
    BY <1>2 DEF EngineStep, CallDisable, DisableCheck, DisableStop, DisableStore,
                CallEnable, EnableStore
  <1>3. CASE UNCHANGED vars
    BY <1>3 DEF vars
  <1>4. QED
    BY <1>1, <1>2, <1>3 DEF Next

\* An observer's step changes the counter and its observers together.
LEMMA ObserverCountsExactly ==
  ASSUME TypeOK, NotYetClaimed, Holding, NEW o \in Observers, ObserverStep(o),
         NEW g \in Features, counter[g] >= 0
  PROVE  \/ counter'[g] = counter[g] /\ Counted(g)' = Counted(g)
         \/ /\ counter'[g] = counter[g] + 1
            /\ \E p : p \notin Counted(g) /\ Counted(g)' = Counted(g) \cup {p}
         \/ /\ counter'[g] = counter[g] - 1
            /\ \E p : p \in Counted(g) /\ Counted(g)' = Counted(g) \ {p}
  <1> DEFINE Goal == \/ counter'[g] = counter[g] /\ Counted(g)' = Counted(g)
                     \/ /\ counter'[g] = counter[g] + 1
                        /\ \E p : p \notin Counted(g) /\ Counted(g)' = Counted(g) \cup {p}
                     \/ /\ counter'[g] = counter[g] - 1
                        /\ \E p : p \in Counted(g) /\ Counted(g)' = Counted(g) \ {p}
  <1> SUFFICES Goal
    OBVIOUS
  <1> USE DEF TypeOK, PcOK, Threads
  <1>0. \A p \in Observers : p # o =>
           pc[p] = pc'[p] /\ arg[p] = arg'[p] /\ claims[p] = claims'[p]
    BY DEF ObserverStep, CallStart, CallStop, Increment, StartInstance, Decrement,
                StopInstance, Return, Goto, Claim, Unclaim
  <1>1. ASSUME NEW f \in Features, CallStart(o, f) PROVE Goal
    <2>1. CASE counter[f] < 0
      <3>1. f # g
        BY <2>1
      <3>2. counter'[g] = counter[g] /\ Counted(g)' = Counted(g)
        BY <1>0, <1>1, <2>1, <3>1 DEF CallStart, Goto, Claim, Counted, At
      <3>3. QED
        BY <3>2
    <2>2. CASE ~(counter[f] < 0)
      <3>1. counter'[g] = counter[g] /\ Counted(g)' = Counted(g)
        BY <1>0, <1>1, <2>2 DEF CallStart, Goto, Counted, At
      <3>2. QED
        BY <3>1
    <2>3. QED
      BY <2>1, <2>2
  <1>2. ASSUME NEW f \in Features, CallStop(o, f) PROVE Goal
    <2>1. ~(g = f /\ counter[f] < 0)
      OBVIOUS
    <2>2. counter'[g] = counter[g] /\ Counted(g)' = Counted(g)
      BY <1>0, <1>2, <2>1 DEF CallStop, Goto, Unclaim, Counted, At
    <2>3. QED
      BY <2>2
  <1>3. CASE Increment(o)
    <2>1. CASE g = arg[o]
      <3>1. o \notin Counted(g) /\ Counted(g)' = Counted(g) \cup {o}
        BY <1>0, <1>3, <2>1 DEF Increment, Return, Goto, Claim, Counted, At, NotYetClaimed
      <3>2. counter'[g] = counter[g] + 1
        BY <1>3, <2>1 DEF Increment
      <3>3. QED
        BY <3>1, <3>2
    <2>2. CASE g # arg[o]
      <3>1. Counted(g)' = Counted(g)
        BY <1>0, <1>3, <2>2 DEF Increment, Return, Goto, Claim, Counted, At
      <3>2. counter'[g] = counter[g]
        BY <1>3, <2>2 DEF Increment
      <3>3. QED
        BY <3>1, <3>2
    <2>3. QED
      BY <2>1, <2>2
  <1>4. CASE StartInstance(o)
    <2>1. counter'[g] = counter[g] /\ Counted(g)' = Counted(g)
      BY <1>0, <1>4 DEF StartInstance, Return, Goto, Claim, Counted, At
    <2>2. QED
      BY <2>1
  <1>5. CASE Decrement(o)
    <2>1. CASE g = arg[o]
      <3>1. o \in Counted(g)
        BY <1>5, <2>1 DEF Decrement, Counted, At, Holding
      <3>2. Counted(g)' = Counted(g) \ {o}
        BY <1>0, <1>5, <2>1 DEF Decrement, Return, Goto, Unclaim, Counted, At
      <3>3. counter'[g] = counter[g] - 1
        BY <1>5, <2>1 DEF Decrement
      <3>4. QED
        BY <3>1, <3>2, <3>3
    <2>2. CASE g # arg[o]
      <3>1. Counted(g)' = Counted(g)
        BY <1>0, <1>5, <2>2 DEF Decrement, Return, Goto, Unclaim, Counted, At
      <3>2. counter'[g] = counter[g]
        BY <1>5, <2>2 DEF Decrement
      <3>3. QED
        BY <3>1, <3>2
    <2>3. QED
      BY <2>1, <2>2
  <1>6. CASE StopInstance(o)
    <2>1. counter'[g] = counter[g] /\ Counted(g)' = Counted(g)
      BY <1>0, <1>6 DEF StopInstance, Return, Goto, Unclaim, Counted, At
    <2>2. QED
      BY <2>1
  <1>7. QED
    BY <1>1, <1>2, <1>3, <1>4, <1>5, <1>6 DEF ObserverStep


\* So does every step while nobody disables the provider.
LEMMA StepCountsExactly ==
  ASSUME ~Administered, TypeOK, NotYetClaimed, StillClaimed, [Next]_vars,
         NEW g \in Features, counter[g] >= 0
  PROVE  \/ counter'[g] = counter[g] /\ Counted(g)' = Counted(g)
         \/ /\ counter'[g] = counter[g] + 1
            /\ \E o : o \notin Counted(g) /\ Counted(g)' = Counted(g) \cup {o}
         \/ /\ counter'[g] = counter[g] - 1
            /\ \E o : o \in Counted(g) /\ Counted(g)' = Counted(g) \ {o}
  <1> DEFINE Goal == \/ counter'[g] = counter[g] /\ Counted(g)' = Counted(g)
                     \/ /\ counter'[g] = counter[g] + 1
                        /\ \E o : o \notin Counted(g) /\ Counted(g)' = Counted(g) \cup {o}
                     \/ /\ counter'[g] = counter[g] - 1
                        /\ \E o : o \in Counted(g) /\ Counted(g)' = Counted(g) \ {o}
  <1> SUFFICES Goal
    OBVIOUS
  <1> USE DEF TypeOK, PcOK, Threads
  <1>1. ASSUME NEW o \in Observers, ObserverStep(o) PROVE Goal
    BY <1>1, ObserverCountsExactly DEF StillClaimed
  <1>2. ASSUME EngineStep PROVE FALSE
    BY <1>2 DEF EngineStep, CallDisable, DisableCheck, DisableStop, DisableStore,
                CallEnable, EnableStore, StillClaimed
  <1>3. CASE UNCHANGED vars
    BY <1>3 DEF vars, Counted, At
  <1>4. QED
    BY <1>1, <1>2, <1>3 DEF Next

LEMMA CountedLoses ==
  ASSUME NEW f, NEW o, o \in Counted(f), Counted(f)' = Counted(f) \ {o}
  PROVE  Cardinality(Counted(f)') = Cardinality(Counted(f)) - 1
  BY CountedFinite, FS_RemoveElement

\* No step changes how the callers behave.
LEMMA CallersFixed == [Next]_vars => callers' = callers
  <1> SUFFICES ASSUME [Next]_vars PROVE callers' = callers
    OBVIOUS
  <1>1. ASSUME NEW o \in Observers, ObserverStep(o) PROVE callers' = callers
    BY <1>1 DEF ObserverStep, CallStart, CallStop, Increment, StartInstance, Decrement,
                StopInstance
  <1>2. ASSUME EngineStep PROVE callers' = callers
    BY <1>2 DEF EngineStep, CallDisable, DisableCheck, DisableStop, DisableStore, CallEnable,
                EnableStore
  <1>3. QED
    BY <1>1, <1>2 DEF Next, vars

LEMMA NextExactInv == ~Administered /\ TypeOK /\ ExactInv /\ [Next]_vars => ExactInv'
  <1> SUFFICES ASSUME ~Administered, TypeOK, ExactInv, [Next]_vars PROVE ExactInv'
    OBVIOUS
  <1>1. TypeOK'
    BY NextTypeOK
  <1>2. ASSUME NEW g \in Features PROVE counter'[g] = Cardinality(Counted(g)')
    <2>1. /\ counter[g] \in Int /\ counter'[g] \in Int
          /\ Cardinality(Counted(g)) \in Nat /\ Cardinality(Counted(g)') \in Nat
          /\ counter[g] = Cardinality(Counted(g))
      BY <1>1, CountedFinite DEF TypeOK, ExactInv
    <2>2. CASE counter'[g] = counter[g] /\ Counted(g)' = Counted(g)
      BY <2>1, <2>2
    <2>3. CASE /\ counter'[g] = counter[g] + 1
               /\ \E o : o \notin Counted(g) /\ Counted(g)' = Counted(g) \cup {o}
      <3>1. Cardinality(Counted(g)') = Cardinality(Counted(g)) + 1
        BY <2>3, CountedPlusOne
      <3>2. QED
        BY <2>1, <2>3, <3>1
    <2>4. CASE /\ counter'[g] = counter[g] - 1
               /\ \E o : o \in Counted(g) /\ Counted(g)' = Counted(g) \ {o}
      <3>1. Cardinality(Counted(g)') = Cardinality(Counted(g)) - 1
        BY <2>4, CountedLoses
      <3>2. QED
        BY <2>1, <2>4, <3>1
    <2>5. counter[g] >= 0
      BY <2>1
    <2>6. QED
      BY <2>2, <2>3, <2>4, <2>5, StepCountsExactly DEF ExactInv
  <1>3. NotYetClaimed'
    BY NextNotYetClaimed DEF ExactInv
  <1>4. StillClaimed'
    BY NextStillClaimed DEF ExactInv
  <1>5. QED
    BY <1>2, <1>3, <1>4 DEF ExactInv

LEMMA InitExactInv == Init => ExactInv
  <1> SUFFICES ASSUME Init PROVE ExactInv
    OBVIOUS
  <1>1. ASSUME NEW f \in Features PROVE counter[f] = Cardinality(Counted(f))
    <2>1. Counted(f) = {}
      BY DEF Init, Counted, At, Threads
    <2>2. counter[f] = 0
      BY DEF Init
    <2>3. QED
      BY <2>1, <2>2, FS_EmptySet
  <1>2. NotYetClaimed /\ StillClaimed
    BY DEF Init, NotYetClaimed, StillClaimed, Holding, Threads
  <1>3. QED
    BY <1>1, <1>2 DEF ExactInv

(***************************************************************************)
(* While nobody disables the provider, the counter is exact in every       *)
(* interleaving of starts and stops.                                       *)
(***************************************************************************)
THEOREM CounterIsExact == Spec => []CountExact
  <1>1. Init => (~Administered => ExactInv)
    BY InitExactInv
  <1>2. TypeOK /\ (~Administered => ExactInv) /\ [Next]_vars => (~Administered => ExactInv)'
    BY NextExactInv, CallersFixed DEF Administered
  <1>3. (~Administered => ExactInv) => CountExact
    BY DEF ExactInv, CountExact
  <1>4. QED
    BY <1>1, <1>2, <1>3, Typing, PTL DEF Spec

-----------------------------------------------------------------------------
(***************************************************************************)
(* Serialised calls.  At most one thread is inside; a feature whose        *)
(* hardware and counter disagree is one the thread inside is about to      *)
(* start or stop, one disable() has stopped and not yet marked, or one an  *)
(* enable() has forgotten.                                                 *)
(***************************************************************************)
OneInside == \A t, u \in Threads : t # u => pc[t] = "idle" \/ pc[u] = "idle"

InsideCounts ==
  \A o \in Observers :
    /\ pc[o] \in {"increment", "decrement"} => counter[arg[o]] >= 0
    /\ pc[o] = "start_instance" => counter[arg[o]] = 1
    /\ pc[o] = "stop_instance" => counter[arg[o]] = 0

\* disable() has stopped f and not yet stored -1.
StoppedByDisable(f) ==
  \/ pc[Engine] \in {"disable_check", "disable_stop"} /\ f < arg[Engine]
  \/ pc[Engine] = "disable_store" /\ f >= arg[Engine]

\* The features that are marked disabled.
MarkedDisabled(f) ==
  \/ pc[Engine] = "disable_store" /\ f < arg[Engine]
  \/ pc[Engine] = "idle" /\ phase = "disabled"

Matched(f) ==
  \/ (running[f] <=> counter[f] > 0 \/ f \in forgotten)
  \/ \E o \in Observers : pc[o] \in {"start_instance", "stop_instance"} /\ arg[o] = f
  \/ StoppedByDisable(f)

SerialInv ==
  /\ OneInside
  /\ InsideCounts
  /\ \A f \in Features :
       /\ StoppedByDisable(f) => (running[f] <=> f \in forgotten)
       /\ MarkedDisabled(f) => counter[f] < 0
       /\ Matched(f)

LEMMA InitSerialInv == Init => SerialInv
  BY ControllerAssumption
  DEF Init, SerialInv, OneInside, InsideCounts, StoppedByDisable, MarkedDisabled, Matched,
      Threads

\* A step of an observer that is alone in the controller.
LEMMA ObserverSerialInv ==
  ASSUME TypeOK, SerialInv, NEW o \in Observers, Alone(o), ObserverStep(o)
  PROVE  SerialInv'
  <1> USE DEF TypeOK, PcOK
  <1>1. /\ o # Engine /\ o \in Threads /\ Engine \in Threads
        /\ \A p \in Observers : p \in Threads
        /\ pc[Engine] = "idle"
        /\ \A u \in Threads : u # o => pc[u] = "idle"
    BY ControllerAssumption DEF Alone, Threads
  <1>2. /\ \A u \in Threads : u # o => pc'[u] = "idle"
        /\ pc'[Engine] = "idle" /\ phase' = phase
    <2>1. phase' = phase /\ \A u \in Threads : u # o => pc'[u] = pc[u]
      BY DEF ObserverStep, CallStart, CallStop, Increment, StartInstance, Decrement,
             StopInstance, Return, Goto
    <2>2. QED
      BY <1>1, <2>1
  <1>3. OneInside'
    BY <1>2 DEF OneInside
  <1>4. \A f \in Features : ~StoppedByDisable(f) /\ ~StoppedByDisable(f)'
    BY <1>1, <1>2 DEF StoppedByDisable
  <1>5. \A f \in Features :
          /\ Matched(f) <=> \/ (running[f] <=> counter[f] > 0 \/ f \in forgotten)
                            \/ pc[o] \in {"start_instance", "stop_instance"} /\ arg[o] = f
          /\ MarkedDisabled(f) <=> phase = "disabled"
          /\ MarkedDisabled(f)' <=> phase = "disabled"
    BY <1>1, <1>2, <1>4 DEF Matched, MarkedDisabled
  <1>6. /\ pc[o] \in {"increment", "decrement"} => counter[arg[o]] >= 0
        /\ pc[o] = "start_instance" => counter[arg[o]] = 1
        /\ pc[o] = "stop_instance" => counter[arg[o]] = 0
        /\ pc[o] # "idle" => arg[o] \in Features
        /\ \A f \in Features : phase = "disabled" => counter[f] < 0
        /\ \A f \in Features :
             \/ (running[f] <=> counter[f] > 0 \/ f \in forgotten)
             \/ pc[o] \in {"start_instance", "stop_instance"} /\ arg[o] = f
    BY <1>1, <1>5 DEF SerialInv, InsideCounts
  <1> DEFINE CountsOK == /\ pc'[o] \in {"increment", "decrement"} => counter'[arg'[o]] >= 0
                         /\ pc'[o] = "start_instance" => counter'[arg'[o]] = 1
                         /\ pc'[o] = "stop_instance" => counter'[arg'[o]] = 0
             FeatureOK(f) == /\ phase = "disabled" => counter'[f] < 0
                             /\ \/ (running'[f] <=> counter'[f] > 0 \/ f \in forgotten')
                                \/ /\ pc'[o] \in {"start_instance", "stop_instance"}
                                   /\ arg'[o] = f
             Goal == CountsOK /\ \A f \in Features : FeatureOK(f)
  <1>7. SUFFICES Goal
    <2>1. InsideCounts'
      BY <1>1, <1>2, <1>7 DEF InsideCounts
    <2>2. \A f \in Features : Matched(f)'
      BY <1>7 DEF Matched
    <2>3. QED
      BY <1>3, <1>4, <1>5, <1>7, <2>1, <2>2 DEF SerialInv
  <1> USE DEF Threads
  <1>8. ASSUME NEW g \in Features, CallStart(o, g) \/ CallStop(o, g) PROVE Goal
    <2>1. counter' = counter /\ running' = running /\ forgotten' = forgotten
      BY <1>8 DEF CallStart, CallStop
    <2>2. pc[o] = "idle"
      BY <1>8 DEF CallStart, CallStop
    <2>3. \/ pc'[o] = "idle"
          \/ pc'[o] \in {"increment", "decrement"} /\ arg'[o] = g /\ counter[g] >= 0
      BY <1>8, <2>2 DEF CallStart, CallStop, Goto
    <2>4. QED
      BY <1>6, <2>1, <2>2, <2>3
  <1>9. ASSUME Increment(o) PROVE Goal
    <2>1. /\ arg[o] \in Features /\ counter[arg[o]] >= 0
          /\ pc[o] = "increment" /\ running' = running /\ forgotten' = forgotten
          /\ counter' = [counter EXCEPT ![arg[o]] = @ + 1]
      BY <1>6, <1>9 DEF Increment
    <2>2. \/ counter[arg[o]] + 1 = 1 /\ pc'[o] = "start_instance" /\ arg'[o] = arg[o]
          \/ counter[arg[o]] + 1 # 1 /\ pc'[o] = "idle"
      BY <1>9 DEF Increment, Return, Goto
    <2>3. counter'[arg[o]] = counter[arg[o]] + 1
      BY <2>1
    <2>4. CountsOK
      BY <2>2, <2>3
    <2>5. ASSUME NEW f \in Features, f # arg[o] PROVE FeatureOK(f)
      BY <1>6, <2>1, <2>5
    <2>6. FeatureOK(arg[o])
      BY <1>6, <2>1, <2>2, <2>3
    <2>7. QED
      BY <2>4, <2>5, <2>6
  <1>10. ASSUME StartInstance(o) PROVE Goal
    <2>1. /\ arg[o] \in Features /\ counter[arg[o]] = 1
          /\ pc[o] = "start_instance" /\ pc'[o] = "idle" /\ counter' = counter
          /\ running' = [running EXCEPT ![arg[o]] = TRUE]
          /\ forgotten' = forgotten \ {arg[o]}
      BY <1>6, <1>10 DEF StartInstance, Instance, Return, Goto
    <2>2. CountsOK
      BY <2>1
    <2>3. ASSUME NEW f \in Features, f # arg[o] PROVE FeatureOK(f)
      BY <1>6, <2>1, <2>3
    <2>4. FeatureOK(arg[o])
      BY <1>6, <2>1
    <2>5. QED
      BY <2>2, <2>3, <2>4
  <1>11. ASSUME Decrement(o) PROVE Goal
    <2>1. /\ arg[o] \in Features /\ counter[arg[o]] >= 0
          /\ pc[o] = "decrement" /\ running' = running /\ forgotten' = forgotten
          /\ counter' = [counter EXCEPT ![arg[o]] = @ - 1]
      BY <1>6, <1>11 DEF Decrement
    <2>2. \/ counter[arg[o]] - 1 = 0 /\ pc'[o] = "stop_instance" /\ arg'[o] = arg[o]
          \/ counter[arg[o]] - 1 # 0 /\ pc'[o] = "idle"
      BY <1>11 DEF Decrement, Return, Goto
    <2>3. counter'[arg[o]] = counter[arg[o]] - 1
      BY <2>1
    <2>4. CountsOK
      BY <2>2, <2>3
    <2>5. ASSUME NEW f \in Features, f # arg[o] PROVE FeatureOK(f)
      BY <1>6, <2>1, <2>5
    <2>6. FeatureOK(arg[o])
      BY <1>6, <2>1, <2>2, <2>3
    <2>7. QED
      BY <2>4, <2>5, <2>6
  <1>12. ASSUME StopInstance(o) PROVE Goal
    <2>1. /\ arg[o] \in Features /\ counter[arg[o]] = 0
          /\ pc[o] = "stop_instance" /\ pc'[o] = "idle" /\ counter' = counter
          /\ running' = [running EXCEPT ![arg[o]] = FALSE]
          /\ forgotten' = forgotten \ {arg[o]}
      BY <1>6, <1>12 DEF StopInstance, Instance, Return, Goto
    <2>2. CountsOK
      BY <2>1
    <2>3. ASSUME NEW f \in Features, f # arg[o] PROVE FeatureOK(f)
      BY <1>6, <2>1, <2>3
    <2>4. FeatureOK(arg[o])
      BY <1>6, <2>1
    <2>5. QED
      BY <2>2, <2>3, <2>4
  <1>13. QED
    BY <1>8, <1>9, <1>10, <1>11, <1>12 DEF ObserverStep

\* A step of disable() or enable() with nobody else in the controller.
LEMMA EngineSerialInv ==
  ASSUME TypeOK, SerialInv, Alone(Engine), EngineStep
  PROVE  SerialInv'
  <1> USE ControllerAssumption DEF TypeOK, PcOK
  <1> DEFINE k == arg[Engine]
  <1>1. /\ \A o \in Observers : o \in Threads /\ o # Engine /\ pc[o] = "idle"
        /\ Engine \in Threads
        /\ pc[Engine] # "idle" => k \in Features
    BY DEF Alone, Threads
  <1>2. \A o \in Observers : pc'[o] = "idle"
    <2>1. \A o \in Observers : pc'[o] = pc[o]
      BY <1>1 DEF EngineStep, CallDisable, DisableCheck, DisableStop, DisableStore, CallEnable,
                  EnableStore, AfterCheck, Return, Goto
    <2>2. QED
      BY <1>1, <2>1
  <1>3. OneInside' /\ InsideCounts'
    BY <1>2 DEF OneInside, InsideCounts, Threads
  <1>4. \A f \in Features :
          /\ StoppedByDisable(f) => (running[f] <=> f \in forgotten)
          /\ MarkedDisabled(f) => counter[f] < 0
          /\ (running[f] <=> counter[f] > 0 \/ f \in forgotten) \/ StoppedByDisable(f)
    BY <1>1 DEF SerialInv, Matched
  <1> DEFINE FeatureOK(f) ==
               /\ StoppedByDisable(f)' => (running'[f] <=> f \in forgotten')
               /\ MarkedDisabled(f)' => counter'[f] < 0
               /\ \/ running'[f] <=> counter'[f] > 0 \/ f \in forgotten'
                  \/ StoppedByDisable(f)'
  <1>5. SUFFICES ASSUME NEW f \in Features PROVE FeatureOK(f)
    BY <1>3 DEF SerialInv, Matched
  <1> USE DEF StoppedByDisable, MarkedDisabled
  <1>6. f \in 1 .. NFeatures /\ NFeatures \in Nat
    BY DEF Features
  <1>7. CASE CallDisable
    <2>1. /\ pc[Engine] = "idle" /\ pc'[Engine] = "disable_check" /\ arg'[Engine] = 1
          /\ counter' = counter /\ running' = running /\ forgotten' = forgotten
      BY <1>1, <1>7 DEF CallDisable, Goto
    <2>2. QED
      BY <1>4, <1>6, <2>1
  <1>8. ASSUME AfterCheck(k), k \in Features, counter' = counter,
               pc[Engine] \in {"disable_check", "disable_stop"},
               running'[k] <=> k \in forgotten',
               \A g \in Features : g # k => /\ running'[g] = running[g]
                                            /\ g \in forgotten' <=> g \in forgotten
        PROVE  FeatureOK(f)
    <2>1. k \in 1 .. NFeatures
      BY <1>8 DEF Features
    <2>2. CASE k < NFeatures
      <3>1. pc'[Engine] = "disable_check" /\ arg'[Engine] = k + 1
        BY <1>1, <1>8, <2>2 DEF AfterCheck, Goto
      <3>2. CASE f = k
        BY <1>8, <2>1, <3>1, <3>2
      <3>3. CASE f # k
        BY <1>4, <1>6, <1>8, <2>1, <3>1, <3>3
      <3>4. QED
        BY <3>2, <3>3
    <2>3. CASE ~(k < NFeatures)
      <3>1. pc'[Engine] = "disable_store" /\ arg'[Engine] = 1
        BY <1>1, <1>8, <2>3 DEF AfterCheck, Goto
      <3>2. running'[f] <=> f \in forgotten'
        <4>1. CASE f = k
          BY <1>8, <4>1
        <4>2. CASE f # k
          BY <1>4, <1>6, <1>8, <2>1, <2>3, <4>2
        <4>3. QED
          BY <4>1, <4>2
      <3>3. QED
        BY <1>6, <3>1, <3>2
    <2>4. QED
      BY <2>2, <2>3
  <1>9. CASE DisableCheck
    <2>1. /\ k \in Features /\ pc[Engine] = "disable_check"
          /\ counter' = counter /\ running' = running /\ forgotten' = forgotten
      BY <1>1, <1>9 DEF DisableCheck
    <2>2. CASE counter[k] > 0
      <3>1. pc'[Engine] = "disable_stop" /\ arg'[Engine] = k
        BY <1>1, <1>9, <2>2 DEF DisableCheck, Goto
      <3>2. QED
        BY <1>4, <2>1, <3>1
    <2>3. CASE ~(counter[k] > 0)
      <3>1. AfterCheck(k)
        BY <1>9, <2>3 DEF DisableCheck
      <3>2. running[k] <=> k \in forgotten
        BY <1>4, <2>1, <2>3
      <3>3. QED
        BY <1>8, <2>1, <3>1, <3>2
    <2>4. QED
      BY <2>2, <2>3
  <1>10. CASE DisableStop
    <2>1. /\ k \in Features /\ pc[Engine] = "disable_stop" /\ counter' = counter
          /\ AfterCheck(k) /\ running' = [running EXCEPT ![k] = FALSE]
          /\ forgotten' = forgotten \ {k}
      BY <1>1, <1>10 DEF DisableStop, Instance
    <2>2. /\ running'[k] <=> k \in forgotten'
          /\ \A g \in Features : g # k => /\ running'[g] = running[g]
                                          /\ g \in forgotten' <=> g \in forgotten
      BY <2>1
    <2>3. QED
      BY <1>8, <2>1, <2>2
  <1>11. CASE DisableStore
    <2>1. /\ k \in Features /\ pc[Engine] = "disable_store"
          /\ running' = running /\ forgotten' = forgotten
          /\ counter' = [counter EXCEPT ![k] = -1]
      BY <1>1, <1>11 DEF DisableStore, our_magic_disabling_value
    <2>2. k \in 1 .. NFeatures
      BY <2>1 DEF Features
    <2>3. counter'[k] = -1 /\ (f # k => counter'[f] = counter[f])
      BY <2>1
    <2>4. f >= k => (running[f] <=> f \in forgotten)
      BY <1>4, <2>1
    <2>5. f < k => counter[f] < 0 /\ (running[f] <=> f \in forgotten)
      BY <1>4, <1>6, <2>1, <2>2
    <2>6. CASE k < NFeatures
      <3>1. pc'[Engine] = "disable_store" /\ arg'[Engine] = k + 1
        BY <1>1, <1>11, <2>6 DEF DisableStore, Goto
      <3>2. QED
        BY <1>6, <2>1, <2>2, <2>3, <2>4, <2>5, <3>1
    <2>7. CASE k = NFeatures
      <3>1. pc'[Engine] = "idle" /\ phase' = "disabled"
        BY <1>1, <1>11, <2>7 DEF DisableStore, Return, Goto
      <3>2. QED
        BY <1>6, <2>1, <2>2, <2>3, <2>4, <2>5, <2>7, <3>1
    <2>8. QED
      BY <1>6, <2>2, <2>6, <2>7
  <1>12. CASE CallEnable
    <2>1. /\ pc[Engine] = "idle" /\ pc'[Engine] = "enable_store"
          /\ counter' = counter /\ running' = running /\ forgotten' = forgotten
      BY <1>1, <1>12 DEF CallEnable, Goto
    <2>2. QED
      BY <1>4, <1>6, <2>1
  <1>13. CASE EnableStore
    <2>1. /\ k \in Features /\ pc[Engine] = "enable_store" /\ running' = running
          /\ counter' = [counter EXCEPT ![k] = 0]
          /\ forgotten' = IF running[k] THEN forgotten \union {k} ELSE forgotten \ {k}
      BY <1>1, <1>13 DEF EnableStore
    <2>2. running[f] <=> counter[f] > 0 \/ f \in forgotten
      BY <1>4, <2>1
    <2>3. running'[f] <=> counter'[f] > 0 \/ f \in forgotten'
      <3>1. CASE f = k
        BY <2>1, <3>1
      <3>2. CASE f # k
        BY <2>1, <2>2, <3>2
      <3>3. QED
        BY <3>1, <3>2
    <2>4. \/ pc'[Engine] = "enable_store"
          \/ pc'[Engine] = "idle" /\ phase' = "enabled"
      BY <1>1, <1>13 DEF EnableStore, Return, Goto
    <2>5. QED
      BY <2>3, <2>4
  <1>14. QED
    BY <1>7, <1>9, <1>10, <1>11, <1>12, <1>13 DEF EngineStep

\* Whoever steps is alone in the controller.
LEMMA StepsAlone ==
  ASSUME Serialised, OneInside
  PROVE  /\ \A o \in Observers : ObserverStep(o) => Alone(o)
         /\ EngineStep => Alone(Engine)
  <1>1. \A t \in Threads : pc[t] # "idle" => Alone(t)
    BY DEF OneInside, Alone
  <1>2. ASSUME NEW o \in Observers, ObserverStep(o) PROVE Alone(o)
    BY <1>1, <1>2 DEF ObserverStep, CallStart, CallStop, Increment, StartInstance, Decrement,
                      StopInstance, MayEnter, Threads
  <1>3. ASSUME EngineStep PROVE Alone(Engine)
    BY <1>1, <1>3 DEF EngineStep, CallDisable, DisableCheck, DisableStop, DisableStore,
                      CallEnable, EnableStore, MayEnter, Threads
  <1>4. QED
    BY <1>2, <1>3

LEMMA NextSerialInv == Serialised /\ TypeOK /\ SerialInv /\ [Next]_vars => SerialInv'
  <1> SUFFICES ASSUME Serialised, TypeOK, SerialInv, [Next]_vars PROVE SerialInv'
    OBVIOUS
  <1>1. CASE UNCHANGED vars
    BY <1>1 DEF vars, SerialInv, OneInside, InsideCounts, StoppedByDisable, MarkedDisabled,
                Matched
  <1>2. OneInside
    BY DEF SerialInv
  <1>3. QED
    BY <1>1, <1>2, StepsAlone, ObserverSerialInv, EngineSerialInv DEF Next

(***************************************************************************)
(* With serialised calls, the strengthening that ties the counter, the     *)
(* hardware and the progress of disable() and enable() holds (provider.cpp *)
(* 31-139): it is what the theorems below rest on.                         *)
(***************************************************************************)
THEOREM SerialInvariant == Spec => [](Serialised => SerialInv)
  <1>1. Init => (Serialised => SerialInv)
    BY InitSerialInv
  <1>2. TypeOK /\ (Serialised => SerialInv) /\ [Next]_vars => (Serialised => SerialInv)'
    BY NextSerialInv, CallersFixed DEF Serialised
  <1>3. QED
    BY <1>1, <1>2, Typing, PTL DEF Spec

(***************************************************************************)
(* With serialised calls, the hardware runs between calls exactly while    *)
(* the counter is positive or an enable() zeroed it under the hardware.    *)
(***************************************************************************)
THEOREM RunningMatchesCounter == Spec => []RunningIffCounted
  <1>1. (Serialised => SerialInv) => RunningIffCounted
    BY ControllerAssumption
    DEF SerialInv, RunningIffCounted, Quiet, Matched, StoppedByDisable, Threads
  <1>2. QED
    BY <1>1, SerialInvariant, PTL

(***************************************************************************)
(* With serialised calls, hardware that runs between calls was asked for,  *)
(* or an enable() has forgotten it.                                        *)
(***************************************************************************)
THEOREM NoHardwareLeak == Spec => []NoLeak
  <1>1. TypeOK /\ (Serialised => SerialInv) /\ NeverOvercounted => NoLeak
    <2> SUFFICES ASSUME TypeOK, SerialInv, NeverOvercounted, Quiet,
                        NEW f \in Features, running[f], f \notin forgotten
                 PROVE  \E o \in Observers : f \in claims[o]
      BY DEF NoLeak
    <2>1. counter[f] > 0 /\ counter[f] \in Int
      BY ControllerAssumption
      DEF SerialInv, Quiet, Matched, StoppedByDisable, Threads, TypeOK
    <2>2. Counted(f) # {}
      BY <2>1, CountedFinite, FS_EmptySet DEF NeverOvercounted
    <2>3. PICK o \in Observers : o \in Counted(f)
      BY <2>2 DEF Counted
    <2>4. QED
      BY <2>3 DEF Counted, At, Quiet, Threads
  <1>2. QED
    BY <1>1, SerialInvariant, NoPhantomObserver, Typing, PTL

(***************************************************************************)
(* With serialised calls, a disabled controller refuses every start.       *)
(***************************************************************************)
THEOREM DisabledStaysOff == Spec => []DisabledRefusesStarts
  <1>1. (Serialised => SerialInv) => DisabledRefusesStarts
    BY DEF SerialInv, DisabledRefusesStarts, Quiet, MarkedDisabled, Threads
  <1>2. QED
    BY <1>1, SerialInvariant, PTL

-----------------------------------------------------------------------------
(***************************************************************************)
(* Cooperative callers see the abstract switch.  While the counter of a    *)
(* feature is not marked it equals its observers, so a decrement that      *)
(* leaves others leaves the feature open; a marked feature has none.       *)
(***************************************************************************)
Tallied(g) ==
  IF counter[g] < 0 THEN \A o \in Observers : g \notin claims[o]
                    ELSE counter[g] = Cardinality(Counted(g))

CooperativeInv ==
  /\ SerialInv
  /\ NotYetClaimed
  /\ Holding
  /\ \A g \in Features : Tallied(g)

\* At the start every counter is 0 and nobody has a claim.
LEMMA InitCooperativeInv == Init => CooperativeInv
  <1> SUFFICES ASSUME Init PROVE CooperativeInv
    OBVIOUS
  <1>1. SerialInv /\ ExactInv
    BY InitSerialInv, InitExactInv
  <1>2. \A g \in Features : counter[g] = 0
    BY DEF Init
  <1>3. QED
    BY <1>1, <1>2 DEF CooperativeInv, ExactInv, StillClaimed, Tallied

\* An observer's step keeps the claims it is about to give up, ...
LEMMA ObserverHolds ==
  ASSUME TypeOK, Holding, NEW o \in Observers, ObserverStep(o)
  PROVE  Holding'
  <1> USE DEF Holding, TypeOK, PcOK, Threads
  <1>1. ASSUME NEW f \in Features, CallStart(o, f) PROVE Holding'
    BY <1>1 DEF CallStart, Goto, Claim
  <1>2. ASSUME NEW f \in Features, CallStop(o, f) PROVE Holding'
    BY <1>2 DEF CallStop, Goto, Unclaim
  <1>3. CASE Increment(o)
    BY <1>3 DEF Increment, Return, Goto, Claim
  <1>4. CASE StartInstance(o)
    BY <1>4 DEF StartInstance, Return, Goto, Claim
  <1>5. CASE Decrement(o)
    BY <1>5 DEF Decrement, Return, Goto, Unclaim
  <1>6. CASE StopInstance(o)
    BY <1>6 DEF StopInstance, Return, Goto, Unclaim
  <1>7. QED
    BY <1>1, <1>2, <1>3, <1>4, <1>5, <1>6 DEF ObserverStep

\* ... touches no marked feature, ...
LEMMA ObserverLeavesMarked ==
  ASSUME TypeOK, Cooperative, SerialInv, NEW o \in Observers, ObserverStep(o),
         NEW g \in Features, counter[g] < 0, \A p \in Observers : g \notin claims[p]
  PROVE  counter'[g] = counter[g] /\ \A p \in Observers : g \notin claims'[p]
  <1> USE DEF TypeOK, PcOK, Threads, Goto, Return, Claim, Unclaim
  <1>1. pc[o] # "idle" => arg[o] # g
    BY DEF SerialInv, InsideCounts, ObserverLabels
  <1>2. ASSUME NEW f \in Features, CallStart(o, f)
        PROVE  counter'[g] = counter[g] /\ \A p \in Observers : g \notin claims'[p]
    <2>1. counter' = counter /\ claims' = claims
      BY <1>2 DEF CallStart
    <2>2. QED
      BY <2>1
  <1>3. ASSUME NEW f \in Features, CallStop(o, f)
        PROVE  counter'[g] = counter[g] /\ \A p \in Observers : g \notin claims'[p]
    BY <1>3 DEF CallStop
  <1>4. CASE Increment(o)
    BY <1>1, <1>4 DEF Increment
  <1>5. CASE StartInstance(o)
    BY <1>1, <1>5 DEF StartInstance
  <1>6. CASE Decrement(o)
    BY <1>1, <1>6 DEF Decrement
  <1>7. CASE StopInstance(o)
    BY <1>1, <1>7 DEF StopInstance
  <1>8. QED
    BY <1>2, <1>3, <1>4, <1>5, <1>6, <1>7 DEF ObserverStep

\* ... and tallies.
LEMMA ObserverTallies ==
  ASSUME TypeOK, TypeOK', Cooperative, CooperativeInv, NEW o \in Observers, ObserverStep(o),
         NEW g \in Features
  PROVE  Tallied(g)'
  <1>1. /\ counter[g] \in Int /\ counter'[g] \in Int
        /\ Cardinality(Counted(g)) \in Nat /\ Cardinality(Counted(g)') \in Nat
    BY CountedFinite DEF TypeOK
  <1>2. CASE counter[g] < 0
    BY <1>2, ObserverLeavesMarked DEF CooperativeInv, Tallied
  <1>3. CASE ~(counter[g] < 0)
    <2>1. counter[g] = Cardinality(Counted(g))
      BY <1>3 DEF CooperativeInv, Tallied
    <2>2. counter'[g] = Cardinality(Counted(g)')
      <3>1. CASE counter'[g] = counter[g] /\ Counted(g)' = Counted(g)
        BY <2>1, <3>1
      <3>2. CASE /\ counter'[g] = counter[g] + 1
                 /\ \E p : p \notin Counted(g) /\ Counted(g)' = Counted(g) \cup {p}
        <4>1. Cardinality(Counted(g)') = Cardinality(Counted(g)) + 1
          BY <3>2, CountedPlusOne
        <4>2. QED
          BY <2>1, <3>2, <4>1
      <3>3. CASE /\ counter'[g] = counter[g] - 1
                 /\ \E p : p \in Counted(g) /\ Counted(g)' = Counted(g) \ {p}
        <4>1. Cardinality(Counted(g)') = Cardinality(Counted(g)) - 1
          BY <3>3, CountedLoses
        <4>2. QED
          BY <2>1, <3>3, <4>1
      <3>4. QED
        BY <1>1, <1>3, <3>1, <3>2, <3>3, ObserverCountsExactly DEF CooperativeInv
    <2>3. ~(counter'[g] < 0)
      BY <1>1, <2>2
    <2>4. QED
      BY <2>2, <2>3 DEF Tallied
  <1>4. QED
    BY <1>2, <1>3

\* disable() and enable(), with nobody inside, evict whom they count no more.
LEMMA EngineTallies ==
  ASSUME TypeOK, Cooperative, CooperativeInv, Alone(Engine), EngineStep
  PROVE  NotYetClaimed' /\ Holding' /\ \A g \in Features : Tallied(g)'
  <1> USE DEF TypeOK, PcOK
  <1>1. /\ \A o \in Observers : o \in Threads /\ o # Engine /\ pc[o] = "idle"
        /\ pc[Engine] # "idle" => arg[Engine] \in Features
    BY ControllerAssumption DEF Alone, Threads
  <1>2. \A o \in Observers : pc'[o] = "idle"
    <2>1. \A o \in Observers : pc'[o] = pc[o]
      BY <1>1 DEF EngineStep, CallDisable, DisableCheck, DisableStop, DisableStore, CallEnable,
                  EnableStore, AfterCheck, Return, Goto
    <2>2. QED
      BY <1>1, <2>1
  <1>3. NotYetClaimed' /\ Holding'
    BY <1>2 DEF NotYetClaimed, Holding
  <1>4. \A g : /\ Counted(g) = {o \in Observers : g \in claims[o]}
               /\ Counted(g)' = {o \in Observers : g \in claims'[o]}
    BY <1>1, <1>2 DEF Counted, At
  <1>5. ASSUME NEW g \in Features PROVE Tallied(g)'
    <2>1. CASE counter' = counter /\ claims' = claims
      BY <1>4, <2>1 DEF CooperativeInv, Tallied
    <2>2. CASE DisableStore
      <3>1. /\ arg[Engine] \in Features
            /\ counter' = [counter EXCEPT ![arg[Engine]] = -1]
            /\ claims' = [o \in Observers |-> claims[o] \ {arg[Engine]}]
        BY <1>1, <2>2 DEF DisableStore, Evict
      <3>2. CASE g = arg[Engine]
        BY <3>1, <3>2 DEF Tallied
      <3>3. CASE g # arg[Engine]
        <4>1. counter'[g] = counter[g] /\ \A o \in Observers : g \in claims'[o] <=> g \in claims[o]
          BY <3>1, <3>3
        <4>2. Counted(g)' = Counted(g)
          BY <1>4, <4>1
        <4>3. QED
          BY <4>1, <4>2 DEF CooperativeInv, Tallied
      <3>4. QED
        BY <3>2, <3>3
    <2>3. CASE EnableStore
      <3>1. /\ arg[Engine] \in Features
            /\ counter' = [counter EXCEPT ![arg[Engine]] = 0]
            /\ claims' = [o \in Observers |-> claims[o] \ {arg[Engine]}]
        BY <1>1, <2>3 DEF EnableStore, Evict
      <3>2. CASE g = arg[Engine]
        <4>1. Counted(g)' = {}
          BY <1>4, <3>1, <3>2
        <4>2. counter'[g] = 0
          BY <3>1, <3>2
        <4>3. QED
          BY <4>1, <4>2, FS_EmptySet DEF Tallied
      <3>3. CASE g # arg[Engine]
        <4>1. counter'[g] = counter[g] /\ \A o \in Observers : g \in claims'[o] <=> g \in claims[o]
          BY <3>1, <3>3
        <4>2. Counted(g)' = Counted(g)
          BY <1>4, <4>1
        <4>3. QED
          BY <4>1, <4>2 DEF CooperativeInv, Tallied
      <3>4. QED
        BY <3>2, <3>3
    <2>4. QED
      BY <2>1, <2>2, <2>3 DEF EngineStep, CallDisable, DisableCheck, DisableStop, CallEnable
  <1>6. QED
    BY <1>3, <1>5

\* Every step of cooperative callers keeps the tally.
LEMMA NextCooperativeInv ==
  Cooperative /\ TypeOK /\ CooperativeInv /\ [Next]_vars => CooperativeInv'
  <1> SUFFICES ASSUME Cooperative, TypeOK, CooperativeInv, [Next]_vars PROVE CooperativeInv'
    OBVIOUS
  <1>1. TypeOK' /\ SerialInv'
    BY NextTypeOK, NextSerialInv DEF CooperativeInv, Cooperative, Serialised
  <1>2. CASE UNCHANGED vars
    BY <1>1, <1>2 DEF vars, CooperativeInv, NotYetClaimed, Holding, Tallied, Counted, At
  <1>3. ASSUME NEW o \in Observers, ObserverStep(o) PROVE CooperativeInv'
    <2>1. NotYetClaimed'
      BY NextNotYetClaimed DEF CooperativeInv
    <2>2. QED
      BY <1>1, <1>3, <2>1, ObserverHolds, ObserverTallies DEF CooperativeInv
  <1>4. ASSUME EngineStep PROVE CooperativeInv'
    BY <1>1, <1>4, StepsAlone, EngineTallies
       DEF CooperativeInv, SerialInv, Cooperative, Serialised
  <1>5. QED
    BY <1>2, <1>3, <1>4 DEF Next

\* The switch as the observers see it.
Requesting == [f \in Features |-> {o \in Observers : Cooperative /\ f \in claims[o]}]
Accepting == [f \in Features |-> Cooperative => counter[f] >= 0]

\* What an observer's step is to the switch.
LEMMA ObserverSwitches ==
  ASSUME TypeOK, TypeOK', Cooperative, Cooperative', CooperativeInv, CooperativeInv',
         NEW o \in Observers, ObserverStep(o)
  PROVE  /\ \A f \in Features : counter[f] >= 0 <=> counter'[f] >= 0
         /\ \/ claims' = claims
            \/ \E f \in Features :
                 /\ counter[f] >= 0
                 /\ \/ f \notin claims[o] /\ Claim(o, f)
                    \/ f \in claims[o] /\ Unclaim(o, f)
  <1> DEFINE Switched ==
        \/ claims' = claims
        \/ \E f \in Features :
             /\ counter[f] >= 0
             /\ \/ f \notin claims[o] /\ Claim(o, f)
                \/ f \in claims[o] /\ Unclaim(o, f)
  <1>1. ASSUME NEW f \in Features PROVE counter[f] >= 0 <=> counter'[f] >= 0
    <2>1. counter[f] \in Int /\ counter'[f] \in Int
      BY DEF TypeOK
    <2>2. CASE counter[f] < 0
      <3>1. counter'[f] = counter[f]
        BY <2>2, ObserverLeavesMarked DEF CooperativeInv, Tallied
      <3>2. QED
        BY <3>1
    <2>3. CASE counter[f] >= 0
      <3>1. Cardinality(Counted(f)) \in Nat /\ Cardinality(Counted(f)') \in Nat
        BY CountedFinite
      <3>2. counter[f] = Cardinality(Counted(f))
        BY <2>1, <2>3 DEF CooperativeInv, Tallied
      <3>3. CASE /\ counter'[f] = counter[f] - 1
                 /\ \E p : p \in Counted(f) /\ Counted(f)' = Counted(f) \ {p}
        <4>1. Cardinality(Counted(f)') = Cardinality(Counted(f)) - 1
          BY <3>3, CountedLoses
        <4>2. QED
          BY <2>1, <3>1, <3>2, <3>3, <4>1
      <3>4. CASE counter'[f] = counter[f] \/ counter'[f] = counter[f] + 1
        BY <2>1, <2>3, <3>4
      <3>5. QED
        BY <2>3, <3>3, <3>4, ObserverCountsExactly DEF CooperativeInv
    <2>4. QED
      BY <2>1, <2>2, <2>3
  <1>2. /\ pc[o] \in {"increment", "decrement", "start_instance", "stop_instance"}
             => arg[o] \in Features /\ counter[arg[o]] >= 0
        /\ pc[o] \in {"increment", "start_instance"} => arg[o] \notin claims[o]
        /\ pc[o] \in {"decrement", "stop_instance"} => arg[o] \in claims[o]
    BY ArgType DEF CooperativeInv, SerialInv, InsideCounts, NotYetClaimed, Holding, TypeOK
  <1>3. Switched
    <2>1. ASSUME NEW f \in Features, CallStart(o, f) PROVE Switched
      BY <2>1 DEF CallStart
    <2>2. ASSUME NEW f \in Features, CallStop(o, f) PROVE Switched
      <3>1. ~(counter[f] < 0)
        BY <2>2 DEF CallStop, CooperativeInv, Tallied
      <3>2. QED
        BY <2>2, <3>1 DEF CallStop
    <2>3. CASE Increment(o)
      BY <1>2, <2>3 DEF Increment
    <2>4. CASE StartInstance(o)
      BY <1>2, <2>4 DEF StartInstance
    <2>5. CASE Decrement(o)
      BY <1>2, <2>5 DEF Decrement
    <2>6. CASE StopInstance(o)
      BY <1>2, <2>6 DEF StopInstance
    <2>7. QED
      BY <2>1, <2>2, <2>3, <2>4, <2>5, <2>6 DEF ObserverStep
  <1>4. QED
    BY <1>1, <1>3

\* What a step of disable() or enable() is to the switch.
LEMMA EngineSwitches ==
  ASSUME TypeOK, Cooperative, CooperativeInv, EngineStep
  PROVE  \/ counter' = counter /\ claims' = claims
         \/ \E f \in Features :
              /\ counter' = [counter EXCEPT ![f] = -1]
              /\ claims' = [o \in Observers |-> claims[o] \ {f}]
              /\ counter[f] < 0 => \A o \in Observers : f \notin claims[o]
         \/ \E f \in Features :
              /\ counter' = [counter EXCEPT ![f] = 0]
              /\ claims' = [o \in Observers |-> claims[o] \ {f}]
  <1>1. CASE DisableStore
    <2>1. arg[Engine] \in Features
      BY <1>1, ArgType DEF DisableStore, TypeOK
    <2>2. QED
      BY <1>1, <2>1 DEF DisableStore, Evict, CooperativeInv, Tallied
  <1>2. CASE EnableStore
    <2>1. arg[Engine] \in Features
      BY <1>2, ArgType DEF EnableStore, TypeOK
    <2>2. QED
      BY <1>2, <2>1 DEF EnableStore, Evict
  <1>3. QED
    BY <1>1, <1>2 DEF EngineStep, CallDisable, DisableCheck, DisableStop, CallEnable

\* Functions that differ at one place.
LEMMA DiffersAt ==
  ASSUME NEW S, NEW F, NEW G, NEW f \in S, NEW v,
         F = [x \in S |-> F[x]], G = [x \in S |-> G[x]],
         G[f] = v, \A g \in S : g # f => G[g] = F[g]
  PROVE  G = [F EXCEPT ![f] = v]
  OBVIOUS

\* Every step of the controller is a step of the switch, or none.
LEMMA SwitchStep ==
  ASSUME TypeOK, TypeOK', callers' = callers, [Next]_vars,
         Cooperative => CooperativeInv /\ CooperativeInv'
  PROVE  [Switch!SwitchNext]_(Switch!switchVars)
  <1> DEFINE Step ==
        \E f \in Features :
          \/ \E o \in Observers :
               \/ /\ Accepting[f] /\ o \notin Requesting[f]
                  /\ Requesting' = [Requesting EXCEPT ![f] = @ \union {o}]
                  /\ Accepting' = Accepting
               \/ /\ o \in Requesting[f]
                  /\ Requesting' = [Requesting EXCEPT ![f] = @ \ {o}]
                  /\ Accepting' = Accepting
          \/ /\ Accepting[f]
             /\ Requesting' = [Requesting EXCEPT ![f] = {}]
             /\ Accepting' = [Accepting EXCEPT ![f] = FALSE]
          \/ /\ Requesting' = [Requesting EXCEPT ![f] = {}]
             /\ Accepting' = [Accepting EXCEPT ![f] = TRUE]
        Same == Requesting' = Requesting /\ Accepting' = Accepting
  <1>0. SUFFICES Step \/ Same
    BY DEF Switch!SwitchNext, Switch!switchVars, Switch!Request, Switch!Release,
           Switch!Close, Switch!Open, Requesting, Accepting
  <1>1. CASE ~Cooperative
    <2>1. ~Cooperative'
      BY <1>1 DEF Cooperative
    <2>2. QED
      BY <1>1, <2>1 DEF Requesting, Accepting
  <1>2. CASE Cooperative
    <2>0. /\ Cooperative' /\ CooperativeInv /\ CooperativeInv'
          /\ \A f \in Features :
               /\ Requesting[f] = {o \in Observers : f \in claims[o]}
               /\ Requesting'[f] = {o \in Observers : f \in claims'[o]}
               /\ Accepting[f] = (counter[f] >= 0)
               /\ Accepting'[f] = (counter'[f] >= 0)
      BY <1>2 DEF Cooperative, Requesting, Accepting
    <2>1. ASSUME NEW o \in Observers, ObserverStep(o) PROVE Step \/ Same
      <3>1. Accepting' = Accepting
        BY <1>2, <2>0, <2>1, ObserverSwitches DEF Accepting
      <3>2. CASE claims' = claims
        BY <1>2, <2>0, <3>1, <3>2 DEF Requesting
      <3>3. ASSUME NEW f \in Features, counter[f] >= 0, f \notin claims[o], Claim(o, f)
            PROVE  Step
        <4>1. \A p \in Observers : claims'[p] = IF p = o THEN claims[p] \union {f} ELSE claims[p]
          BY <3>3 DEF Claim, TypeOK
        <4>2. Requesting' = [Requesting EXCEPT ![f] = @ \union {o}]
          <5>1. /\ Requesting'[f] = Requesting[f] \union {o}
                /\ \A g \in Features : g # f => Requesting'[g] = Requesting[g]
            <6>1. \A g \in Features :
                    /\ Requesting[g] = {p \in Observers : g \in claims[p]}
                    /\ Requesting'[g] = {p \in Observers : g \in claims'[p]}
              BY <2>0
            <6>2. Requesting'[f] = Requesting[f] \union {o}
              <7>1. \A p \in Observers : f \in claims'[p] <=> f \in claims[p] \/ p = o
                BY <4>1
              <7>2. /\ Requesting[f] = {p \in Observers : f \in claims[p]}
                    /\ Requesting'[f] = {p \in Observers : f \in claims'[p]}
                BY <6>1
              <7>3. QED
                BY <7>1, <7>2
            <6>3. ASSUME NEW g \in Features, g # f PROVE Requesting'[g] = Requesting[g]
              <7>1. \A p \in Observers : g \in claims'[p] <=> g \in claims[p]
                BY <4>1, <6>3
              <7>2. QED
                BY <6>1, <7>1
            <6>4. QED
              BY <6>2, <6>3
          <5>2. /\ Requesting = [g \in Features |-> Requesting[g]]
                /\ Requesting' = [g \in Features |-> Requesting'[g]]
            BY DEF Requesting
          <5>3. QED
            BY <5>1, <5>2, DiffersAt
        <4>3. Accepting[f] /\ o \notin Requesting[f]
          BY <2>0, <3>3
        <4>4. QED
          BY <3>1, <4>2, <4>3
      <3>4. ASSUME NEW f \in Features, f \in claims[o], Unclaim(o, f)
            PROVE  Step
        <4>1. \A p \in Observers : claims'[p] = IF p = o THEN claims[p] \ {f} ELSE claims[p]
          BY <3>4 DEF Unclaim, TypeOK
        <4>2. Requesting' = [Requesting EXCEPT ![f] = @ \ {o}]
          <5>1. /\ Requesting'[f] = Requesting[f] \ {o}
                /\ \A g \in Features : g # f => Requesting'[g] = Requesting[g]
            <6>1. \A g \in Features :
                    /\ Requesting[g] = {p \in Observers : g \in claims[p]}
                    /\ Requesting'[g] = {p \in Observers : g \in claims'[p]}
              BY <2>0
            <6>2. Requesting'[f] = Requesting[f] \ {o}
              <7>1. \A p \in Observers : f \in claims'[p] <=> f \in claims[p] /\ p # o
                BY <4>1
              <7>2. /\ Requesting[f] = {p \in Observers : f \in claims[p]}
                    /\ Requesting'[f] = {p \in Observers : f \in claims'[p]}
                BY <6>1
              <7>3. QED
                BY <7>1, <7>2
            <6>3. ASSUME NEW g \in Features, g # f PROVE Requesting'[g] = Requesting[g]
              <7>1. \A p \in Observers : g \in claims'[p] <=> g \in claims[p]
                BY <4>1, <6>3
              <7>2. QED
                BY <6>1, <7>1
            <6>4. QED
              BY <6>2, <6>3
          <5>2. /\ Requesting = [g \in Features |-> Requesting[g]]
                /\ Requesting' = [g \in Features |-> Requesting'[g]]
            BY DEF Requesting
          <5>3. QED
            BY <5>1, <5>2, DiffersAt
        <4>3. o \in Requesting[f]
          BY <2>0, <3>4
        <4>4. QED
          BY <3>1, <4>2, <4>3
      <3>5. QED
        BY <1>2, <2>0, <2>1, <3>2, <3>3, <3>4, ObserverSwitches
    <2>2. ASSUME EngineStep PROVE Step \/ Same
      <3>1. CASE counter' = counter /\ claims' = claims
        BY <1>2, <2>0, <3>1 DEF Requesting, Accepting
      <3>2. ASSUME NEW f \in Features, counter' = [counter EXCEPT ![f] = -1],
                   claims' = [o \in Observers |-> claims[o] \ {f}],
                   counter[f] < 0 => \A o \in Observers : f \notin claims[o]
            PROVE  Step \/ Same
        <4>1. Requesting' = [Requesting EXCEPT ![f] = {}]
          BY <1>2, <2>0, <3>2 DEF Requesting
        <4>2. Accepting' = [Accepting EXCEPT ![f] = FALSE]
          <5>1. ~(counter'[f] >= 0) /\ \A g \in Features : g # f => counter'[g] = counter[g]
            BY <3>2 DEF TypeOK
          <5>2. Accepting'[f] = FALSE
            <6>1. Accepting'[f] = (counter'[f] >= 0)
              BY <2>0
            <6>2. (counter'[f] >= 0) = FALSE
              BY <5>1
            <6>3. QED
              BY <6>1, <6>2, Zenon
          <5>3. ASSUME NEW g \in Features, g # f PROVE Accepting'[g] = Accepting[g]
            <6>1. /\ Accepting[g] = (counter[g] >= 0)
                  /\ Accepting'[g] = (counter'[g] >= 0)
                  /\ counter'[g] = counter[g]
              BY <2>0, <5>1, <5>3, Zenon
            <6>2. QED
              BY <6>1, Zenon
          <5>4. /\ Accepting = [g \in Features |-> Accepting[g]]
                /\ Accepting' = [g \in Features |-> Accepting'[g]]
            BY DEF Accepting
          <5>5. QED
            BY <5>2, <5>3, <5>4, DiffersAt
        <4>3. CASE counter[f] >= 0
          BY <2>0, <4>1, <4>2, <4>3
        <4>4. CASE ~(counter[f] >= 0)
          <5>1. counter[f] < 0
            BY <4>4 DEF TypeOK
          <5>2. Requesting[f] = {} /\ ~Accepting[f]
            BY <2>0, <3>2, <4>4, <5>1
          <5>3. [Requesting EXCEPT ![f] = {}] = Requesting
            BY <5>2 DEF Requesting
          <5>4. [Accepting EXCEPT ![f] = FALSE] = Accepting
            <6>1. /\ Accepting = [g \in Features |-> Accepting[g]]
                  /\ \A g \in Features : Accepting[g] \in BOOLEAN
              BY DEF Accepting
            <6>2. QED
              BY <5>2, <6>1, Zenon
          <5>5. QED
            BY <4>1, <4>2, <5>3, <5>4
        <4>5. QED
          BY <4>3, <4>4
      <3>3. ASSUME NEW f \in Features, counter' = [counter EXCEPT ![f] = 0],
                   claims' = [o \in Observers |-> claims[o] \ {f}]
            PROVE  Step
        <4>1. Requesting' = [Requesting EXCEPT ![f] = {}]
          BY <1>2, <2>0, <3>3 DEF Requesting
        <4>2. Accepting' = [Accepting EXCEPT ![f] = TRUE]
          <5>1. counter'[f] >= 0 /\ \A g \in Features : g # f => counter'[g] = counter[g]
            BY <3>3 DEF TypeOK
          <5>2. Accepting'[f] = TRUE
            BY <2>0, <5>1, Zenon
          <5>3. ASSUME NEW g \in Features, g # f PROVE Accepting'[g] = Accepting[g]
            <6>1. /\ Accepting[g] = (counter[g] >= 0)
                  /\ Accepting'[g] = (counter'[g] >= 0)
                  /\ counter'[g] = counter[g]
              BY <2>0, <5>1, <5>3, Zenon
            <6>2. QED
              BY <6>1, Zenon
          <5>4. /\ Accepting = [g \in Features |-> Accepting[g]]
                /\ Accepting' = [g \in Features |-> Accepting'[g]]
            BY DEF Accepting
          <5>5. QED
            BY <5>2, <5>3, <5>4, DiffersAt
        <4>3. QED
          BY <4>1, <4>2
      <3>4. QED
        BY <1>2, <2>0, <2>2, <3>1, <3>2, <3>3, EngineSwitches
    <2>3. CASE UNCHANGED vars
      BY <1>2, <2>0, <2>3 DEF vars, Requesting, Accepting
    <2>4. QED
      BY <2>1, <2>2, <2>3 DEF Next
  <1>3. QED
    BY <1>1, <1>2

(***************************************************************************)
(* The controller implements the abstract switch for serialised,           *)
(* cooperative observers: a request is granted exactly by the call that    *)
(* takes it, and disable() evicts and closes in one step of the switch     *)
(* (provider.cpp 31-139).                                                  *)
(***************************************************************************)
THEOREM ControllerImplementsSwitch == Spec => ImplementsSwitch
  <1>1. Init => Switch!SwitchInit
    <2> SUFFICES ASSUME Init PROVE Requesting = [f \in Features |-> {}]
                                   /\ Accepting = [f \in Features |-> TRUE]
      BY DEF Switch!SwitchInit, Requesting, Accepting
    <2>1. Requesting = [f \in Features |-> {}]
      BY DEF Init, Requesting
    <2>2. Accepting = [f \in Features |-> TRUE]
      <3>1. \A f \in Features : (Cooperative => counter[f] >= 0) = TRUE
        BY DEF Init
      <3>2. QED
        BY <3>1, Zenon DEF Accepting
    <2>3. QED
      BY <2>1, <2>2
  <1>2. Init => (Cooperative => CooperativeInv)
    BY InitCooperativeInv
  <1>3. TypeOK /\ (Cooperative => CooperativeInv) /\ [Next]_vars
          => (Cooperative => CooperativeInv)'
    BY NextCooperativeInv, CallersFixed DEF Cooperative
  <1>4. TypeOK /\ TypeOK' /\ (Cooperative => CooperativeInv) /\ (Cooperative => CooperativeInv)'
          /\ [Next]_vars => [Switch!SwitchNext]_(Switch!switchVars)
    BY SwitchStep, CallersFixed DEF Cooperative
  <1>5. QED
    BY <1>1, <1>2, <1>3, <1>4, Typing, PTL DEF Spec, ImplementsSwitch, Switch!SwitchSpec
=============================================================================
