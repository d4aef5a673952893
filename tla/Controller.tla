----------------------------- MODULE Controller -----------------------------
(***************************************************************************)
(* com::ubuntu::location::Provider::Controller (provider.cpp 31-139): one  *)
(* atomic counter per feature (position, heading, velocity), shared by all *)
(* observers of a provider.  A step of this module is one access to an     *)
(* atomic counter or one call into the provider, so the interleavings      *)
(* TLC explores are those of threads calling the controller.               *)
(*                                                                         *)
(* Features are numbered 1..NFeatures in the order in which disable() and  *)
(* enable() visit them.                                                    *)
(***************************************************************************)
EXTENDS Integers, FiniteSets

CONSTANTS
  Observers,     \* callers of start_*_updates() / stop_*_updates()
  Engine,        \* the caller of enable() / disable()
  NFeatures      \* number of features with a counter (3 in the code)

ASSUME ControllerAssumption ==
  /\ IsFiniteSet(Observers)
  /\ Engine \notin Observers
  /\ NFeatures \in Nat \ {0}

Features == 1 .. NFeatures
Threads == Observers \union {Engine}

our_magic_disabling_value == -1

VARIABLES
  counter,   \* [Features -> Int]: the three std::atomic<int>
  running,   \* [Features -> BOOLEAN]: last call was instance.start (vs stop)
  forgotten, \* history: features that ran when enable() zeroed their counter, and since
  claims,    \* [Observers -> SUBSET Features]: started and not yet stopped
  pc,        \* where each thread is inside the controller
  arg,       \* the feature a thread is at, 0 outside a call
  phase,     \* the engine's last completed call: "enabled" or "disabled"
  callers    \* how the callers behave; chosen once, never changed

vars == <<counter, running, forgotten, claims, pc, arg, phase, callers>>

\* "threads": observers and engine call concurrently;
\* "observers": so do observers, and nobody disables or enables the provider;
\* "serial": one call at a time, as the daemon dispatches its bus;
\* "cooperative": serial, and observers drop a claim when the controller does
\* (of which start(), disable() and enable() tell nobody).
Behaviours == {"threads", "observers", "serial", "cooperative"}

Administered == callers # "observers"
Serialised == callers \in {"serial", "cooperative"}
Cooperative == callers = "cooperative"

ObserverLabels == {"idle", "increment", "start_instance", "decrement", "stop_instance"}
EngineLabels == {"idle", "disable_check", "disable_stop", "disable_store", "enable_store"}

\* A thread inside the controller is at a label of its own and at a feature.
PcOK ==
  /\ pc \in [Threads -> ObserverLabels \union EngineLabels]
  /\ \A o \in Observers : pc[o] \in ObserverLabels
  /\ pc[Engine] \in EngineLabels
  /\ arg \in [Threads -> 0 .. NFeatures]
  /\ \A t \in Threads : pc[t] # "idle" => arg[t] \in Features

TypeOK ==
  /\ counter \in [Features -> Int]
  /\ running \in [Features -> BOOLEAN]
  /\ forgotten \subseteq Features
  /\ claims \in [Observers -> SUBSET Features]
  /\ PcOK
  /\ phase \in {"enabled", "disabled"}
  /\ callers \in Behaviours

Init ==
  /\ counter = [f \in Features |-> 0]
  /\ running = [f \in Features |-> FALSE]
  /\ forgotten = {}
  /\ claims = [o \in Observers |-> {}]
  /\ pc = [t \in Threads |-> "idle"]
  /\ arg = [t \in Threads |-> 0]
  /\ phase = "enabled"
  /\ callers \in Behaviours

Goto(t, label, f) ==
  /\ pc' = [pc EXCEPT ![t] = label]
  /\ arg' = [arg EXCEPT ![t] = f]

Return(t) == Goto(t, "idle", 0)

Alone(t) == \A u \in Threads \ {t} : pc[u] = "idle"

\* If calls are serialised, nobody enters while somebody else is inside.
MayEnter(t) == Serialised => Alone(t)

Claim(o, f) == claims' = [claims EXCEPT ![o] = @ \union {f}]
Unclaim(o, f) == claims' = [claims EXCEPT ![o] = @ \ {f}]

\* What disable() and enable() do to the claims on f.
Evict(f) ==
  claims' = IF Cooperative THEN [o \in Observers |-> claims[o] \ {f}] ELSE claims

\* A call into the provider: the source of f is started or stopped.
Instance(f, on) ==
  /\ running' = [running EXCEPT ![f] = on]
  /\ forgotten' = forgotten \ {f}

-----------------------------------------------------------------------------
(* start_*_updates(): `if (counter < 0) return; if (++counter == 1) instance.start();' *)

\* Mutant: a disabled controller counts new observers.
CallStart_NoCheck(o, f) ==
  /\ pc[o] = "idle" /\ MayEnter(o)
  /\ f \notin claims[o]
  /\ Goto(o, "increment", f)
  /\ UNCHANGED <<counter, running, forgotten, claims, phase, callers>>

CallStart(o, f) ==
  /\ pc[o] = "idle" /\ MayEnter(o)
  /\ f \notin claims[o]
  /\ \/ /\ counter[f] < 0
        /\ IF Cooperative THEN UNCHANGED claims ELSE Claim(o, f)
        /\ UNCHANGED <<pc, arg>>
     \/ /\ counter[f] >= 0
        /\ Goto(o, "increment", f)
        /\ UNCHANGED claims
  /\ UNCHANGED <<counter, running, forgotten, phase, callers>>

Increment(o) ==
  LET f == arg[o] IN
  /\ pc[o] = "increment"
  /\ counter' = [counter EXCEPT ![f] = @ + 1]
  /\ \/ /\ counter[f] + 1 = 1
        /\ Goto(o, "start_instance", f)
        /\ UNCHANGED claims
     \/ /\ counter[f] + 1 # 1
        /\ Return(o)
        /\ Claim(o, f)
  /\ UNCHANGED <<running, forgotten, phase, callers>>

StartInstance(o) ==
  /\ pc[o] = "start_instance"
  /\ Instance(arg[o], TRUE)
  /\ Claim(o, arg[o])
  /\ Return(o)
  /\ UNCHANGED <<counter, phase, callers>>

-----------------------------------------------------------------------------
(* stop_*_updates(): `if (counter < 0) return; if (--counter == 0) instance.stop();' *)

\* Mutant: the last observer's stop is taken for a stale one.
CallStop_LosesLast(o, f) ==
  /\ pc[o] = "idle" /\ MayEnter(o)
  /\ f \in claims[o]
  /\ \/ counter[f] <= 1 /\ Unclaim(o, f) /\ UNCHANGED <<pc, arg>>
     \/ counter[f] > 1 /\ Goto(o, "decrement", f) /\ UNCHANGED claims
  /\ UNCHANGED <<counter, running, forgotten, phase, callers>>

CallStop(o, f) ==
  /\ pc[o] = "idle" /\ MayEnter(o)
  /\ f \in claims[o]
  /\ \/ /\ counter[f] < 0
        /\ Unclaim(o, f)
        /\ UNCHANGED <<pc, arg>>
     \/ /\ counter[f] >= 0
        /\ Goto(o, "decrement", f)
        /\ UNCHANGED claims
  /\ UNCHANGED <<counter, running, forgotten, phase, callers>>

Decrement(o) ==
  LET f == arg[o] IN
  /\ pc[o] = "decrement"
  /\ counter' = [counter EXCEPT ![f] = @ - 1]
  /\ \/ /\ counter[f] - 1 = 0
        /\ Goto(o, "stop_instance", f)
        /\ UNCHANGED claims
     \/ /\ counter[f] - 1 # 0
        /\ Return(o)
        /\ Unclaim(o, f)
  /\ UNCHANGED <<running, forgotten, phase, callers>>

StopInstance(o) ==
  /\ pc[o] = "stop_instance"
  /\ Instance(arg[o], FALSE)
  /\ Unclaim(o, arg[o])
  /\ Return(o)
  /\ UNCHANGED <<counter, phase, callers>>

-----------------------------------------------------------------------------
(* disable(): stop the instance of every counter > 0, then store -1 in each. *)

AfterCheck(f) ==
  IF f < NFeatures THEN Goto(Engine, "disable_check", f + 1)
                   ELSE Goto(Engine, "disable_store", 1)

CallDisable ==
  /\ Administered
  /\ pc[Engine] = "idle" /\ MayEnter(Engine)
  /\ Goto(Engine, "disable_check", 1)
  /\ UNCHANGED <<counter, running, forgotten, claims, phase, callers>>

\* Mutant: disable() marks the features without stopping them.
DisableCheck_NoStop ==
  /\ pc[Engine] = "disable_check"
  /\ AfterCheck(arg[Engine])
  /\ UNCHANGED <<counter, running, forgotten, claims, phase, callers>>

DisableCheck ==
  LET f == arg[Engine] IN
  /\ pc[Engine] = "disable_check"
  /\ IF counter[f] > 0 THEN Goto(Engine, "disable_stop", f) ELSE AfterCheck(f)
  /\ UNCHANGED <<counter, running, forgotten, claims, phase, callers>>

DisableStop ==
  LET f == arg[Engine] IN
  /\ pc[Engine] = "disable_stop"
  /\ Instance(f, FALSE)
  /\ AfterCheck(f)
  /\ UNCHANGED <<counter, claims, phase, callers>>

DisableStore ==
  LET f == arg[Engine] IN
  /\ pc[Engine] = "disable_store"
  /\ counter' = [counter EXCEPT ![f] = our_magic_disabling_value]
  /\ Evict(f)
  /\ \/ f < NFeatures /\ Goto(Engine, "disable_store", f + 1) /\ UNCHANGED phase
     \/ f = NFeatures /\ Return(Engine) /\ phase' = "disabled"
  /\ UNCHANGED <<running, forgotten, callers>>

(* enable(): store 0 in each counter, whatever it was: the engine enables   *)
(* providers that are enabled and running, too (engine.cpp 85).             *)

CallEnable ==
  /\ Administered
  /\ pc[Engine] = "idle" /\ MayEnter(Engine)
  /\ Goto(Engine, "enable_store", 1)
  /\ UNCHANGED <<counter, running, forgotten, claims, phase, callers>>

EnableStore ==
  LET f == arg[Engine] IN
  /\ pc[Engine] = "enable_store"
  /\ counter' = [counter EXCEPT ![f] = 0]
  /\ forgotten' = IF running[f] THEN forgotten \union {f} ELSE forgotten \ {f}
  /\ Evict(f)
  /\ \/ f < NFeatures /\ Goto(Engine, "enable_store", f + 1) /\ UNCHANGED phase
     \/ f = NFeatures /\ Return(Engine) /\ phase' = "enabled"
  /\ UNCHANGED <<running, callers>>

-----------------------------------------------------------------------------
ObserverStep(o) ==
  \/ \E f \in Features : CallStart(o, f) \/ CallStop(o, f)
  \/ Increment(o)
  \/ StartInstance(o)
  \/ Decrement(o)
  \/ StopInstance(o)

EngineStep ==
  \/ CallDisable
  \/ DisableCheck
  \/ DisableStop
  \/ DisableStore
  \/ CallEnable
  \/ EnableStore

Next == EngineStep \/ \E o \in Observers : ObserverStep(o)

Spec == Init /\ [][Next]_vars
=============================================================================
