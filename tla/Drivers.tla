------------------------------ MODULE Drivers ------------------------------
(***************************************************************************)
(* Three providers that deliver from a worker thread of their own: dummy,  *)
(* skyhook and geoclue.  Their start and stop functions are called by the  *)
(* Controller, one call after the other and alternating for each feature;  *)
(* what they find is how far the worker has come.                          *)
(***************************************************************************)
EXTENDS Naturals

CONSTANTS
  Features,
  MaxCalls     \* bound: how often an update is started or stopped

VARIABLES
  kind,        \* which of the three; chosen once
  patient,     \* is a call made only when the worker has seen the last one?
  used,        \* the features that are started and stopped; chosen once
  resumes,     \* does a bus that was stopped run again? external; chosen once
  wanted,      \* features started and not stopped
  state,       \* Provider::Private::state, Provider::state
  requested,   \* stop_requested of dummy; the stopped bus of geoclue
  worker,      \* the std::thread and how far it has come
  call,        \* "join" while a stop waits for the worker
  calls,       \* how many calls there have been
  wifi,        \* has WPS found the wifi each time? (history)
  killed,      \* std::terminate: a joinable thread was assigned (history)
  late         \* deliveries since nothing is wanted, at most 2 (history)

rigidVars == <<kind, patient, used, resumes>>
vars == <<rigidVars, wanted, state, requested, worker, call, calls, wifi, killed, late>>

Kinds == {"dummy", "skyhook", "geoclue"}

\* A thread that is "none" is not joinable.  A "fresh" one has not run yet, a
\* "delivering" one has looked at the state and not yet delivered.
Worker == {"none", "fresh", "running", "delivering", "done"}

TypeOK ==
  /\ kind \in Kinds /\ used \subseteq Features /\ wanted \subseteq used
  /\ state \in {"stopped", "started", "stopping", "stop_requested"}
  /\ worker \in Worker
  /\ call \in {"idle", "join"}
  /\ calls \in 0 .. MaxCalls /\ late \in 0 .. 2
  /\ patient \in BOOLEAN /\ requested \in BOOLEAN /\ resumes \in BOOLEAN
  /\ wifi \in BOOLEAN /\ killed \in BOOLEAN

Init ==
  /\ kind \in Kinds /\ patient \in BOOLEAN
  /\ used \in (SUBSET Features) \ {{}}
  /\ resumes \in BOOLEAN /\ (kind # "geoclue" => resumes)
  /\ wanted = {} /\ state = "stopped" /\ requested = FALSE
  /\ worker = "none" /\ call = "idle" /\ calls = 0
  /\ wifi = TRUE /\ killed = FALSE /\ late = 0

-----------------------------------------------------------------------------
(* The callers. *)

\* What the worker does next does not depend on the next call.
Settled == worker # "fresh" /\ state # "stop_requested"

\* Mutant: calls that look at the state alone are waited for by nobody.
MayCall_Hasty == call = "idle" /\ ~killed /\ calls < MaxCalls

MayCall == call = "idle" /\ ~killed /\ calls < MaxCalls /\ (patient => Settled)

\* A new thread is assigned to the member, which held w.
Launch(w) ==
  /\ killed' = (w # "none")
  /\ worker' = "fresh"

Begin(f) ==
  /\ MayCall
  /\ f \in used \ wanted
  /\ wanted' = wanted \union {f}
  /\ calls' = calls + 1
  /\ late' = 0
  /\ UNCHANGED <<rigidVars, call, wifi>>

End(f) ==
  /\ MayCall
  /\ f \in wanted
  /\ wanted' = wanted \ {f}
  /\ calls' = calls + 1
  /\ UNCHANGED <<rigidVars, wifi, killed>>

-----------------------------------------------------------------------------
(* dummy::Provider delivers everything while positions are started; the    *)
(* other functions are not overridden.                                     *)

DummyStart(f) ==
  /\ kind = "dummy" /\ Begin(f)
  /\ IF f = "position" /\ state = "stopped"
       THEN requested' = FALSE /\ Launch(worker)
       ELSE UNCHANGED <<requested, worker, killed>>
  /\ UNCHANGED state

\* Mutant: the thread is told to end and left behind.
Joining_Not(s) == "idle"

\* if (worker.joinable()) worker.join()
Joining(s) == IF worker = "none" THEN "idle" ELSE "join"

DummyStop(f) ==
  /\ kind = "dummy" /\ End(f)
  /\ IF f = "position" /\ state = "started"
       THEN /\ state' = "stopping" /\ requested' = TRUE
            /\ call' = Joining(state)
       ELSE UNCHANGED <<state, requested, call>>
  /\ UNCHANGED <<worker, late>>

\* The thread says that it is started, and looks at stop_requested.
DummyRuns ==
  /\ kind = "dummy"
  /\ \/ worker = "fresh" /\ state' = "started" /\ worker' = "running"
     \/ worker = "running" /\ ~requested /\ worker' = "delivering" /\ UNCHANGED state
     \/ worker = "running" /\ requested /\ state' = "stopped" /\ worker' = "done"
  /\ UNCHANGED <<rigidVars, wanted, requested, call, calls, wifi, killed, late>>

-----------------------------------------------------------------------------
(* skyhook::Provider has one state for the three features. *)

\* Mutant: the last worker is not joined.
AfterJoin_Not(w) == w

\* if (worker.joinable()) worker.join(): one that is done at the latest when
\* the state is stopped
AfterJoin(w) == IF w = "done" THEN "none" ELSE w

SkyhookStart(f) ==
  /\ kind = "skyhook" /\ Begin(f)
  /\ IF state = "stopped"
       THEN Launch(AfterJoin(worker)) /\ state' = "started"
       ELSE UNCHANGED <<worker, state, killed>>
  /\ UNCHANGED requested

\* request_stop(), whatever the state is
SkyhookStop(f) ==
  /\ kind = "skyhook" /\ End(f)
  /\ state' = "stop_requested"
  /\ UNCHANGED <<requested, worker, call, late>>

\* Mutant: the callback ends the session with the driver and says nothing.
StateAfterStop_Kept == state

StateAfterStop == "stopped"

\* periodic_callback: without wifi the driver is left at once; other errors go
\* on, before the state is looked at.
SkyhookCallback ==
  /\ kind = "skyhook"
  /\ \/ worker = "fresh" /\ worker' = "running" /\ UNCHANGED <<state, wifi>>
     \/ worker = "running" /\ worker' = "done" /\ wifi' = FALSE /\ UNCHANGED state
     \/ /\ worker = "running" /\ state = "stop_requested"
        /\ state' = StateAfterStop /\ worker' = "done" /\ UNCHANGED wifi
     \/ /\ worker = "running" /\ state # "stop_requested"
        /\ worker' = "delivering" /\ UNCHANGED <<state, wifi>>
  /\ UNCHANGED <<rigidVars, wanted, requested, call, calls, killed, late>>

-----------------------------------------------------------------------------
(* geoclue::Provider runs its connection to the bus on the worker. *)

GeoclueStart(f) ==
  /\ kind = "geoclue" /\ Begin(f)
  /\ IF worker = "none" THEN Launch(worker) ELSE UNCHANGED <<worker, killed>>
  /\ UNCHANGED <<state, requested>>

\* bus->stop(), then join
GeoclueStop(f) ==
  /\ kind = "geoclue" /\ End(f)
  /\ requested' = TRUE
  /\ call' = Joining(state)
  /\ UNCHANGED <<state, worker, late>>

\* Bus::run (external): dispatches the signals of the daemon until the bus is
\* stopped.  The provider never says that it may run again: either Bus::run
\* forgets the stops before it, one that came too early included, or a bus that
\* was stopped once stays so.
GeoclueRuns ==
  /\ kind = "geoclue"
  /\ \/ worker = "fresh" /\ worker' = "running" /\ requested' = (requested /\ ~resumes)
     \/ worker = "running" /\ ~requested /\ worker' = "delivering" /\ UNCHANGED requested
     \/ worker = "running" /\ requested /\ worker' = "done" /\ UNCHANGED requested
  /\ UNCHANGED <<rigidVars, wanted, state, call, calls, wifi, killed, late>>

-----------------------------------------------------------------------------
\* Updates are handed on.
Deliver ==
  /\ worker = "delivering"
  /\ worker' = "running"
  /\ late' = IF wanted = {} /\ late < 2 THEN late + 1 ELSE late
  /\ UNCHANGED <<rigidVars, wanted, state, requested, call, calls, wifi, killed>>

Join ==
  /\ call = "join" /\ worker = "done"
  /\ call' = "idle" /\ worker' = "none"
  /\ UNCHANGED <<rigidVars, wanted, state, requested, calls, wifi, killed, late>>

Next ==
  \/ \E f \in Features :
       \/ DummyStart(f) \/ DummyStop(f)
       \/ SkyhookStart(f) \/ SkyhookStop(f)
       \/ GeoclueStart(f) \/ GeoclueStop(f)
  \/ DummyRuns \/ SkyhookCallback \/ GeoclueRuns
  \/ Deliver \/ Join

-----------------------------------------------------------------------------
Alive == worker \in {"fresh", "running", "delivering"}

(***************************************************************************)
(* If positions alone are used, every call waits for the effect of the     *)
(* last one, the wifi is there and a bus that was stopped can be run       *)
(* again, a worker runs between the calls exactly while positions are      *)
(* wanted, or it has been asked to stop: after any number of restarts.     *)
(***************************************************************************)
RunsIffWanted ==
  patient /\ used = {"position"} /\ wifi /\ resumes /\ call = "idle" =>
    \/ Alive <=> wanted # {}
    \/ wanted = {} /\ state = "stop_requested"

(***************************************************************************)
(* A stop request of skyhook is left where a callback will find it         *)
(* (skyhook/provider.cpp 69-74 and 154-157): if it were not, the state     *)
(* would never again be stopped and no start would have any effect.  A     *)
(* caller that waits, uses one feature and has wifi is safe from that.     *)
(***************************************************************************)
StopIsServed ==
  /\ kind = "skyhook" /\ patient /\ used = {"position"} /\ wifi
  /\ state = "stop_requested"
  => Alive

(***************************************************************************)
(* No start assigns a thread that is still joinable, which would end the   *)
(* daemon, if the calls are patient; skyhook and geoclue are safe always.   *)
(***************************************************************************)
NoJoinableIsReplaced == patient \/ kind # "dummy" => ~killed

(***************************************************************************)
(* Once nothing is wanted any more at most the update that was under way   *)
(* is delivered, for skyhook whether its callers wait or not, although it  *)
(* does not wait for its worker.                                           *)
(***************************************************************************)
AtMostOneLateUpdate == patient \/ kind = "skyhook" => late <= 1

-----------------------------------------------------------------------------
(* Why this holds: the inductive invariant. *)

\* An update is under way only while something is wanted, or was when it was
\* measured.
LateOnce ==
  /\ late <= 1
  /\ wanted # {} \/ worker = "delivering" => late = 0

DummyInStep ==
  IF "position" \in wanted
    THEN /\ call = "idle" /\ ~requested
         /\ \/ state = "stopped" /\ worker = "fresh"
            \/ state = "started" /\ worker \in {"running", "delivering"}
    ELSE \/ call = "idle" /\ state = "stopped" /\ worker = "none"
         \/ /\ call = "join" /\ requested
            /\ \/ state = "stopping" /\ worker \in {"running", "delivering"}
               \/ state = "stopped" /\ worker = "done"

SkyhookInStep ==
  /\ call = "idle" /\ state # "stopping"
  /\ state = "stopped" => worker \in {"none", "done"}
  /\ wanted = {} => state # "started"

\* With a caller that waits, one feature and wifi.
SkyhookServes ==
  IF wanted = {} THEN state = "stop_requested" => Alive
                 ELSE state = "started" /\ Alive

GeoclueInStep ==
  /\ call = "join" => worker # "none"
  /\ wanted = {} /\ call = "idle" => worker = "none"

\* With a caller that waits, no stop is forgotten.
GeoclueServes ==
  /\ call = "join" => requested /\ worker # "fresh"
  /\ resumes /\ call = "idle" =>
       /\ worker \in {"running", "delivering"} => ~requested
       /\ worker # "done"
  /\ resumes /\ used = {"position"} /\ wanted # {} => call = "idle" /\ Alive

DriverInv ==
  /\ TypeOK
  /\ NoJoinableIsReplaced
  /\ patient \/ kind = "skyhook" => LateOnce
  /\ kind = "dummy" /\ patient => DummyInStep
  /\ kind = "skyhook" => SkyhookInStep
  /\ kind = "skyhook" /\ patient /\ used = {"position"} /\ wifi => SkyhookServes
  /\ kind = "geoclue" => GeoclueInStep
  /\ kind = "geoclue" /\ patient => GeoclueServes
=============================================================================
