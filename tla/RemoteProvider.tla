--------------------------- MODULE RemoteProvider ---------------------------
(***************************************************************************)
(* Providers in daemons of their own, as the service sees them             *)
(* (providers/remote/provider.cpp): loading a Stub, the calls a Stub posts *)
(* to the one task thread that all Stubs share, the Skeleton's controller  *)
(* in the remote daemon, and crashes and restarts of that daemon.          *)
(***************************************************************************)
EXTENDS Counting, Sequences, FiniteSets

CONSTANTS
  NRemotes,    \* remote providers, loaded in this order
  Features,    \* features in use
  Crashes,     \* may a remote daemon crash and come up again?
  MaxTasks     \* bound: calls posted and not yet made

Remotes == 1 .. NRemotes

ASSUME RemoteAssumption ==
  /\ NRemotes \in Nat \ {0}
  /\ IsFiniteSet(Features)
  /\ Crashes \in BOOLEAN
  /\ MaxTasks \in Nat \ {0}

VARIABLES
  phase,          \* [Remotes -> Phase]: how far create_instance() has come
  valid,          \* remotes whose registration the watcher has reported
  counter,        \* [Remotes -> [Features -> Nat]]: Controller of the Stub
  tasks,          \* the queue of Runtime::task.service
  call,           \* the call the task thread waits for: none or one
  up,             \* remotes whose daemon owns its name on the bus
  remoteCounter,  \* [Remotes -> [Features -> Int]]: Controller in the daemon
  hardware,       \* [Remotes -> [Features -> BOOLEAN]]: source in the daemon
  crashed         \* remotes whose daemon has crashed since loading began (history)

loadVars == <<phase, valid>>
stubVars == <<counter, tasks, call>>
remoteVars == <<remoteCounter, hardware>>
daemonVars == <<up, crashed>>
vars == <<loadVars, stubVars, daemonVars, remoteVars>>

Phase == {"unloaded", "watch", "wait", "ping", "ready", "failed"}
Task == [op : {"start", "stop"}, p : Remotes, f : Features]

TypeOK ==
  /\ phase \in [Remotes -> Phase]
  /\ valid \subseteq Remotes
  /\ counter \in [Remotes -> [Features -> Nat]]
  /\ tasks \in Seq(Task)
  /\ call \in Seq(Task) /\ Len(call) <= 1
  /\ up \subseteq Remotes
  /\ remoteCounter \in [Remotes -> [Features -> Int]]
  /\ hardware \in [Remotes -> [Features -> BOOLEAN]]
  /\ crashed \subseteq Remotes

Zero == [f \in Features |-> 0]
Silent == [f \in Features |-> FALSE]

Init ==
  /\ phase = [p \in Remotes |-> "unloaded"]
  /\ valid = {}
  /\ counter = [p \in Remotes |-> Zero]
  /\ tasks = <<>>
  /\ call = <<>>
  /\ up \in SUBSET Remotes
  /\ remoteCounter = [p \in Remotes |-> Zero]
  /\ hardware = [p \in Remotes |-> Silent]
  /\ crashed = {}

-----------------------------------------------------------------------------
(* load_providers() creates one Stub after the other: the future of          *)
(* std::async waits in its destructor.                                       *)

GoTo(p, next) == phase' = [phase EXCEPT ![p] = next]
LoadUnchanged == UNCHANGED <<stubVars, daemonVars, remoteVars>>

\* has_owner_for_name
CheckOwner(p) ==
  /\ phase[p] = "unloaded"
  /\ \A q \in 1 .. p - 1 : phase[q] \in {"ready", "failed"}
  /\ GoTo(p, IF p \in up THEN "ping" ELSE "watch")
  /\ UNCHANGED valid
  /\ LoadUnchanged

\* make_service_watcher: registrations are reported from now on.
Watch(p) ==
  /\ phase[p] = "watch"
  /\ GoTo(p, "wait")
  /\ UNCHANGED valid
  /\ LoadUnchanged

Registered(p) ==
  /\ phase[p] = "wait"
  /\ p \in valid
  /\ GoTo(p, "ping")
  /\ UNCHANGED valid
  /\ LoadUnchanged

\* Mutant: wait() instead of wait_for().
WaitTimesOut_Never(p) == FALSE /\ p \in Remotes /\ UNCHANGED vars

WaitTimesOut(p) ==
  /\ phase[p] = "wait"
  /\ p \notin valid
  /\ GoTo(p, "failed")
  /\ UNCHANGED valid
  /\ LoadUnchanged

Ping(p) ==
  /\ phase[p] = "ping"
  /\ GoTo(p, IF p \in up THEN "ready" ELSE "failed")
  /\ UNCHANGED valid
  /\ LoadUnchanged

-----------------------------------------------------------------------------
(* The Stub, driven through its controller by the engine. *)

Post(op, p, f) == tasks' = Append(tasks, [op |-> op, p |-> p, f |-> f])

\* Mutant: the call is not posted when another one waits.
StartUpdates_Coalesced(p, f) ==
  /\ phase[p] = "ready"
  /\ counter[p][f] = 0
  /\ counter' = [counter EXCEPT ![p][f] = 1]
  /\ IF tasks = <<>> THEN Post("start", p, f) ELSE UNCHANGED tasks
  /\ UNCHANGED <<call, loadVars, daemonVars, remoteVars>>

StartUpdates(p, f) ==
  /\ phase[p] = "ready"
  /\ Len(tasks) < MaxTasks
  /\ counter[p][f] = 0
  /\ counter' = [counter EXCEPT ![p][f] = 1]
  /\ Post("start", p, f)
  /\ UNCHANGED <<call, loadVars, daemonVars, remoteVars>>

\* Mutant: stop is not posted but called on the spot, past the queue.
StopUpdates_Direct(p, f) ==
  /\ phase[p] = "ready"
  /\ counter[p][f] = 1
  /\ counter' = [counter EXCEPT ![p][f] = 0]
  /\ remoteCounter' = [remoteCounter EXCEPT ![p][f] = Decremented(@)]
  /\ hardware' = [hardware EXCEPT ![p][f] = @ /\ remoteCounter[p][f] # 1]
  /\ UNCHANGED <<tasks, call, loadVars, daemonVars>>

StopUpdates(p, f) ==
  /\ phase[p] = "ready"
  /\ Len(tasks) < MaxTasks
  /\ counter[p][f] = 1
  /\ counter' = [counter EXCEPT ![p][f] = 0]
  /\ Post("stop", p, f)
  /\ UNCHANGED <<call, loadVars, daemonVars, remoteVars>>

-----------------------------------------------------------------------------
(* The task thread makes one call at a time and waits for its result.  An    *)
(* error is thrown out of the task; Runtime::run catches it and goes on with *)
(* the next one.                                                             *)

RunTask ==
  /\ call = <<>>
  /\ tasks # <<>>
  /\ call' = <<Head(tasks)>>
  /\ tasks' = Tail(tasks)
  /\ UNCHANGED <<counter, loadVars, daemonVars, remoteVars>>

Called(op, p, f) == call = <<[op |-> op, p |-> p, f |-> f]>>

\* The bus finds nobody with the name.
CallFails(p) ==
  /\ \E f \in Features : Called("start", p, f) \/ Called("stop", p, f)
  /\ p \notin up
  /\ call' = <<>>
  /\ UNCHANGED <<counter, tasks, loadVars, daemonVars, remoteVars>>

-----------------------------------------------------------------------------
(* The remote daemon. *)

HandleStart(p, f) ==
  /\ p \in up
  /\ Called("start", p, f)
  /\ call' = <<>>
  /\ remoteCounter' = [remoteCounter EXCEPT ![p][f] = Incremented(@)]
  /\ hardware' = [hardware EXCEPT ![p][f] = @ \/ remoteCounter[p][f] = 0]
  /\ UNCHANGED <<counter, tasks, loadVars, daemonVars>>

\* Mutant: the handler of stop replies and does nothing else.
HandleStop_Ignored(p, f) ==
  /\ p \in up
  /\ Called("stop", p, f)
  /\ call' = <<>>
  /\ UNCHANGED <<counter, tasks, loadVars, daemonVars, remoteVars>>

HandleStop(p, f) ==
  /\ p \in up
  /\ Called("stop", p, f)
  /\ call' = <<>>
  /\ remoteCounter' = [remoteCounter EXCEPT ![p][f] = Decremented(@)]
  /\ hardware' = [hardware EXCEPT ![p][f] = @ /\ remoteCounter[p][f] # 1]
  /\ UNCHANGED <<counter, tasks, loadVars, daemonVars>>

\* The daemon registers its name.
ComesUp(p) ==
  /\ p \notin up
  /\ up' = up \union {p}
  /\ valid' = IF phase[p] = "wait" THEN valid \union {p} ELSE valid
  /\ UNCHANGED <<phase, crashed, stubVars, remoteVars>>

\* A daemon crashes; the bus answers the call it may have received with an
\* error.  Its next life does not get to see that call.
Crash(p) ==
  /\ Crashes
  /\ p \in up
  /\ up' = up \ {p}
  /\ crashed' = crashed \union {p}
  /\ remoteCounter' = [remoteCounter EXCEPT ![p] = Zero]
  /\ hardware' = [hardware EXCEPT ![p] = Silent]
  /\ call' = IF \E f \in Features : Called("start", p, f) \/ Called("stop", p, f)
               THEN <<>> ELSE call
  /\ UNCHANGED <<loadVars, counter, tasks>>

-----------------------------------------------------------------------------
Load(p) == CheckOwner(p) \/ Watch(p) \/ Registered(p) \/ WaitTimesOut(p) \/ Ping(p)
Handle(p) == \E f \in Features : HandleStart(p, f) \/ HandleStop(p, f)

Next ==
  \/ RunTask
  \/ \E p \in Remotes :
       \/ Load(p)
       \/ \E f \in Features : StartUpdates(p, f) \/ StopUpdates(p, f)
       \/ Handle(p)
       \/ CallFails(p)
       \/ ComesUp(p)
       \/ Crash(p)

Spec == Init /\ [][Next]_vars

\* The loading thread and the task thread run, a remote daemon that is up
\* dispatches its calls, and the bus answers for one that is not.
FairSpec ==
  /\ Spec
  /\ WF_vars(RunTask)
  /\ \A p \in Remotes :
       WF_vars(Load(p)) /\ WF_vars(Handle(p)) /\ WF_vars(CallFails(p))
=============================================================================
