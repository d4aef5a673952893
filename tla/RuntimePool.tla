---------------------------- MODULE RuntimePool ----------------------------
(***************************************************************************)
(* service::Runtime (runtime.cpp): a pool of threads that execute one      *)
(* io_service, the strand behind to_dispatcher_functional(), exceptions of *)
(* tasks, and the end of the pool.                                         *)
(***************************************************************************)
EXTENDS Naturals, Sequences

CONSTANTS
  Workers,
  NoTask,
  MaxTasks     \* bound: how many tasks are posted

VARIABLES
  owner,       \* what the thread that owns the Runtime has done
  stopped,     \* has service_.stop() been called?
  worker,      \* [Workers -> Label]
  runs,        \* [Workers -> Task]: the task a worker executes
  strand,      \* tasks posted through the strand and not begun
  handlers,    \* other handlers that are ready: timers, sockets
  posted,      \* how many tasks there have been
  begun        \* the tasks of the strand in the order they began (history)

taskVars == <<strand, handlers, posted, begun>>
vars == <<owner, stopped, worker, runs, taskVars>>

Label == {"none", "idle", "busy", "caught", "left"}
Task == [number : 1 .. MaxTasks, ordered : BOOLEAN]

TypeOK ==
  /\ owner \in {"new", "started", "joining", "stopped"}
  /\ worker \in [Workers -> Label]
  /\ runs \in [Workers -> Task \union {NoTask}]
  /\ strand \in Seq(Task) /\ begun \in Seq(1 .. MaxTasks)
  /\ handlers \subseteq Task
  /\ posted \in 0 .. MaxTasks
  /\ stopped \in BOOLEAN

Init ==
  /\ owner = "new" /\ stopped = FALSE
  /\ worker = [w \in Workers |-> "none"]
  /\ runs = [w \in Workers |-> NoTask]
  /\ strand = <<>> /\ handlers = {} /\ posted = 0
  /\ begun = <<>>

Go(w, label) == worker' = [worker EXCEPT ![w] = label]

-----------------------------------------------------------------------------
(* The owner. *)

Start ==
  /\ owner = "new"
  /\ owner' = "started"
  /\ worker' = [w \in Workers |-> "idle"]
  /\ UNCHANGED <<stopped, runs, taskVars>>

\* stop(), which the destructor calls: service_.stop(), then every joinable
\* worker is joined.
Stop ==
  /\ owner \in {"new", "started"}
  /\ owner' = "joining"
  /\ stopped' = TRUE
  /\ UNCHANGED <<worker, runs, taskVars>>

\* Mutant: the pool is left behind.
MayEnd_Detached == owner = "joining"

MayEnd == owner = "joining" /\ \A w \in Workers : worker[w] \in {"none", "left"}

Joined ==
  /\ MayEnd
  /\ owner' = "stopped"
  /\ UNCHANGED <<stopped, worker, runs, taskVars>>

-----------------------------------------------------------------------------
(* Tasks are posted by anybody, at any time. *)

Fresh(ordered) == [number |-> posted + 1, ordered |-> ordered]

PostToStrand ==
  /\ posted < MaxTasks /\ owner # "stopped"
  /\ posted' = posted + 1
  /\ strand' = Append(strand, Fresh(TRUE))
  /\ UNCHANGED <<owner, stopped, worker, runs, handlers, begun>>

HandlerReady ==
  /\ posted < MaxTasks /\ owner # "stopped"
  /\ posted' = posted + 1
  /\ handlers' = handlers \union {Fresh(FALSE)}
  /\ UNCHANGED <<owner, stopped, worker, runs, strand, begun>>

-----------------------------------------------------------------------------
(* The workers: exception_safe_run. *)

\* Mutant: tasks go to the io_service and not to its strand.
StrandIsFree_Service == TRUE

\* The strand (external) runs one task at a time.
StrandIsFree == {v \in Workers : runs[v] # NoTask /\ runs[v].ordered} = {}

RunStrand(w) ==
  /\ worker[w] = "idle" /\ ~stopped
  /\ strand # <<>> /\ StrandIsFree
  /\ Go(w, "busy")
  /\ runs' = [runs EXCEPT ![w] = Head(strand)]
  /\ strand' = Tail(strand)
  /\ begun' = Append(begun, Head(strand).number)
  /\ UNCHANGED <<owner, stopped, handlers, posted>>

RunHandler(w) ==
  /\ worker[w] = "idle" /\ ~stopped
  /\ \E t \in handlers :
       /\ runs' = [runs EXCEPT ![w] = t]
       /\ handlers' = handlers \ {t}
  /\ Go(w, "busy")
  /\ UNCHANGED <<owner, stopped, strand, posted, begun>>

\* A task returns or throws; the strand is released in either case.
EndTask(w) ==
  /\ worker[w] = "busy"
  /\ runs' = [runs EXCEPT ![w] = NoTask]
  /\ \E label \in {"idle", "caught"} : Go(w, label)
  /\ UNCHANGED <<owner, stopped, taskVars>>

\* Mutant: the loop ends with the first exception.
AfterException_Gone == "left"

\* while (true): run() is entered again.
AfterException == "idle"

RunAgain(w) ==
  /\ worker[w] = "caught"
  /\ Go(w, AfterException)
  /\ UNCHANGED <<owner, stopped, runs, taskVars>>

\* run() returns because the service is stopped.
Leave(w) ==
  /\ worker[w] = "idle" /\ stopped
  /\ Go(w, "left")
  /\ UNCHANGED <<owner, stopped, runs, taskVars>>

Next ==
  \/ Start \/ Stop \/ Joined \/ PostToStrand \/ HandlerReady
  \/ \E w \in Workers :
       RunStrand(w) \/ RunHandler(w) \/ EndTask(w) \/ RunAgain(w) \/ Leave(w)

-----------------------------------------------------------------------------
(***************************************************************************)
(* A task that throws costs the pool no thread: until the pool is stopped  *)
(* all workers execute or are about to (runtime.cpp 26-53).                *)
(***************************************************************************)
PoolIsComplete ==
  owner = "started" => \A w \in Workers : worker[w] \notin {"none", "left"}

(***************************************************************************)
(* Tasks of the dispatcher run one at a time and in the order they were    *)
(* posted, on whatever threads, also after one of them has thrown          *)
(* (runtime.cpp 95-104).                                                   *)
(***************************************************************************)
DispatchIsOrdered ==
  /\ \A v, w \in Workers :
       /\ v # w /\ runs[v] # NoTask /\ runs[w] # NoTask
       => ~(runs[v].ordered /\ runs[w].ordered)
  /\ \A i, j \in 1 .. Len(begun) : i < j => begun[i] < begun[j]

(***************************************************************************)
(* When stop() has returned no task is executed, neither one that was      *)
(* under way nor one that was ready: what the owner destroys next is used  *)
(* by nobody (runtime.h 62-64).                                            *)
(***************************************************************************)
NothingRunsAfterStop ==
  owner = "stopped" => \A w \in Workers : runs[w] = NoTask

-----------------------------------------------------------------------------
(* Why this holds: the inductive invariant. *)

OwnerInv ==
  /\ stopped <=> owner \in {"joining", "stopped"}
  /\ owner = "new" => \A w \in Workers : worker[w] = "none"
  /\ owner = "stopped" => \A w \in Workers : worker[w] \in {"none", "left"}

OnlyBusyRun == \A w \in Workers : worker[w] # "busy" => runs[w] = NoTask

\* The strand has what was posted and has not begun, in that order.
StrandInv ==
  /\ \A t \in handlers : ~t.ordered
  /\ \A i \in DOMAIN strand : strand[i].number <= posted
  /\ \A i, j \in DOMAIN strand : i < j => strand[i].number < strand[j].number
  /\ \A i \in DOMAIN begun : begun[i] <= posted
  /\ \A i \in DOMAIN begun, j \in DOMAIN strand : begun[i] < strand[j].number

PoolInv ==
  /\ TypeOK
  /\ OwnerInv
  /\ PoolIsComplete
  /\ OnlyBusyRun
  /\ StrandInv
  /\ DispatchIsOrdered
=============================================================================
