----------------------------- MODULE Harvesting -----------------------------
(***************************************************************************)
(* Reporting of cells and wifis: the property the client sets              *)
(* (implementation.cpp 68-80), the Harvester's flag (harvester.cpp), the   *)
(* reporters behind the DemultiplexingReporter and the worker thread of an *)
(* ichnaea Reporter (ichnaea_reporter.cpp 223-246).                        *)
(*                                                                         *)
(* Two threads set the property: the one that constructs the service, and  *)
(* the bus, which serves clients as soon as the Skeleton has installed its *)
(* handlers, that is before the constructor has ended.  A third reports    *)
(* positions.                                                              *)
(***************************************************************************)
EXTENDS Naturals

CONSTANTS
  Reporters,
  MaxSets     \* bound: how often clients set the property

VARIABLES
  patient,    \* do clients wait for the service to be constructed? chosen once
  wanted,     \* does_report_cell_and_wifi_ids()
  reporting,  \* wifi_and_cell_id_reporting_state of the engine
  running,    \* Harvester::is_running
  worker,     \* reporters whose thread is joinable
  doing,      \* [Setters -> Label]: how far a thread that sets the property is
  value,      \* [Setters -> BOOLEAN]: the value it sets
  report,     \* how far report_position_update() has come
  sets,       \* how often clients have set the property
  failed,     \* has a provider thrown out of an emission? (history)
  killed,     \* std::terminate: a joinable thread was assigned (history)
  late        \* reports since is_running was cleared, at most 2 (history)

vars == <<patient, wanted, reporting, running, worker, doing, value, report,
          sets, failed, killed, late>>

Setters == {"main", "bus"}
Label == {"read", "assign", "idle", "engine", "check", "exchange", "reporter"}

TypeOK ==
  /\ {patient, wanted, reporting, running, failed, killed} \subseteq BOOLEAN
  /\ worker \subseteq Reporters
  /\ doing \in [Setters -> Label] /\ value \in [Setters -> BOOLEAN]
  /\ report \in {"idle", "gather"}
  /\ sets \in 0 .. MaxSets /\ late \in 0 .. 2

\* The engine has read its state from the settings.
Init ==
  /\ patient \in BOOLEAN /\ reporting \in BOOLEAN
  /\ wanted = FALSE /\ running = FALSE /\ worker = {}
  /\ doing = [t \in Setters |-> IF t = "main" THEN "read" ELSE "idle"]
  /\ value = [t \in Setters |-> FALSE]
  /\ report = "idle" /\ sets = 0
  /\ failed = FALSE /\ killed = FALSE /\ late = 0

Go(t, label) == doing' = [doing EXCEPT ![t] = label]

-----------------------------------------------------------------------------
\* The constructor: does_report_cell_and_wifi_ids() = (state == on).
Construct ==
  /\ doing["main"] = "read"
  /\ value' = [value EXCEPT !["main"] = reporting]
  /\ Go("main", "assign")
  /\ UNCHANGED <<patient, wanted, reporting, running, worker, report, sets,
                 failed, killed, late>>

\* A client sets the property.
ClientSets(v) ==
  /\ doing["bus"] = "idle"
  /\ sets < MaxSets
  /\ patient => doing["main"] = "idle"
  /\ sets' = sets + 1
  /\ value' = [value EXCEPT !["bus"] = v]
  /\ Go("bus", "assign")
  /\ UNCHANGED <<patient, wanted, reporting, running, worker, report, failed,
                 killed, late>>

\* Mutant: the state the engine has read is not applied.
Assign_BusOnly(t) ==
  /\ doing[t] = "assign"
  /\ wanted' = value[t]
  /\ Go(t, IF wanted = value[t] \/ t = "main" THEN "idle" ELSE "engine")
  /\ UNCHANGED <<patient, reporting, running, worker, value, report, sets,
                 failed, killed, late>>

\* The property emits changed() if its value is a new one.
Assign(t) ==
  /\ doing[t] = "assign"
  /\ wanted' = value[t]
  /\ Go(t, IF wanted = value[t] THEN "idle" ELSE "engine")
  /\ UNCHANGED <<patient, reporting, running, worker, value, report, sets,
                 failed, killed, late>>

\* The slot tells the engine, which tells its providers.  One that cannot be
\* reached throws, and the slot ends here.
SetEngine(t) ==
  /\ doing[t] = "engine"
  /\ reporting' = value[t]
  /\ \/ Go(t, "check") /\ UNCHANGED failed
     \/ reporting # value[t] /\ Go(t, "idle") /\ failed' = TRUE
  /\ UNCHANGED <<patient, wanted, running, worker, value, report, sets, killed, late>>

-----------------------------------------------------------------------------
\* Harvester::start, Harvester::stop: test the flag, exchange it, tell the
\* reporters.
Check(t) ==
  /\ doing[t] = "check"
  /\ Go(t, IF running = value[t] THEN "idle" ELSE "exchange")
  /\ UNCHANGED <<patient, wanted, reporting, running, worker, value, report,
                 sets, failed, killed, late>>

Exchange(t) ==
  /\ doing[t] = "exchange"
  /\ running' = value[t]
  /\ late' = IF value[t] THEN 0 ELSE late
  /\ Go(t, "reporter")
  /\ UNCHANGED <<patient, wanted, reporting, worker, value, report, sets,
                 failed, killed>>

\* Mutant: stop() does not join.
Joined_Not(threads) == threads

\* http_client->stop(); http_client_worker.join()
Joined(threads) == {}

\* The DemultiplexingReporter tells all under its lock.
TellReporters(t) ==
  /\ doing[t] = "reporter"
  /\ worker' = IF value[t] THEN Reporters ELSE Joined(worker)
  /\ killed' = (killed \/ (value[t] /\ worker # {}))
  /\ Go(t, "idle")
  /\ UNCHANGED <<patient, wanted, reporting, running, value, report, sets,
                 failed, late>>

-----------------------------------------------------------------------------
\* Mutant: the flag is not looked at.
MayReport_Always == TRUE

\* if (not is_running.load()) return;
MayReport == running

\* Harvester::report_position_update, called when the reference changes.
BeginReport ==
  /\ report = "idle"
  /\ MayReport
  /\ report' = "gather"
  /\ UNCHANGED <<patient, wanted, reporting, running, worker, doing, value,
                 sets, failed, killed, late>>

\* Wifis and cells have been collected; the reporters get them.
EndReport ==
  /\ report = "gather"
  /\ report' = "idle"
  /\ late' = IF running \/ late = 2 THEN late ELSE late + 1
  /\ UNCHANGED <<patient, wanted, reporting, running, worker, doing, value,
                 sets, failed, killed>>

-----------------------------------------------------------------------------
Next ==
  \/ Construct \/ BeginReport \/ EndReport
  \/ \E v \in BOOLEAN : ClientSets(v)
  \/ \E t \in Setters :
       Assign(t) \/ SetEngine(t) \/ Check(t) \/ Exchange(t) \/ TellReporters(t)

-----------------------------------------------------------------------------
Settled == \A t \in Setters : doing[t] = "idle"

(***************************************************************************)
(* If clients wait for the service to be constructed and every provider    *)
(* can be reached, then between two calls the flag of the Harvester, the   *)
(* state of the engine and the threads of the reporters are what the       *)
(* property says, from the state that was persisted on: nothing is         *)
(* harvested of a user who has not opted in (interface.h 217-219).         *)
(***************************************************************************)
HarvestFollowsSwitch ==
  patient /\ ~failed /\ Settled =>
    /\ running = wanted /\ reporting = wanted
    /\ worker = (IF wanted THEN Reporters ELSE {})

(***************************************************************************)
(* A reporter is not started while its thread is joinable, which would end *)
(* the daemon (ichnaea_reporter.cpp 228-238), also when a switch has       *)
(* failed half-way before.                                                 *)
(***************************************************************************)
NoJoinableIsAssigned == patient => ~killed

(***************************************************************************)
(* Once the flag is cleared at most the report that was under way reaches  *)
(* the reporters, whoever clears it (harvester.cpp 38-57).                 *)
(***************************************************************************)
AtMostOneLateReport == late <= 1

-----------------------------------------------------------------------------
(* Why this holds: the inductive invariant. *)

\* A report that began before the flag was cleared is the last one.
LateOnce ==
  /\ late <= 1
  /\ running => late = 0
  /\ late > 0 => report = "idle"

\* Clients that wait set the property one after the other.
OneAtATime == doing["main"] = "idle" \/ doing["bus"] = "idle"

\* The reporters' threads are those of the flag, once the reporters are told.
WorkersFollow ==
  /\ ~killed
  /\ \A t \in Setters :
       /\ doing[t] = "exchange" => running # value[t]
       /\ doing[t] = "reporter" => running = value[t]
  /\ worker = IF running # (\E t \in Setters : doing[t] = "reporter") THEN Reporters ELSE {}

\* How far the value of a setter has got.
Agrees(t) ==
  CASE doing[t] = "read" -> ~wanted /\ ~running
    [] doing[t] = "assign" ->
         wanted = running /\ IF t = "main" THEN ~wanted /\ reporting = value[t] ELSE reporting = wanted
    [] doing[t] = "engine" -> wanted = value[t]
    [] doing[t] \in {"check", "exchange", "reporter"} -> wanted = value[t] /\ reporting = value[t]
    [] doing[t] = "idle" -> TRUE

SwitchFollows ==
  /\ \A t \in Setters : Agrees(t)
  /\ Settled => running = wanted /\ reporting = wanted

HarvestInv ==
  /\ TypeOK
  /\ LateOnce
  /\ patient => OneAtATime /\ WorkersFollow
  /\ patient /\ ~failed => SwitchFollows
=============================================================================
