---------------------------- MODULE NetworkStack ----------------------------
(***************************************************************************)
(* The network side of the connectivity manager: the caches of devices and *)
(* access points that connectivity/ofono_nm_connectivity_manager.cpp keeps *)
(* of the objects NetworkManager has on the bus, and what it says of the   *)
(* primary connection.                                                     *)
(*                                                                         *)
(* on_device_added() lets go of the lock for every access point it         *)
(* announces, and connects to the signals of the device after the last.    *)
(* Only one thread at a time is in it: the one that sets the manager up,   *)
(* and later the dispatcher.                                               *)
(***************************************************************************)
EXTENDS Naturals, Sequences

CONSTANTS
  Wifi, Cellular,  \* object paths of devices, by their type
  Aps,             \* object paths of access points
  DeviceOf,        \* [Aps -> Wifi]: the device that sees an access point
  NoDevice,
  MaxSignals,      \* bound: signals sent and not yet handled
  MaxTasks,        \* bound: tasks posted and not yet run
  MaxFaults        \* bound: calls NetworkManager does not answer

VARIABLES
  there,    \* devices NetworkManager has
  air,      \* access points it has
  former,   \* devices and access points it had: object paths are not used again
  primary,  \* the device of the primary connection; it is online while it has one
  faults,   \* calls it did not answer
  missed,   \* history: what changed last without the manager being told, or what
            \* it got no answer about when it asked
  phase,    \* setup_network_stack_access(): how far it has come
  found,    \* devices it still has to visit
  visit,    \* the wifi device on_device_added() is at, and its access points to come
  signals,  \* signals the bus thread has still to handle
  tasks,    \* the queue of the dispatcher
  devices,  \* cached.nm_devices
  wired,    \* devices whose signals are connected
  wifis,    \* cached.wifis
  via,      \* active_connection_characteristics
  state     \* state: whether it is shown as online

envVars == <<there, air, former, primary>>
setupVars == <<phase, found>>
cacheVars == <<devices, wired, wifis>>
shownVars == <<via, state>>
vars == <<envVars, faults, missed, setupVars, visit, signals, tasks, cacheVars, shownVars>>

Devices == Wifi \union Cellular
ApsOf(d) == {a \in Aps : DeviceOf[a] = d}
NoVisit == [dev |-> NoDevice, left |-> {}]

Signal ==
  [op : {"added", "removed"}, dev : Devices]
  \union [op : {"apAdded", "apRemoved"}, ap : Aps]
  \union [op : {"primary"}, dev : Devices \union {NoDevice}]

Task ==
  [op : {"added", "removed"}, dev : Devices]
  \union [op : {"primary"}, dev : Devices \union {NoDevice}]

TypeOK ==
  /\ there \subseteq Devices /\ air \subseteq Aps /\ former \subseteq Devices \union Aps
  /\ primary \in Devices \union {NoDevice}
  /\ faults \in 0..MaxFaults
  /\ missed \subseteq Devices \union Aps \union {"primary"}
  /\ phase \in {"start", "enumerate", "read", "failed", "watch", "posted", "connected"}
  /\ found \subseteq Devices
  /\ visit \in [dev : Wifi, left : SUBSET Aps] \union {NoVisit}
  /\ signals \in Seq(Signal) /\ tasks \in Seq(Task)
  /\ devices \subseteq Devices /\ wired \subseteq Wifi /\ wifis \subseteq Aps
  /\ via \in {"none", "wwan", "wifi"} /\ state \in BOOLEAN

Init ==
  /\ there \in SUBSET Devices /\ air = {} /\ former = {}
  /\ primary = NoDevice
  /\ faults = 0 /\ missed = {}
  /\ phase = "start" /\ found = {} /\ visit = NoVisit
  /\ signals = <<>> /\ tasks = <<>>
  /\ devices = {} /\ wired = {} /\ wifis = {}
  /\ via = "none" /\ state = FALSE

-----------------------------------------------------------------------------
(* on_device_added().  Asking for the type fails for a device that is gone *)
(* by now.                                                                 *)

Known(d) == d \in devices /\ UNCHANGED <<devices, visit, missed, faults>>

AddCellular(d) ==
  /\ d \in Cellular \ devices /\ d \in there
  /\ devices' = devices \union {d}
  /\ UNCHANGED <<visit, missed, faults>>

AddWifi(d) ==
  /\ d \in Wifi \ devices /\ d \in there
  /\ devices' = devices \union {d}
  /\ visit' = [dev |-> d, left |-> air \intersect ApsOf(d)]
  /\ missed' = missed \ {a \in ApsOf(d) : a \in air \/ a \notin wifis}
  /\ UNCHANGED faults

DeviceAdded(d) == Known(d) \/ AddCellular(d) \/ AddWifi(d)

\* A call that NetworkManager does not answer, about these objects.
Unanswered(objects) ==
  /\ faults < MaxFaults
  /\ faults' = faults + 1
  /\ missed' = missed \union objects

\* An exception: the device is gone, or NetworkManager does not answer what its
\* type is, or what its access points are.  The type is asked for twice, and a
\* modem is cached by the second time, as a wifi device is when it is asked for
\* its access points.
DeviceFails(d) ==
  /\ d \notin devices
  /\ \/ d \notin there /\ UNCHANGED <<devices, faults, missed>>
     \/ d \in there /\ Unanswered({d}) /\ UNCHANGED devices
     \/ d \in there /\ Unanswered({}) /\ devices' = devices \union {d}
  /\ UNCHANGED visit

\* Asking for the type of the device and reading the properties of an access
\* point throws if there is no such thing any more, or no answer; the callers of
\* on_access_point_added() catch it.
Readable(a) == a \in air

AccessPointAdded(a) ==
  \/ /\ wifis' = IF DeviceOf[a] \in devices /\ Readable(a) THEN wifis \union {a} ELSE wifis
     /\ UNCHANGED <<faults, missed>>
  \/ DeviceOf[a] \in devices /\ Unanswered({a}) /\ UNCHANGED wifis

\* Mutant: the access point is announced as gone and stays in the cache.
AccessPointRemoved_Kept(a) == UNCHANGED wifis

AccessPointRemoved(a) == wifis' = wifis \ {a}

VisitAp(a) ==
  /\ a \in visit.left
  /\ visit' = [visit EXCEPT !.left = @ \ {a}]
  /\ AccessPointAdded(a)
  /\ UNCHANGED <<envVars, setupVars, signals, tasks, devices, wired, shownVars>>

\* Mutant: connects also when no device is being added.
ConnectDevice_Always ==
  /\ visit.left = {}
  /\ wired' = wired \union {visit.dev}
  /\ visit' = NoVisit
  /\ UNCHANGED <<envVars, faults, missed, setupVars, signals, tasks, devices, wifis, shownVars>>

ConnectDevice ==
  /\ visit # NoVisit /\ visit.left = {}
  /\ wired' = wired \union {visit.dev}
  /\ visit' = NoVisit
  /\ UNCHANGED <<envVars, faults, missed, setupVars, signals, tasks, devices, wifis, shownVars>>

-----------------------------------------------------------------------------
(* characteristics_for_connection(): only devices that are cached count.   *)
(* The connection may be gone when its devices are asked for; whatever is  *)
(* thrown, for want of an answer too, is dropped and counts as none.       *)

Kind(d) == CASE d \in Cellular -> "wwan" [] d \in Wifi -> "wifi" [] OTHER -> "none"

Characteristics(d) ==
  (IF d \in devices \intersect there THEN {Kind(d)} ELSE {"none"})
  \union (IF d # primary THEN {"none"} ELSE {})

Shows(d) ==
  \/ via' \in Characteristics(d) /\ UNCHANGED <<faults, missed>>
  \/ d # NoDevice /\ Unanswered({d}) /\ via' = "none"

-----------------------------------------------------------------------------
(* setup_network_stack_access(), called by the constructor or, if that     *)
(* fails, by a task posted when NetworkManager registers on the bus.       *)

Enumerate ==
  /\ phase \in {"start", "posted"}
  /\ phase' = "enumerate"
  /\ found' = there
  /\ missed' = missed \ Devices
  /\ UNCHANGED <<envVars, faults, visit, signals, tasks, cacheVars, shownVars>>

SetupFails ==
  /\ phase' = "failed"
  /\ found' = {}

NetworkManagerIsAbsent ==
  /\ phase = "start"
  /\ SetupFails
  /\ UNCHANGED <<envVars, faults, missed, visit, signals, tasks, cacheVars, shownVars>>

\* NetworkManager has registered, and does not answer what its devices are.
EnumerateFails ==
  /\ phase = "posted"
  /\ Unanswered({})
  /\ SetupFails
  /\ UNCHANGED <<envVars, visit, signals, tasks, cacheVars, shownVars>>

VisitDevice(d) ==
  /\ phase = "enumerate" /\ visit = NoVisit
  /\ d \in found
  /\ DeviceAdded(d)
  /\ found' = found \ {d}
  /\ UNCHANGED <<envVars, phase, signals, tasks, wired, wifis, shownVars>>

VisitFails(d) ==
  /\ phase = "enumerate" /\ visit = NoVisit
  /\ d \in found
  /\ DeviceFails(d)
  /\ SetupFails
  /\ UNCHANGED <<envVars, signals, tasks, wired, wifis, shownVars>>

Read ==
  /\ phase = "enumerate" /\ visit = NoVisit /\ found = {}
  /\ phase' = "read"
  /\ state' = (primary # NoDevice)
  /\ \/ /\ via' \in Characteristics(primary)
        /\ missed' = missed \ {"primary"}
        /\ UNCHANGED faults
     \/ /\ primary # NoDevice /\ faults < MaxFaults
        /\ via' = "none"
        /\ missed' = (missed \ {"primary"}) \union {primary}
        /\ faults' = faults + 1
  /\ UNCHANGED <<envVars, found, visit, signals, tasks, cacheVars>>

\* No answer what the state is, or, after that, what the primary connection is.
ReadFails ==
  /\ phase = "enumerate" /\ visit = NoVisit /\ found = {}
  /\ Unanswered({})
  /\ state' \in {state, primary # NoDevice}
  /\ SetupFails
  /\ UNCHANGED <<envVars, visit, signals, tasks, cacheVars, via>>

Connect ==
  /\ phase = "read"
  /\ phase' = "connected"
  /\ UNCHANGED <<envVars, faults, missed, found, visit, signals, tasks, cacheVars, shownVars>>

\* The watcher is connected; NetworkManager registers (again).
Watch ==
  /\ phase = "failed"
  /\ phase' = "watch"
  /\ UNCHANGED <<envVars, faults, missed, found, visit, signals, tasks, cacheVars, shownVars>>

NetworkManagerRegisters ==
  /\ phase = "watch"
  /\ phase' = "posted"
  /\ UNCHANGED <<envVars, faults, missed, found, visit, signals, tasks, cacheVars, shownVars>>

-----------------------------------------------------------------------------
(* The bus thread: device changes and the primary connection are posted,   *)
(* access points and the state are dealt with at once.                     *)

IsFirst(q, ops) == q # <<>> /\ Head(q).op \in ops

Posts(ops) ==
  /\ IsFirst(signals, ops)
  /\ Len(tasks) < MaxTasks
  /\ tasks' = Append(tasks, Head(signals))
  /\ signals' = Tail(signals)
  /\ UNCHANGED <<envVars, faults, missed, setupVars, visit, cacheVars, via>>

HandleDevice == Posts({"added", "removed"}) /\ UNCHANGED state

\* Mutant: the characteristics are determined on the bus thread.
HandlePrimary_AtOnce ==
  /\ IsFirst(signals, {"primary"})
  /\ state' = (Head(signals).dev # NoDevice)
  /\ via' \in Characteristics(Head(signals).dev)
  /\ signals' = Tail(signals)
  /\ UNCHANGED <<envVars, faults, missed, setupVars, visit, tasks, cacheVars>>

\* One signal, or two, with the state and the primary connection.
HandlePrimary == Posts({"primary"}) /\ state' = (Head(signals).dev # NoDevice)

\* Nothing is done for a device that is not connected, or for an access point
\* that appears while the device is not cached.
HandleAccessPoint ==
  /\ IsFirst(signals, {"apAdded", "apRemoved"})
  /\ LET a == Head(signals).ap
         isAdded == Head(signals).op = "apAdded"
         isWired == DeviceOf[a] \in wired
     IN
       \/ isWired /\ isAdded /\ DeviceOf[a] \in devices /\ AccessPointAdded(a)
       \/ isWired /\ ~isAdded /\ AccessPointRemoved(a) /\ UNCHANGED <<faults, missed>>
       \/ /\ ~isWired \/ (isAdded /\ DeviceOf[a] \notin devices)
          /\ missed' = missed \union {a}
          /\ UNCHANGED <<faults, wifis>>
  /\ signals' = Tail(signals)
  /\ UNCHANGED <<envVars, setupVars, visit, tasks, devices, wired, shownVars>>

(* The dispatcher.  An exception ends the task, not the thread. *)

IsNext(op) == phase = "connected" /\ visit = NoVisit /\ IsFirst(tasks, {op})

\* Mutant: an exception ends the thread of the dispatcher.
RunAdded_Uncaught ==
  /\ IsNext("added")
  /\ DeviceAdded(Head(tasks).dev)
  /\ tasks' = Tail(tasks)
  /\ UNCHANGED <<envVars, setupVars, signals, wired, wifis, shownVars>>

\* Mutant: an exception takes the tasks behind with it.
RunAdded_Emptied ==
  /\ IsNext("added")
  /\ \/ DeviceAdded(Head(tasks).dev) /\ tasks' = Tail(tasks)
     \/ DeviceFails(Head(tasks).dev) /\ tasks' = <<>>
  /\ UNCHANGED <<envVars, setupVars, signals, wired, wifis, shownVars>>

RunAdded ==
  /\ IsNext("added")
  /\ DeviceAdded(Head(tasks).dev) \/ DeviceFails(Head(tasks).dev)
  /\ tasks' = Tail(tasks)
  /\ UNCHANGED <<envVars, setupVars, signals, wired, wifis, shownVars>>

\* on_device_removed(): its access points stay cached, and each of them keeps
\* the device connected.
RunRemoved ==
  /\ IsNext("removed")
  /\ LET d == Head(tasks).dev IN
       /\ devices' = devices \ {d}
       /\ wired' = IF wifis \intersect ApsOf(d) = {} THEN wired \ {d} ELSE wired
  /\ tasks' = Tail(tasks)
  /\ UNCHANGED <<envVars, faults, missed, setupVars, visit, signals, wifis, shownVars>>

RunPrimary ==
  /\ IsNext("primary")
  /\ Shows(Head(tasks).dev)
  /\ tasks' = Tail(tasks)
  /\ UNCHANGED <<envVars, setupVars, visit, signals, cacheVars, state>>

-----------------------------------------------------------------------------
(* NetworkManager.  A signal is delivered if its proxy exists when it is   *)
(* sent: that of the manager, or of the device.                            *)

Told(s) ==
  IF s.op \in {"apAdded", "apRemoved"}
    THEN DeviceOf[s.ap] \in devices \union wired
    ELSE phase = "connected"

Changed(s) ==
  CASE s.op \in {"apAdded", "apRemoved"} -> s.ap
    [] s.op \in {"added", "removed"} -> s.dev
    [] OTHER -> s.op

\* What a change sends is sent by one object, and told together.  lost: access
\* points that go without a signal of their own.
Sends(ss, lost) ==
  LET told == \A i \in DOMAIN ss : Told(ss[i]) IN
  /\ Len(signals) + Len(ss) <= MaxSignals
  /\ signals' = IF told THEN signals \o ss ELSE signals
  /\ missed' = missed \union lost
                  \union (IF told THEN {} ELSE {Changed(ss[i]) : i \in DOMAIN ss})
  /\ UNCHANGED <<faults, setupVars, visit, tasks, cacheVars, shownVars>>

DeviceSignal(op, d) == [op |-> op, dev |-> d]
ApSignal(op, a) == [op |-> op, ap |-> a]

DeviceAppears(d) ==
  /\ d \notin there \union former
  /\ there' = there \union {d}
  /\ Sends(<<DeviceSignal("added", d)>>, {})
  /\ UNCHANGED <<air, former, primary>>

DeviceGoes(d) ==
  /\ d \in there
  /\ there' = there \ {d}
  /\ air' = air \ ApsOf(d)
  /\ former' = former \union {d} \union (air \intersect ApsOf(d))
  /\ primary' = IF primary = d THEN NoDevice ELSE primary
  /\ Sends((IF primary = d THEN <<DeviceSignal("primary", NoDevice)>> ELSE <<>>)
             \o <<DeviceSignal("removed", d)>>, air \intersect ApsOf(d))

PrimaryChanges(d) ==
  /\ d \in there \union {NoDevice} /\ d # primary
  /\ primary' = d
  /\ Sends(<<DeviceSignal("primary", d)>>, {})
  /\ UNCHANGED <<there, air, former>>

ApAppears(a) ==
  /\ DeviceOf[a] \in there /\ a \notin air \union former
  /\ air' = air \union {a}
  /\ Sends(<<ApSignal("apAdded", a)>>, {})
  /\ UNCHANGED <<there, former, primary>>

ApGoes(a) ==
  /\ a \in air
  /\ air' = air \ {a}
  /\ former' = former \union {a}
  /\ Sends(<<ApSignal("apRemoved", a)>>, {})
  /\ UNCHANGED <<there, primary>>

-----------------------------------------------------------------------------
Setup ==
  \/ Enumerate \/ NetworkManagerIsAbsent \/ EnumerateFails
  \/ Read \/ ReadFails \/ Connect \/ Watch
  \/ \E d \in Devices : VisitDevice(d) \/ VisitFails(d)

Visiting == ConnectDevice \/ \E a \in Aps : VisitAp(a)

BusThread == HandleDevice \/ HandlePrimary \/ HandleAccessPoint

Dispatcher == RunAdded \/ RunRemoved \/ RunPrimary

NetworkManager ==
  \/ NetworkManagerRegisters
  \/ \E d \in Devices : DeviceAppears(d) \/ DeviceGoes(d)
  \/ \E d \in Devices \union {NoDevice} : PrimaryChanges(d)
  \/ \E a \in Aps : ApAppears(a) \/ ApGoes(a)

Next == Setup \/ Visiting \/ BusThread \/ Dispatcher \/ NetworkManager

Spec == Init /\ [][Next]_vars

\* The threads of the bus and of the dispatcher run.
FairSpec == Spec /\ WF_vars(BusThread) /\ WF_vars(Visiting) /\ WF_vars(Dispatcher)
=============================================================================
