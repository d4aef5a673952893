----------------------------- MODULE RadioStack -----------------------------
(***************************************************************************)
(* The radio side of the connectivity manager: the caches of modems and    *)
(* cells that connectivity/ofono_nm_connectivity_manager.cpp keeps of the  *)
(* modems oFono has on the bus, and the cached cell itself                 *)
(* (connectivity/cached_radio_cell.cpp) with the timer that invalidates a  *)
(* 3G cell on firmware that does not report changes of the cell.           *)
(*                                                                         *)
(* Three threads take part: the one that sets the manager up, the bus      *)
(* thread that handles the signals of oFono in their order, and the        *)
(* dispatcher that runs posted tasks and expired timers.                   *)
(***************************************************************************)
EXTENDS Naturals, Sequences, FiniteSets

CONSTANTS
  Modems,        \* object paths of modems
  Technologies,  \* technologies in use, among gsm, umts, lte
  CellIds,       \* identities of cells
  MaxSignals,    \* bound: signals sent and not yet handled
  MaxTasks       \* bound: tasks posted and not yet run

ASSUME RadioAssumption ==
  /\ IsFiniteSet(Modems)
  /\ Technologies \subseteq {"gsm", "umts", "lte"}
  /\ {"none", "junk", "absent", "off", "searching"} \intersect CellIds = {}
  /\ MaxSignals \in Nat /\ MaxTasks \in Nat

VARIABLES
  net,          \* [Modems -> Net]: what oFono would answer
  problematic,  \* modems whose path contains "ril"; chosen once
  phase,        \* setup_radio_stack_access(): how far it has come
  found,        \* modems it still has to visit
  signals,      \* signals of oFono that the bus thread has still to handle
  tasks,        \* the queue of the dispatcher
  modems,       \* cached.modems
  cells,        \* [Modems -> Cell]: cached.cells, NoCell where there is none
  seen          \* [Modems -> SUBSET]: history, what a modem was registered with
                \* since the manager was last told that it went

envVars == <<net, problematic, seen>>
setupVars == <<phase, found>>
queueVars == <<signals, tasks>>
cacheVars == <<modems, cells>>
vars == <<envVars, setupVars, queueVars, cacheVars>>

\* "absent": no such modem; "off": a modem without the interface
\* NetworkRegistration; "searching": registered nowhere.
Unregistered == {"absent", "off", "searching"}
Net == [tech : Unregistered \union Technologies, id : CellIds \union {"none"}]

HasRegistration(m) == net[m].tech \notin {"absent", "off"}
Registered(m) == net[m].tech \in Technologies

\* id is "junk" if the union of the details was never written.  timer: the
\* deadline is set; late: it has passed and its handler has not run; due: a handler
\* has changed the cell, told of it, and not come to the heuristics yet.
Cell ==
  [type : {"none", "unknown"} \union Technologies,
   id : CellIds \union {"none", "junk"},
   strength : BOOLEAN, valid : BOOLEAN, timer : BOOLEAN, late : BOOLEAN, due : BOOLEAN]

NoCell == [type |-> "none", id |-> "none", strength |-> FALSE,
           valid |-> FALSE, timer |-> FALSE, late |-> FALSE, due |-> FALSE]

HasCell(m) == cells[m].type # "none"

Signal ==
  [op : {"added", "removed", "strength"}, m : Modems]
  \union [op : {"interfaces"}, m : Modems, registration : BOOLEAN]
  \union [op : {"technology"}, m : Modems, tech : Technologies]
  \union [op : {"id"}, m : Modems, id : CellIds]

Task ==
  [op : {"interfaces"}, m : Modems, registration : BOOLEAN] \union [op : {"create"}, m : Modems]

Phases == {"start", "enumerate", "failed", "watch", "posted", "connected"}

TypeOK ==
  /\ net \in [Modems -> Net]
  /\ problematic \subseteq Modems
  /\ phase \in Phases
  /\ found \subseteq Modems
  /\ signals \in Seq(Signal)
  /\ tasks \in Seq(Task)
  /\ modems \subseteq Modems
  /\ cells \in [Modems -> Cell]
  /\ seen \in [Modems -> SUBSET (Technologies \union CellIds)]

Off(tech) == [tech |-> tech, id |-> "none"]

Init ==
  /\ net \in [Modems -> {Off("absent"), Off("off")}]
  /\ problematic \in SUBSET Modems
  /\ phase = "start"
  /\ found = {}
  /\ signals = <<>>
  /\ tasks = <<>>
  /\ modems = {}
  /\ cells = [m \in Modems |-> NoCell]
  /\ seen = [m \in Modems |-> {}]

-----------------------------------------------------------------------------
(* The cached cell. *)

Complete(c) == c.id # "none" /\ c.strength

\* Mutant: the timer is armed once, by the constructor.
CellChangeHeuristics_Once(m, c) ==
  IF m \in problematic /\ c.type = "umts"
    THEN [c EXCEPT !.timer = @ \/ ~HasCell(m), !.valid = Complete(c)]
    ELSE c

\* execute_cell_change_heuristics_if_appropriate(): only for 3G cells of
\* problematic firmware.  Setting the deadline anew does not take back the
\* handler of one that has passed.
CellChangeHeuristics(m, c) ==
  IF m \in problematic /\ c.type = "umts"
    THEN [c EXCEPT !.timer = TRUE, !.valid = Complete(c)]
    ELSE c

\* The cells the constructor may make.  Without a registration the details
\* stay as the allocation left them; an answer that does not come gives the
\* empty technology, which is unknown.
NewCells(m) ==
  IF Registered(m)
    THEN {CellChangeHeuristics(m, [type |-> net[m].tech, id |-> net[m].id,
            strength |-> TRUE, valid |-> TRUE, timer |-> FALSE, late |-> FALSE, due |-> FALSE])}
    ELSE {[type |-> "unknown", id |-> i, strength |-> (i = "junk"),
           valid |-> TRUE, timer |-> FALSE, late |-> FALSE, due |-> FALSE] : i \in {"none", "junk"}}

\* Mutant: a change of the technology is not a change of the cell.
WithTechnology_Silent(m, c, tech) ==
  IF c.type \in {tech, "none"} THEN c
  ELSE [c EXCEPT !.type = tech, !.id = "none", !.strength = FALSE]

\* A changed cell is shown as it is, with what `valid' says so far, and without a
\* lock; the heuristics come when its handler returns.
Changed(m, c) == [c EXCEPT !.due = m \in problematic /\ c.type = "umts"]

\* Another technology keeps the area and drops id and strength, except if
\* the technology was unknown before.
WithTechnology(m, c, tech) ==
  IF c.type \in {tech, "none"} THEN c
  ELSE IF c.type = "unknown" THEN Changed(m, [c EXCEPT !.type = tech])
  ELSE Changed(m, [c EXCEPT !.type = tech, !.id = "none", !.strength = FALSE])

\* A cell of unknown technology has nowhere to keep an identity.
WithId(m, c, id) ==
  IF c.type \in {"none", "unknown"} THEN c
  ELSE Changed(m, [c EXCEPT !.id = id])

WithStrength(m, c) ==
  IF c.type \in {"none", "unknown"} THEN c ELSE [c EXCEPT !.strength = TRUE]

\* The handlers a signal of the registration reaches: those of the cell, which
\* is disconnected when it goes.
UpdateCell(m, c) == cells' = [cells EXCEPT ![m] = c]

\* The bus thread takes the next signal when it has returned from the last one.
Handles(op) == signals # <<>> /\ Head(signals).op = op /\ \A m \in Modems : ~cells[m].due

HandleTechnology ==
  LET s == Head(signals) IN
  /\ Handles("technology")
  /\ UpdateCell(s.m, WithTechnology(s.m, cells[s.m], s.tech))
  /\ signals' = Tail(signals)
  /\ UNCHANGED <<envVars, setupVars, tasks, modems>>

HandleId ==
  LET s == Head(signals) IN
  /\ Handles("id")
  /\ UpdateCell(s.m, WithId(s.m, cells[s.m], s.id))
  /\ signals' = Tail(signals)
  /\ UNCHANGED <<envVars, setupVars, tasks, modems>>

HandleStrength ==
  LET s == Head(signals) IN
  /\ Handles("strength")
  /\ UpdateCell(s.m, WithStrength(s.m, cells[s.m]))
  /\ signals' = Tail(signals)
  /\ UNCHANGED <<envVars, setupVars, tasks, modems>>

\* The end of a handler that has changed a cell, unless that is gone by now.
RunHeuristics(m) ==
  /\ cells[m].due
  /\ UpdateCell(m, CellChangeHeuristics(m, [cells[m] EXCEPT !.due = FALSE]))
  /\ UNCHANGED <<envVars, setupVars, queueVars, modems>>

\* The deadline passes; then its handler runs on the dispatcher.
TimerExpires(m) ==
  /\ cells[m].timer
  /\ UpdateCell(m, [cells[m] EXCEPT !.timer = FALSE, !.late = TRUE])
  /\ UNCHANGED <<envVars, setupVars, queueVars, modems>>

Invalidate(m) ==
  /\ cells[m].late
  /\ UpdateCell(m, [cells[m] EXCEPT !.valid = FALSE, !.late = FALSE])
  /\ UNCHANGED <<envVars, setupVars, queueVars, modems>>

-----------------------------------------------------------------------------
(* The caches of the manager.  Each handler holds the lock of the caches.  *)

\* on_modem_added(): a modem that is cached already is left alone.
OnModemAdded(m) ==
  \/ m \in modems /\ UNCHANGED cacheVars
  \/ /\ m \notin modems
     /\ modems' = modems \union {m}
     /\ IF HasCell(m) THEN UNCHANGED cells ELSE \E c \in NewCells(m) : UpdateCell(m, c)

HandleAdded ==
  /\ Handles("added")
  /\ OnModemAdded(Head(signals).m)
  /\ signals' = Tail(signals)
  /\ UNCHANGED <<envVars, setupVars, tasks>>

\* Mutant: the cell outlives its modem.
OnModemRemoved_KeepsCell(m) == modems' = modems \ {m} /\ UNCHANGED cells

OnModemRemoved(m) == modems' = modems \ {m} /\ UpdateCell(m, NoCell)

HandleRemoved ==
  /\ Handles("removed")
  /\ OnModemRemoved(Head(signals).m)
  /\ signals' = Tail(signals)
  /\ UNCHANGED <<envVars, setupVars, tasks>>

Post(task) == Len(tasks) < MaxTasks /\ tasks' = Append(tasks, task)

\* The handler of the modem's property only posts; it goes with the modem.
HandleInterfaces ==
  /\ Handles("interfaces")
  /\ IF Head(signals).m \in modems THEN Post(Head(signals)) ELSE UNCHANGED tasks
  /\ signals' = Tail(signals)
  /\ UNCHANGED <<envVars, setupVars, cacheVars>>

\* Mutant: the cell is looked for, and the modem is not.
OnInterfacesChanged_Unlooked ==
  LET t == Head(tasks) IN
  /\ tasks # <<>> /\ t.op = "interfaces"
  /\ IF HasCell(t.m) THEN UpdateCell(t.m, NoCell) ELSE UNCHANGED cells
  /\ tasks' = Tail(tasks)
  /\ UNCHANGED <<envVars, setupVars, signals, modems>>

OnInterfacesChanged ==
  LET t == Head(tasks) IN
  /\ tasks # <<>> /\ t.op = "interfaces"
  /\ CASE t.m \in modems /\ HasCell(t.m) /\ ~t.registration ->
            UpdateCell(t.m, NoCell) /\ tasks' = Tail(tasks)
       [] t.m \in modems /\ ~HasCell(t.m) /\ t.registration ->
            tasks' = Append(Tail(tasks), [op |-> "create", m |-> t.m]) /\ UNCHANGED cells
       [] OTHER -> tasks' = Tail(tasks) /\ UNCHANGED cells
  /\ UNCHANGED <<envVars, setupVars, signals, modems>>

\* Mutant: the modem is not looked for a second time.
CreateCell_Unlooked ==
  /\ tasks # <<>> /\ Head(tasks).op = "create"
  /\ IF HasCell(Head(tasks).m) THEN UNCHANGED cells
     ELSE \E c \in NewCells(Head(tasks).m) : UpdateCell(Head(tasks).m, c)
  /\ tasks' = Tail(tasks)
  /\ UNCHANGED <<envVars, setupVars, signals, modems>>

\* insert() keeps a cell that has come in between.
CreateCell ==
  LET m == Head(tasks).m IN
  /\ tasks # <<>> /\ Head(tasks).op = "create"
  /\ IF m \notin modems \/ HasCell(m) THEN UNCHANGED cells
     ELSE \E c \in NewCells(m) : UpdateCell(m, c)
  /\ tasks' = Tail(tasks)
  /\ UNCHANGED <<envVars, setupVars, signals, modems>>

-----------------------------------------------------------------------------
(* setup_radio_stack_access(): visit the modems oFono has, then connect to *)
(* its signals.  If oFono does not answer, it is done when the name gets   *)
(* registered, which nobody hears of before the watcher is connected.      *)

There == {m \in Modems : net[m].tech # "absent"}

Enumerate ==
  /\ phase \in {"start", "posted"}
  /\ phase' = "enumerate"
  /\ found' = There
  /\ UNCHANGED <<envVars, queueVars, cacheVars>>

Visit(m) ==
  /\ phase = "enumerate"
  /\ m \in found
  /\ found' = found \ {m}
  /\ OnModemAdded(m)
  /\ UNCHANGED <<envVars, phase, queueVars>>

Connect ==
  /\ phase = "enumerate"
  /\ found = {}
  /\ phase' = "connected"
  /\ UNCHANGED <<envVars, found, queueVars, cacheVars>>

\* oFono is not on the bus yet; the watcher is connected; oFono registers.
OfonoIsAbsent ==
  /\ phase = "start"
  /\ phase' = "failed"
  /\ UNCHANGED <<envVars, found, queueVars, cacheVars>>

WatchOfono ==
  /\ phase = "failed"
  /\ phase' = "watch"
  /\ UNCHANGED <<envVars, found, queueVars, cacheVars>>

OfonoRegisters ==
  /\ phase = "watch"
  /\ phase' = "posted"
  /\ UNCHANGED <<envVars, found, queueVars, cacheVars>>

-----------------------------------------------------------------------------
(* oFono.  A signal reaches the manager if a proxy of it exists when it is *)
(* sent: that of the manager, or of the modem and its registration.        *)

Heard(s) ==
  IF s.op \in {"added", "removed"} THEN phase = "connected" ELSE s.m \in modems \/ HasCell(s.m)

Told(m) == phase = "connected" /\ net[m].tech # "absent"

\* What a change sends is sent by one object, and heard together.
Sends(ss) ==
  /\ Len(signals) + Len(ss) <= MaxSignals
  /\ signals' = IF \A i \in DOMAIN ss : Heard(ss[i]) THEN signals \o ss ELSE signals

Env(m, n, ss) ==
  /\ net' = [net EXCEPT ![m] = n]
  /\ Sends(ss)
  /\ seen' = [seen EXCEPT ![m] =
       IF Told(m) /\ n.tech = "absent" THEN {} ELSE @ \union ({n.tech, n.id} \ (Unregistered \union {"none"}))]
  /\ UNCHANGED <<problematic, setupVars, tasks, cacheVars>>

TechnologySignal(m, t) == [op |-> "technology", m |-> m, tech |-> t]
IdSignal(m, i) == [op |-> "id", m |-> m, id |-> i]
InterfacesSignal(m, r) == [op |-> "interfaces", m |-> m, registration |-> r]

ModemAppears(m) ==
  net[m].tech = "absent" /\ Env(m, Off("off"), <<[op |-> "added", m |-> m]>>)

ModemGoes(m) ==
  net[m].tech # "absent" /\ Env(m, Off("absent"), <<[op |-> "removed", m |-> m]>>)

InterfaceAppears(m) ==
  net[m].tech = "off" /\ Env(m, Off("searching"), <<InterfacesSignal(m, TRUE)>>)

\* Another interface of the modem comes or goes.
OtherInterface(m) ==
  HasRegistration(m) /\ Env(m, net[m], <<InterfacesSignal(m, TRUE)>>)

InterfaceGoes(m) ==
  HasRegistration(m) /\ Env(m, Off("off"), <<InterfacesSignal(m, FALSE)>>)

\* Registration or handover; the properties are signalled in either order.
Registers(m, t, i) ==
  /\ HasRegistration(m) /\ net[m].tech # t
  /\ \/ Env(m, [tech |-> t, id |-> i], <<TechnologySignal(m, t), IdSignal(m, i)>>)
     \/ Env(m, [tech |-> t, id |-> i], <<IdSignal(m, i), TechnologySignal(m, t)>>)

Unregisters(m) == Registered(m) /\ Env(m, Off("searching"), <<>>)

\* Problematic firmware does not report new cells while on 3G.
Moves(m, i) ==
  /\ Registered(m) /\ net[m].id # i
  /\ LET n == [net[m] EXCEPT !.id = i] IN
       \/ Env(m, n, <<IdSignal(m, i)>>)
       \/ m \in problematic /\ net[m].tech = "umts" /\ Env(m, n, <<>>)

StrengthChanges(m) ==
  Registered(m) /\ HasCell(m) /\ Env(m, net[m], <<[op |-> "strength", m |-> m]>>)

-----------------------------------------------------------------------------
Setup ==
  Enumerate \/ (\E m \in Modems : Visit(m)) \/ Connect \/ OfonoIsAbsent \/ WatchOfono

BusThread ==
  \/ HandleAdded \/ HandleRemoved \/ HandleInterfaces
  \/ HandleTechnology \/ HandleId \/ HandleStrength
  \/ \E m \in Modems : RunHeuristics(m)

Dispatcher == OnInterfacesChanged \/ CreateCell

Ofono ==
  \/ OfonoRegisters
  \/ \E m \in Modems :
       \/ ModemAppears(m) \/ ModemGoes(m)
       \/ InterfaceAppears(m) \/ OtherInterface(m) \/ InterfaceGoes(m)
       \/ Unregisters(m) \/ StrengthChanges(m)
       \/ \E i \in CellIds : Moves(m, i) \/ \E t \in Technologies : Registers(m, t, i)

Next ==
  \/ Setup \/ BusThread \/ Dispatcher \/ Ofono
  \/ \E m \in Modems : TimerExpires(m) \/ Invalidate(m)

Spec == Init /\ [][Next]_vars

\* Time passes and the dispatcher runs the handlers of expired timers.
FairSpec ==
  Spec /\ \A m \in Modems : WF_vars(TimerExpires(m)) /\ WF_vars(Invalidate(m))
=============================================================================
