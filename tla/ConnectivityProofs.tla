-------------------------- MODULE ConnectivityProofs --------------------------
(***************************************************************************)
(* ConnectivityInv is an invariant of the connectivity manager, for any    *)
(* number of modems, devices and access points and queues of any length.   *)
(*                                                                         *)
(* The radio stack has one lemma for every kind of step: a cell is         *)
(* replaced by a sound one (CellStep) and shows what its modem had, or a   *)
(* signal that the modem went is behind (SeenStep).  The network stack has *)
(* one lemma for every part of the invariant; they share what is said of   *)
(* the two queues first, so that only AddedFirst and PrimaryComesRight,    *)
(* which are about the order, go into the sequences again.                 *)
(***************************************************************************)
EXTENDS Connectivity, SequenceTheorems, TLAPS

-----------------------------------------------------------------------------
(* Queues. *)

\* The first element is taken off.
LEMMA Taken ==
  ASSUME NEW S, NEW q \in Seq(S), q # <<>>
  PROVE  /\ Tail(q) \in Seq(S) /\ Head(q) = q[1] /\ q[1] \in S
         /\ DOMAIN q = 1 .. Len(q) /\ Len(q) \in Nat /\ 1 \in DOMAIN q
         /\ DOMAIN Tail(q) = 1 .. (Len(q) - 1)
         /\ \A i \in DOMAIN Tail(q) : i + 1 \in DOMAIN q /\ Tail(q)[i] = q[i + 1]
         /\ \A i \in DOMAIN q : i > 1 => i - 1 \in DOMAIN Tail(q) /\ Tail(q)[i - 1] = q[i]
  <1>1. Len(q) \in Nat /\ Len(q) > 0 /\ DOMAIN q = 1 .. Len(q)
    BY LenProperties, EmptySeq
  <1>2. /\ Tail(q) \in Seq(S) /\ Len(Tail(q)) = Len(q) - 1 /\ Head(q) = q[1]
        /\ \A i \in 1 .. Len(Tail(q)) : Tail(q)[i] = q[i + 1]
    BY <1>1, HeadTailProperties
  <1>3. DOMAIN Tail(q) = 1 .. (Len(q) - 1)
    BY <1>2, LenProperties
  <1>4. 1 \in DOMAIN q /\ q[1] \in S
    BY <1>1, ElementOfSeq
  <1>5. ASSUME NEW i \in DOMAIN q, i > 1
        PROVE  i - 1 \in DOMAIN Tail(q) /\ Tail(q)[i - 1] = q[i]
    <2>1. i - 1 \in 1 .. Len(Tail(q)) /\ (i - 1) + 1 = i
      BY <1>1, <1>2, <1>5
    <2> QED
      BY <1>2, <1>3, <2>1
  <1> QED
    BY <1>1, <1>2, <1>3, <1>4, <1>5

\* An element is added at the end.
LEMMA Added ==
  ASSUME NEW S, NEW q \in Seq(S), NEW s \in S
  PROVE  /\ Append(q, s) \in Seq(S)
         /\ DOMAIN q = 1 .. Len(q) /\ Len(q) \in Nat
         /\ DOMAIN Append(q, s) = 1 .. (Len(q) + 1)
         /\ \A i \in DOMAIN q : i \in DOMAIN Append(q, s) /\ Append(q, s)[i] = q[i]
         /\ Append(q, s)[Len(q) + 1] = s
  <1>1. Len(q) \in Nat /\ DOMAIN q = 1 .. Len(q)
    BY LenProperties
  <1>2. /\ Append(q, s) \in Seq(S) /\ Len(Append(q, s)) = Len(q) + 1
        /\ \A i \in 1 .. Len(q) : Append(q, s)[i] = q[i]
        /\ Append(q, s)[Len(q) + 1] = s
    BY AppendProperties
  <1>3. DOMAIN Append(q, s) = 1 .. (Len(q) + 1)
    BY <1>2, LenProperties
  <1> QED
    BY <1>1, <1>2, <1>3

\* Several are.
LEMMA Joined ==
  ASSUME NEW S, NEW q \in Seq(S), NEW r \in Seq(S)
  PROVE  /\ q \o r \in Seq(S)
         /\ DOMAIN q = 1 .. Len(q) /\ Len(q) \in Nat
         /\ DOMAIN r = 1 .. Len(r) /\ Len(r) \in Nat
         /\ DOMAIN (q \o r) = 1 .. (Len(q) + Len(r))
         /\ \A i \in DOMAIN q : i \in DOMAIN (q \o r) /\ (q \o r)[i] = q[i]
         /\ \A i \in DOMAIN r : Len(q) + i \in DOMAIN (q \o r) /\ (q \o r)[Len(q) + i] = r[i]
         /\ \A i \in DOMAIN (q \o r) : i \notin DOMAIN q =>
              i - Len(q) \in DOMAIN r /\ (q \o r)[i] = r[i - Len(q)]
  <1>1. Len(q) \in Nat /\ Len(r) \in Nat /\ DOMAIN q = 1 .. Len(q) /\ DOMAIN r = 1 .. Len(r)
    BY LenProperties
  <1>2. /\ q \o r \in Seq(S) /\ Len(q \o r) = Len(q) + Len(r)
        /\ \A i \in 1 .. Len(q) + Len(r) : (q \o r)[i] = IF i <= Len(q) THEN q[i] ELSE r[i - Len(q)]
    BY ConcatProperties
  <1>3. DOMAIN (q \o r) = 1 .. (Len(q) + Len(r))
    BY <1>2, LenProperties
  <1>4. ASSUME NEW i \in DOMAIN r
        PROVE  Len(q) + i \in DOMAIN (q \o r) /\ (q \o r)[Len(q) + i] = r[i]
    <2>1. Len(q) + i \in 1 .. Len(q) + Len(r) /\ ~(Len(q) + i <= Len(q)) /\ Len(q) + i - Len(q) = i
      BY <1>1
    <2> QED
      BY <1>2, <1>3, <2>1
  <1>5. ASSUME NEW i \in DOMAIN (q \o r), i \notin DOMAIN q
        PROVE  i - Len(q) \in DOMAIN r /\ (q \o r)[i] = r[i - Len(q)]
    BY <1>1, <1>2, <1>3, <1>5
  <1>6. \A i \in DOMAIN q : i \in DOMAIN (q \o r) /\ (q \o r)[i] = q[i]
    BY <1>1, <1>2, <1>3
  <1> QED
    BY <1>1, <1>2, <1>3, <1>4, <1>5, <1>6

\* One element makes a queue.
LEMMA Single ==
  ASSUME NEW S, NEW s \in S
  PROVE  <<s>> \in Seq(S) /\ Len(<<s>>) = 1 /\ DOMAIN <<s>> = {1} /\ <<s>>[1] = s
  OBVIOUS

-----------------------------------------------------------------------------
(* Cells. *)

\* A cell of m that is well typed and, on problematic firmware, valid only if
\* it is complete or its heuristics are still to run.
Sound(m, c) ==
  c \in Cell /\ (m \in problematic /\ c.type = "umts" /\ c.valid /\ ~c.due => Complete(c))

\* What a cell shows, of m.
Shows(m, c) == {c.type, c.id} \subseteq seen[m] \union Unknown

\* The fields of a cell.
LEMMA CellFields ==
  ASSUME NEW c \in Cell
  PROVE  /\ c.type \in {"none", "unknown"} \union Technologies
         /\ c.id \in CellIds \union {"none", "junk"}
         /\ c.strength \in BOOLEAN /\ c.valid \in BOOLEAN
         /\ c.timer \in BOOLEAN /\ c.late \in BOOLEAN /\ c.due \in BOOLEAN
  BY DEF Cell

\* The heuristics make a sound cell of any.
LEMMA HeuristicsSound ==
  ASSUME NEW m \in Modems, NEW c \in Cell
  PROVE  LET d == CellChangeHeuristics(m, c) IN
         /\ Sound(m, d)
         /\ d.type = c.type /\ d.id = c.id
  <1> DEFINE d == [c EXCEPT !.timer = TRUE, !.valid = Complete(c)]
  <1>1. CASE m \in problematic /\ c.type = "umts"
    <2>1. Complete(c) \in BOOLEAN
      BY CellFields DEF Complete
    <2>2. d \in Cell /\ d.type = c.type /\ d.id = c.id /\ d.strength = c.strength
          /\ d.valid = Complete(c)
      BY <2>1 DEF Cell
    <2>3. CellChangeHeuristics(m, c) = d
      BY <1>1 DEF CellChangeHeuristics
    <2> QED
      BY <2>2, <2>3 DEF Sound, Complete
  <1>2. CASE ~(m \in problematic /\ c.type = "umts")
    BY <1>2 DEF CellChangeHeuristics, Sound
  <1> QED
    BY <1>1, <1>2

\* So does a change that has been told of: its heuristics are still to run.
LEMMA ChangedSound ==
  ASSUME NEW m \in Modems, NEW c \in Cell
  PROVE  LET d == Changed(m, c) IN
         /\ Sound(m, d)
         /\ d.type = c.type /\ d.id = c.id
  <1>1. CASE m \in problematic /\ c.type = "umts"
    <2> DEFINE d == [c EXCEPT !.due = TRUE]
    <2>1. d \in Cell /\ d.type = c.type /\ d.id = c.id /\ d.due = TRUE
      BY DEF Cell
    <2>2. Changed(m, c) = d
      BY <1>1 DEF Changed
    <2> QED
      BY <2>1, <2>2 DEF Sound
  <1>2. CASE ~(m \in problematic /\ c.type = "umts")
    <2> DEFINE d == [c EXCEPT !.due = FALSE]
    <2>1. d \in Cell /\ d.type = c.type /\ d.id = c.id
      BY DEF Cell
    <2>2. Changed(m, c) = d
      BY <1>2 DEF Changed
    <2> QED
      BY <1>2, <2>1, <2>2 DEF Sound
  <1> QED
    BY <1>1, <1>2

\* The cells that are made are sound, and show what oFono answers.
LEMMA NewCellsSound ==
  ASSUME TypeOK, NEW m \in Modems, NEW c \in NewCells(m)
  PROVE  /\ Sound(m, c)
         /\ c.type # "none"
         /\ AnswersAreSeen => Shows(m, c)
  <1> USE RadioAssumption
  <1>1. net[m] \in Net /\ net[m].tech \in Unregistered \union Technologies
        /\ net[m].id \in CellIds \union {"none"}
    BY DEF TypeOK, Net
  <1>2. CASE Registered(m)
    <2> DEFINE d == [type |-> net[m].tech, id |-> net[m].id, strength |-> TRUE,
                     valid |-> TRUE, timer |-> FALSE, late |-> FALSE, due |-> FALSE]
    <2>1. d \in Cell /\ d.type = net[m].tech /\ d.id = net[m].id
      BY <1>1, <1>2 DEF Cell, Registered
    <2>2. c = CellChangeHeuristics(m, d)
      BY <1>2 DEF NewCells
    <2> HIDE DEF d
    <2>3. Sound(m, c) /\ c.type = net[m].tech /\ c.id = net[m].id
      BY <2>1, <2>2, HeuristicsSound
    <2>4. net[m].tech \in Technologies
      BY <1>2 DEF Registered
    <2>5. {net[m].tech, net[m].id} \cap Unregistered = {}
      BY <1>1, <2>4 DEF Unregistered
    <2>6. net[m].tech # "none"
      BY <2>4
    <2> QED
      BY <2>3, <2>5, <2>6 DEF AnswersAreSeen, Shows, Unknown
  <1>3. CASE ~Registered(m)
    <2>1. PICK i \in {"none", "junk"} :
            c = [type |-> "unknown", id |-> i, strength |-> (i = "junk"),
                 valid |-> TRUE, timer |-> FALSE, late |-> FALSE, due |-> FALSE]
      BY <1>3 DEF NewCells
    <2>2. c.type = "unknown" /\ c.id = i
      BY <2>1
    <2>3. c \in Cell
      BY <2>1 DEF Cell
    <2> QED
      BY <2>2, <2>3 DEF Sound, Shows, Unknown
  <1> QED
    BY <1>2, <1>3

\* A signal of the technology makes a sound cell of a sound one, and shows no more.
LEMMA TechnologySound ==
  ASSUME NEW m \in Modems, NEW c, Sound(m, c), NEW t \in Technologies
  PROVE  LET d == WithTechnology(m, c, t) IN
         /\ Sound(m, d)
         /\ d.type = "none" <=> c.type = "none"
         /\ d.type \in {c.type, t} /\ d.id \in {c.id, "none"}
  <1> USE RadioAssumption
  <1>1. c \in Cell
    BY DEF Sound
  <1>2. CASE c.type \in {t, "none"}
    BY <1>2 DEF WithTechnology
  <1>3. CASE c.type \notin {t, "none"} /\ c.type = "unknown"
    <2> DEFINE e == [c EXCEPT !.type = t]
    <2>1. e \in Cell /\ e.type = t /\ e.id = c.id
      BY <1>1 DEF Cell
    <2>2. WithTechnology(m, c, t) = Changed(m, e)
      BY <1>3 DEF WithTechnology
    <2> HIDE DEF e
    <2> QED
      BY <1>3, <2>1, <2>2, ChangedSound
  <1>4. CASE c.type \notin {t, "none"} /\ c.type # "unknown"
    <2> DEFINE e == [c EXCEPT !.type = t, !.id = "none", !.strength = FALSE]
    <2>1. e \in Cell /\ e.type = t /\ e.id = "none"
      BY <1>1 DEF Cell
    <2>2. WithTechnology(m, c, t) = Changed(m, e)
      BY <1>4 DEF WithTechnology
    <2> HIDE DEF e
    <2> QED
      BY <1>4, <2>1, <2>2, ChangedSound
  <1> QED
    BY <1>2, <1>3, <1>4

\* So does one of the identity.
LEMMA IdSound ==
  ASSUME NEW m \in Modems, NEW c, Sound(m, c), NEW i \in CellIds
  PROVE  LET d == WithId(m, c, i) IN
         Sound(m, d) /\ d.type = c.type /\ d.id \in {c.id, i}
  <1>1. c \in Cell
    BY DEF Sound
  <1>2. CASE c.type \in {"none", "unknown"}
    BY <1>2 DEF WithId
  <1>3. CASE c.type \notin {"none", "unknown"}
    <2> DEFINE e == [c EXCEPT !.id = i]
    <2>1. e \in Cell /\ e.type = c.type /\ e.id = i
      BY <1>1 DEF Cell
    <2>2. WithId(m, c, i) = Changed(m, e)
      BY <1>3 DEF WithId
    <2> HIDE DEF e
    <2> QED
      BY <2>1, <2>2, ChangedSound
  <1> QED
    BY <1>2, <1>3

\* One of the strength changes what no cell is told apart by.
LEMMA StrengthSound ==
  ASSUME NEW m \in Modems, NEW c, Sound(m, c)
  PROVE  LET d == WithStrength(m, c) IN
         Sound(m, d) /\ d.type = c.type /\ d.id = c.id
  <1> DEFINE d == [c EXCEPT !.strength = TRUE]
  <1>1. d \in Cell /\ d.type = c.type /\ d.id = c.id /\ d.valid = c.valid /\ d.due = c.due
       /\ d.strength = TRUE
    BY DEF Sound, Cell
  <1>2. WithStrength(m, c) \in {c, d}
    BY DEF WithStrength
  <1> QED
    BY <1>1, <1>2 DEF Sound, Complete

\* So do the deadline that passes, and its handler.
LEMMA TimerSound ==
  ASSUME NEW m \in Modems, NEW c, Sound(m, c)
  PROVE  LET d == [c EXCEPT !.timer = FALSE, !.late = TRUE]
             e == [c EXCEPT !.valid = FALSE, !.late = FALSE]
         IN
         /\ Sound(m, d) /\ d.type = c.type /\ d.id = c.id
         /\ Sound(m, e) /\ e.type = c.type /\ e.id = c.id
  <1> DEFINE d == [c EXCEPT !.timer = FALSE, !.late = TRUE]
             e == [c EXCEPT !.valid = FALSE, !.late = FALSE]
  <1>1. d \in Cell /\ d.type = c.type /\ d.id = c.id /\ d.valid = c.valid /\ d.due = c.due
       /\ d.strength = c.strength
    BY DEF Sound, Cell
  <1>2. e \in Cell /\ e.type = c.type /\ e.id = c.id /\ e.valid = FALSE
    BY DEF Sound, Cell
  <1> HIDE DEF d, e
  <1>3. Sound(m, d) /\ Sound(m, e)
    BY <1>1, <1>2 DEF Sound, Complete
  <1> QED
    BY <1>1, <1>2, <1>3 DEF d, e

\* Where there is no cell, nothing is shown.
LEMMA NoCellSound ==
  ASSUME NEW m \in Modems
  PROVE  Sound(m, NoCell) /\ NoCell.type = "none" /\ Shows(m, NoCell)
  BY DEF Sound, NoCell, Cell, Shows, Unknown

-----------------------------------------------------------------------------
(* Signals, and the caches of the radio stack. *)

\* What a signal is about.
LEMMA SignalFields ==
  ASSUME NEW s \in Signal
  PROVE  /\ s.m \in Modems
         /\ s.op = "technology" => s.tech \in Technologies
         /\ s.op = "id" => s.id \in CellIds
         /\ s.op = "interfaces" => s \in Task
  BY DEF Signal, Task

\* What a task is about.
LEMMA TaskFields ==
  ASSUME NEW t \in Task
  PROVE  t.m \in Modems /\ [op |-> "create", m |-> t.m] \in Task
  BY DEF Task

\* One cell is replaced by a sound one.
LEMMA CellStep ==
  ASSUME RadioInv, NEW m \in Modems, NEW c, Sound(m, c), UpdateCell(m, c),
         UNCHANGED problematic
  PROVE  /\ cells' \in [Modems -> Cell]
         /\ ValidUmtsIsComplete'
         /\ cells'[m] = c
         /\ \A n \in Modems \ {m} : cells'[n] = cells[n]
  <1>1. cells \in [Modems -> Cell] /\ problematic \subseteq Modems
    BY DEF RadioInv, TypeOK
  <1>2. cells' = [cells EXCEPT ![m] = c] /\ c \in Cell
    BY DEF UpdateCell, Sound
  <1>3. cells'[m] = c /\ \A n \in Modems \ {m} : cells'[n] = cells[n]
    BY <1>1, <1>2
  <1>4. ValidUmtsIsComplete'
    <2> SUFFICES ASSUME NEW n \in problematic, cells'[n].type = "umts", cells'[n].valid, ~cells'[n].due
                 PROVE  Complete(cells[n])'
      BY DEF ValidUmtsIsComplete
    <2> SUFFICES Complete(cells'[n])
      BY DEF Complete
    <2>1. CASE n = m
      BY <1>3, <2>1 DEF Sound
    <2>2. CASE n # m
      BY <1>1, <1>3, <2>2 DEF RadioInv, ValidUmtsIsComplete
    <2> QED
      BY <2>1, <2>2
  <1> QED
    BY <1>1, <1>2, <1>3, <1>4

\* Every cached cell is sound.
LEMMA CachedCellSound ==
  ASSUME RadioInv, NEW m \in Modems
  PROVE  Sound(m, cells[m])
  BY DEF RadioInv, TypeOK, ValidUmtsIsComplete, Sound

\* A signal is handled: what was behind it is still behind the others.
LEMMA SignalTaken ==
  ASSUME RadioInv, signals # <<>>, signals' = Tail(signals), seen' = seen
  PROVE  /\ signals' \in Seq(Signal) /\ Head(signals) \in Signal
         /\ SignalsAreSeen'
         /\ \A m : GoesAfter(m, 0) =>
              GoesAfter(m, 0)' \/ (Head(signals).op = "removed" /\ Head(signals).m = m)
         /\ \A m : Head(signals).m = m /\ ~GoesAfter(m, 0)' =>
              /\ Head(signals).op = "technology" => Head(signals).tech \in seen[m]
              /\ Head(signals).op = "id" => Head(signals).id \in seen[m]
  <1>0. signals \in Seq(Signal)
    BY DEF RadioInv, TypeOK
  <1>1. /\ Tail(signals) \in Seq(Signal) /\ Head(signals) = signals[1] /\ signals[1] \in Signal
        /\ DOMAIN signals = 1 .. Len(signals) /\ Len(signals) \in Nat /\ 1 \in DOMAIN signals
        /\ DOMAIN signals' = 1 .. (Len(signals) - 1)
        /\ \A i \in DOMAIN signals' : i + 1 \in DOMAIN signals /\ signals'[i] = signals[i + 1]
        /\ \A i \in DOMAIN signals : i > 1 => i - 1 \in DOMAIN signals' /\ signals'[i - 1] = signals[i]
    BY <1>0, Taken
  <1>2. ASSUME NEW m, NEW i \in Nat, GoesAfter(m, i + 1)
        PROVE  GoesAfter(m, i)'
    <2>1. PICK j \in DOMAIN signals : j > i + 1 /\ signals[j].op = "removed" /\ signals[j].m = m
      BY <1>2 DEF GoesAfter
    <2>2. j - 1 \in DOMAIN signals' /\ signals'[j - 1] = signals[j] /\ j - 1 > i
      BY <1>1, <2>1
    <2> QED
      BY <2>1, <2>2 DEF GoesAfter
  <1>3. SignalsAreSeen'
    <2>1. ASSUME NEW i \in DOMAIN signals', NEW m, signals'[i].m = m, ~GoesAfter(m, i)'
          PROVE  /\ signals'[i].op = "technology" => signals'[i].tech \in seen[m]
                 /\ signals'[i].op = "id" => signals'[i].id \in seen[m]
      <3>1. i \in Nat /\ i + 1 \in DOMAIN signals /\ signals'[i] = signals[i + 1]
        BY <1>1
      <3>2. ~GoesAfter(m, i + 1)
        BY <1>2, <2>1, <3>1
      <3> QED
        BY <2>1, <3>1, <3>2 DEF RadioInv, SignalsAreSeen
    <2> QED
      BY <2>1 DEF SignalsAreSeen, GoesAfter
  <1>4. ASSUME NEW m, GoesAfter(m, 0), ~(signals[1].op = "removed" /\ signals[1].m = m)
        PROVE  GoesAfter(m, 0)'
    <2>1. PICK j \in DOMAIN signals : j > 0 /\ signals[j].op = "removed" /\ signals[j].m = m
      BY <1>4 DEF GoesAfter
    <2>2. j - 1 \in DOMAIN signals' /\ signals'[j - 1] = signals[j] /\ j - 1 > 0
      BY <1>1, <1>4, <2>1
    <2> QED
      BY <2>1, <2>2 DEF GoesAfter
  <1>5. ASSUME NEW m, signals[1].m = m, ~GoesAfter(m, 0)'
        PROVE  /\ signals[1].op = "technology" => signals[1].tech \in seen[m]
               /\ signals[1].op = "id" => signals[1].id \in seen[m]
    <2>1. ~GoesAfter(m, 1)
      BY <1>2, <1>5
    <2> QED
      BY <1>1, <1>5, <2>1 DEF RadioInv, SignalsAreSeen
  <1> QED
    BY <1>1, <1>3, <1>4, <1>5

\* One cell is replaced, and its modem is about to go or has what it shows.
LEMMA SeenStep ==
  ASSUME RadioInv, NEW m \in Modems, NEW c,
         cells'[m] = c, \A n \in Modems \ {m} : cells'[n] = cells[n],
         seen' = seen,
         \A n \in Modems \ {m} : GoesAfter(n, 0) => GoesAfter(n, 0)',
         GoesAfter(m, 0)' \/ Shows(m, c)
  PROVE  CellsAreSeen'
  <1> SUFFICES ASSUME NEW n \in Modems, ~GoesAfter(n, 0)'
               PROVE  {cells'[n].type, cells'[n].id} \subseteq seen'[n] \union Unknown
    BY DEF CellsAreSeen, Unknown
  <1>1. CASE n = m
    BY <1>1 DEF Shows
  <1>2. CASE n # m
    BY <1>2 DEF RadioInv, CellsAreSeen
  <1> QED
    BY <1>1, <1>2

\* Nothing changes that the environment is asked for.
LEMMA AnswersStay ==
  ASSUME RadioInv, UNCHANGED <<net, seen>>
  PROVE  AnswersAreSeen'
  BY DEF RadioInv, AnswersAreSeen, Unregistered

\* Nothing is sent or handled.
LEMMA SignalsStay ==
  ASSUME RadioInv, UNCHANGED <<signals, seen>>
  PROVE  /\ signals' \in Seq(Signal) /\ SignalsAreSeen'
         /\ \A m, i : GoesAfter(m, i) <=> GoesAfter(m, i)'
  BY DEF RadioInv, TypeOK, SignalsAreSeen, GoesAfter

\* HandleTechnology, HandleId and HandleStrength: the signals that reach a cell.
LEMMA CellSignalInv ==
  ASSUME RadioInv, HandleTechnology \/ HandleId \/ HandleStrength
  PROVE  RadioInv'
  <1> USE DEF envVars, setupVars
  <1>1. signals # <<>> /\ signals' = Tail(signals) /\ UNCHANGED <<envVars, setupVars, tasks, modems>>
    BY DEF HandleTechnology, HandleId, HandleStrength, Handles
  <1>2. PICK s : s = Head(signals) /\ s \in Signal
    BY <1>1, SignalTaken
  <1>3. PICK m : m = s.m /\ m \in Modems
    BY <1>2, SignalFields
  <1>4. PICK k : k = cells[m] /\ Sound(m, k)
    BY <1>3, CachedCellSound
  <1>5. \E c : /\ UpdateCell(m, c) /\ Sound(m, c)
               /\ c.type = "none" <=> k.type = "none"
               /\ GoesAfter(m, 0)' \/ Shows(m, k) => GoesAfter(m, 0)' \/ Shows(m, c)
    <2>1. CASE HandleTechnology
      <3>1. s.op = "technology" /\ s.tech \in Technologies /\ UpdateCell(m, WithTechnology(m, k, s.tech))
        BY <1>2, <1>3, <1>4, <2>1, SignalFields DEF HandleTechnology, Handles
      <3>2. ~GoesAfter(m, 0)' => s.tech \in seen[m]
        BY <1>1, <1>2, <1>3, <3>1, SignalTaken
      <3>3. PICK c : c = WithTechnology(m, k, s.tech)
        OBVIOUS
      <3>4. /\ Sound(m, c) /\ (c.type = "none" <=> k.type = "none")
            /\ c.type \in {k.type, s.tech} /\ c.id \in {k.id, "none"}
        BY <1>3, <1>4, <3>1, <3>3, TechnologySound
      <3>5. s.tech \in seen[m] /\ Shows(m, k) => Shows(m, c)
        BY <3>4 DEF Shows, Unknown
      <3> QED
        BY <3>1, <3>2, <3>3, <3>4, <3>5
    <2>2. CASE HandleId
      <3>1. s.op = "id" /\ s.id \in CellIds /\ UpdateCell(m, WithId(m, k, s.id))
        BY <1>2, <1>3, <1>4, <2>2, SignalFields DEF HandleId, Handles
      <3>2. ~GoesAfter(m, 0)' => s.id \in seen[m]
        BY <1>1, <1>2, <1>3, <3>1, SignalTaken
      <3>3. PICK c : c = WithId(m, k, s.id)
        OBVIOUS
      <3>4. Sound(m, c) /\ c.type = k.type /\ c.id \in {k.id, s.id}
        BY <1>3, <1>4, <3>1, <3>3, IdSound
      <3>5. s.id \in seen[m] /\ Shows(m, k) => Shows(m, c)
        BY <3>4 DEF Shows, Unknown
      <3> QED
        BY <3>1, <3>2, <3>3, <3>4, <3>5
    <2>3. CASE HandleStrength
      <3>1. UpdateCell(m, WithStrength(m, k))
        BY <1>2, <1>3, <1>4, <2>3 DEF HandleStrength, Handles
      <3>2. PICK c : c = WithStrength(m, k)
        OBVIOUS
      <3>3. Sound(m, c) /\ c.type = k.type /\ c.id = k.id
        BY <1>3, <1>4, <3>2, StrengthSound
      <3> QED
        BY <3>1, <3>2, <3>3 DEF Shows
    <2> QED
      BY <2>1, <2>2, <2>3
  <1>6. PICK c : /\ UpdateCell(m, c) /\ Sound(m, c)
                 /\ c.type = "none" <=> k.type = "none"
                 /\ GoesAfter(m, 0)' \/ Shows(m, k) => GoesAfter(m, 0)' \/ Shows(m, c)
    BY <1>5
  <1>7. /\ cells' \in [Modems -> Cell] /\ ValidUmtsIsComplete'
        /\ cells'[m] = c /\ \A n \in Modems \ {m} : cells'[n] = cells[n]
    BY <1>1, <1>3, <1>6, CellStep
  <1>8. CellsHaveModems'
    <2> SUFFICES ASSUME NEW n \in Modems, cells'[n].type # "none"
                 PROVE  n \in modems
      BY <1>1 DEF CellsHaveModems, HasCell
    <2>1. cells[n].type # "none"
      BY <1>4, <1>6, <1>7
    <2> QED
      BY <2>1 DEF RadioInv, CellsHaveModems, HasCell
  <1>9. \A n : GoesAfter(n, 0) => GoesAfter(n, 0)'
    <2>1. Head(signals).op # "removed"
      BY DEF HandleTechnology, HandleId, HandleStrength, Handles
    <2> QED
      BY <1>1, <2>1, SignalTaken
  <1>10. GoesAfter(m, 0)' \/ Shows(m, k)
    BY <1>3, <1>4, <1>9 DEF RadioInv, CellsAreSeen, Shows
  <1>11. CellsAreSeen'
    BY <1>1, <1>3, <1>6, <1>7, <1>9, <1>10, SeenStep
  <1>12. signals' \in Seq(Signal) /\ SignalsAreSeen' /\ AnswersAreSeen'
    BY <1>1, SignalTaken, AnswersStay
  <1>13. TypeOK'
    BY <1>1, <1>7, <1>12 DEF RadioInv, TypeOK
  <1> QED
    BY <1>7, <1>8, <1>11, <1>12, <1>13 DEF RadioInv

\* TimerExpires, Invalidate and RunHeuristics: a cell by itself.
LEMMA TimerInv ==
  ASSUME RadioInv, NEW m \in Modems, TimerExpires(m) \/ Invalidate(m) \/ RunHeuristics(m)
  PROVE  RadioInv'
  <1> USE DEF envVars, setupVars, queueVars
  <1>1. UNCHANGED <<envVars, setupVars, queueVars, modems>>
    BY DEF TimerExpires, Invalidate, RunHeuristics
  <1>2. PICK k : k = cells[m] /\ Sound(m, k)
    BY CachedCellSound
  <1>3. PICK c : UpdateCell(m, c) /\ Sound(m, c) /\ c.type = k.type /\ c.id = k.id
    <2> DEFINE e == [k EXCEPT !.due = FALSE]
    <2>1. PICK c : /\ UpdateCell(m, c)
                   /\ \/ c = [k EXCEPT !.timer = FALSE, !.late = TRUE]
                      \/ c = [k EXCEPT !.valid = FALSE, !.late = FALSE]
                      \/ c = CellChangeHeuristics(m, e)
      BY <1>2 DEF TimerExpires, Invalidate, RunHeuristics
    <2> DEFINE Fine(d) == Sound(m, d) /\ d.type = k.type /\ d.id = k.id
    <2>4. e \in Cell /\ e.type = k.type /\ e.id = k.id
      BY <1>2 DEF Sound, Cell
    <2> HIDE DEF e
    <2>2. /\ Fine([k EXCEPT !.timer = FALSE, !.late = TRUE])
          /\ Fine([k EXCEPT !.valid = FALSE, !.late = FALSE])
          /\ Fine(CellChangeHeuristics(m, e))
      <3>1. Fine(CellChangeHeuristics(m, e))
        BY <2>4, HeuristicsSound
      <3> QED
        BY <1>2, <3>1, TimerSound, Zenon
    <2>3. Fine(c)
      <3> HIDE DEF Fine
      <3> QED
        BY <2>1, <2>2
    <2> QED
      BY <2>1, <2>3
  <1>4. /\ cells' \in [Modems -> Cell] /\ ValidUmtsIsComplete'
        /\ cells'[m] = c /\ \A n \in Modems \ {m} : cells'[n] = cells[n]
    BY <1>1, <1>3, CellStep
  <1>5. CellsHaveModems'
    <2> SUFFICES ASSUME NEW n \in Modems, cells'[n].type # "none"
                 PROVE  n \in modems
      BY <1>1 DEF CellsHaveModems, HasCell
    <2>1. cells[n].type # "none"
      BY <1>2, <1>3, <1>4
    <2> QED
      BY <2>1 DEF RadioInv, CellsHaveModems, HasCell
  <1>6. /\ signals' \in Seq(Signal) /\ SignalsAreSeen' /\ AnswersAreSeen'
        /\ \A n, i : GoesAfter(n, i) <=> GoesAfter(n, i)'
    BY <1>1, SignalsStay, AnswersStay
  <1>7. GoesAfter(m, 0)' \/ Shows(m, c)
    BY <1>2, <1>3, <1>6 DEF RadioInv, CellsAreSeen, Shows
  <1>8. CellsAreSeen'
    BY <1>1, <1>3, <1>4, <1>6, <1>7, SeenStep
  <1>9. TypeOK'
    BY <1>1, <1>4, <1>6 DEF RadioInv, TypeOK
  <1> QED
    BY <1>4, <1>5, <1>6, <1>8, <1>9 DEF RadioInv

\* What on_modem_added() does to the caches.
LEMMA ModemAdded ==
  ASSUME RadioInv, NEW m \in Modems, OnModemAdded(m), UNCHANGED <<envVars>>,
         \A n : GoesAfter(n, 0) => GoesAfter(n, 0)'
  PROVE  /\ cells' \in [Modems -> Cell] /\ modems' \subseteq Modems
         /\ ValidUmtsIsComplete' /\ CellsHaveModems' /\ CellsAreSeen'
  <1> USE DEF envVars
  <1>1. CASE UNCHANGED cacheVars
    <2>1. ValidUmtsIsComplete' /\ CellsHaveModems'
      BY <1>1 DEF RadioInv, ValidUmtsIsComplete, CellsHaveModems, HasCell, cacheVars, Complete
    <2>2. CellsAreSeen'
      BY <1>1 DEF RadioInv, CellsAreSeen, Unknown, cacheVars
    <2> QED
      BY <1>1, <2>1, <2>2 DEF RadioInv, TypeOK, cacheVars
  <1>2. CASE modems' = modems \union {m} /\ UNCHANGED cells
    <2>1. ValidUmtsIsComplete' /\ CellsHaveModems'
      BY <1>2 DEF RadioInv, ValidUmtsIsComplete, CellsHaveModems, HasCell, Complete
    <2>2. CellsAreSeen'
      BY <1>2 DEF RadioInv, CellsAreSeen, Unknown
    <2> QED
      BY <1>2, <2>1, <2>2 DEF RadioInv, TypeOK
  <1>3. CASE modems' = modems \union {m} /\ \E c \in NewCells(m) : UpdateCell(m, c)
    <2>1. PICK c \in NewCells(m) : UpdateCell(m, c)
      BY <1>3
    <2>2. Sound(m, c) /\ Shows(m, c)
      BY NewCellsSound DEF RadioInv
    <2>3. /\ cells' \in [Modems -> Cell] /\ ValidUmtsIsComplete'
          /\ cells'[m] = c /\ \A n \in Modems \ {m} : cells'[n] = cells[n]
      BY <2>1, <2>2, CellStep
    <2>4. CellsHaveModems'
      BY <1>3, <2>3 DEF RadioInv, CellsHaveModems, HasCell
    <2>5. CellsAreSeen'
      BY <2>2, <2>3, SeenStep
    <2> QED
      BY <1>3, <2>3, <2>4, <2>5 DEF RadioInv, TypeOK
  <1> QED
    BY <1>1, <1>2, <1>3 DEF OnModemAdded

\* HandleAdded: a modem is added by a signal.
LEMMA AddedInv ==
  ASSUME RadioInv, HandleAdded
  PROVE  RadioInv'
  <1>1. signals # <<>> /\ signals' = Tail(signals) /\ UNCHANGED <<envVars, setupVars, tasks>>
    BY DEF HandleAdded, Handles
  <1>2. PICK m \in Modems : OnModemAdded(m)
    BY <1>1, SignalTaken, SignalFields DEF HandleAdded, Handles, envVars
  <1>3. /\ signals' \in Seq(Signal) /\ SignalsAreSeen' /\ AnswersAreSeen'
        /\ \A n : GoesAfter(n, 0) => GoesAfter(n, 0)'
    BY <1>1, SignalTaken, AnswersStay DEF HandleAdded, Handles, envVars
  <1>4. /\ cells' \in [Modems -> Cell] /\ modems' \subseteq Modems
        /\ ValidUmtsIsComplete' /\ CellsHaveModems' /\ CellsAreSeen'
    BY <1>1, <1>2, <1>3, ModemAdded
  <1>5. TypeOK'
    BY <1>1, <1>3, <1>4 DEF RadioInv, TypeOK, envVars, setupVars
  <1> QED
    BY <1>3, <1>4, <1>5 DEF RadioInv

\* Visit: one is added by the set-up.
LEMMA VisitInv ==
  ASSUME RadioInv, NEW m \in Modems, Visit(m)
  PROVE  RadioInv'
  <1> USE DEF envVars, queueVars
  <1>1. OnModemAdded(m) /\ found' = found \ {m} /\ UNCHANGED <<envVars, phase, queueVars>>
    BY DEF Visit
  <1>2. /\ signals' \in Seq(Signal) /\ SignalsAreSeen' /\ AnswersAreSeen'
        /\ \A n : GoesAfter(n, 0) => GoesAfter(n, 0)'
    BY <1>1, SignalsStay, AnswersStay
  <1>3. /\ cells' \in [Modems -> Cell] /\ modems' \subseteq Modems
        /\ ValidUmtsIsComplete' /\ CellsHaveModems' /\ CellsAreSeen'
    BY <1>1, <1>2, ModemAdded
  <1>4. TypeOK'
    BY <1>1, <1>2, <1>3 DEF RadioInv, TypeOK
  <1> QED
    BY <1>2, <1>3, <1>4 DEF RadioInv

\* A cell goes, with its modem or without.
LEMMA CellGone ==
  ASSUME RadioInv, NEW m \in Modems, UpdateCell(m, NoCell), UNCHANGED envVars,
         modems' = modems \/ modems' = modems \ {m},
         \A n \in Modems \ {m} : GoesAfter(n, 0) => GoesAfter(n, 0)'
  PROVE  /\ cells' \in [Modems -> Cell] /\ modems' \subseteq Modems
         /\ ValidUmtsIsComplete' /\ CellsHaveModems' /\ CellsAreSeen'
  <1> USE DEF envVars
  <1>1. Sound(m, NoCell) /\ NoCell.type = "none" /\ Shows(m, NoCell)
    BY NoCellSound
  <1>2. /\ cells' \in [Modems -> Cell] /\ ValidUmtsIsComplete'
        /\ cells'[m] = NoCell /\ \A n \in Modems \ {m} : cells'[n] = cells[n]
    BY <1>1, CellStep
  <1>3. CellsHaveModems'
    BY <1>1, <1>2 DEF RadioInv, CellsHaveModems, HasCell
  <1>4. CellsAreSeen'
    BY <1>1, <1>2, SeenStep
  <1> QED
    BY <1>2, <1>3, <1>4 DEF RadioInv, TypeOK

\* The caches stay as they are.
LEMMA CachesStay ==
  ASSUME RadioInv, UNCHANGED <<problematic, seen, cacheVars>>,
         \A n : GoesAfter(n, 0) => GoesAfter(n, 0)'
  PROVE  /\ cells' \in [Modems -> Cell] /\ modems' \subseteq Modems
         /\ ValidUmtsIsComplete' /\ CellsHaveModems' /\ CellsAreSeen'
  <1> USE DEF cacheVars
  <1>1. ValidUmtsIsComplete' /\ CellsHaveModems'
    BY DEF RadioInv, ValidUmtsIsComplete, CellsHaveModems, HasCell, Complete
  <1>2. CellsAreSeen'
    BY DEF RadioInv, CellsAreSeen, Unknown
  <1> QED
    BY <1>1, <1>2 DEF RadioInv, TypeOK

\* HandleRemoved: it goes, and so does what forgave its cell.
LEMMA RemovedInv ==
  ASSUME RadioInv, HandleRemoved
  PROVE  RadioInv'
  <1>1. /\ signals # <<>> /\ signals' = Tail(signals) /\ UNCHANGED <<envVars, setupVars, tasks>>
        /\ UNCHANGED <<net, seen>>
    BY DEF HandleRemoved, Handles, envVars
  <1>2. PICK m \in Modems : m = Head(signals).m /\ OnModemRemoved(m)
    BY <1>1, SignalTaken, SignalFields DEF HandleRemoved, Handles
  <1>3. /\ signals' \in Seq(Signal) /\ SignalsAreSeen'
        /\ \A n \in Modems \ {m} : GoesAfter(n, 0) => GoesAfter(n, 0)'
    BY <1>1, <1>2, SignalTaken
  <1>4. AnswersAreSeen'
    BY <1>1, AnswersStay
  <1>5. /\ cells' \in [Modems -> Cell] /\ modems' \subseteq Modems
        /\ ValidUmtsIsComplete' /\ CellsHaveModems' /\ CellsAreSeen'
    BY <1>1, <1>2, <1>3, CellGone DEF OnModemRemoved
  <1>6. TypeOK'
    BY <1>1, <1>3, <1>5 DEF RadioInv, TypeOK, envVars, setupVars
  <1> QED
    BY <1>3, <1>4, <1>5, <1>6 DEF RadioInv

\* HandleInterfaces: the signal becomes a task.
LEMMA InterfacesInv ==
  ASSUME RadioInv, HandleInterfaces
  PROVE  RadioInv'
  <1>1. /\ signals # <<>> /\ signals' = Tail(signals) /\ UNCHANGED <<envVars, setupVars, cacheVars>>
        /\ UNCHANGED <<net, problematic, seen>> /\ Head(signals).op = "interfaces"
    BY DEF HandleInterfaces, Handles, envVars
  <1>2. /\ signals' \in Seq(Signal) /\ SignalsAreSeen' /\ Head(signals) \in Signal
        /\ \A n : GoesAfter(n, 0) => GoesAfter(n, 0)'
    BY <1>1, SignalTaken
  <1>3. AnswersAreSeen'
    BY <1>1, AnswersStay
  <1>4. /\ cells' \in [Modems -> Cell] /\ modems' \subseteq Modems
        /\ ValidUmtsIsComplete' /\ CellsHaveModems' /\ CellsAreSeen'
    BY <1>1, <1>2, CachesStay
  <1>5. Head(signals) \in Task
    BY <1>1, <1>2, SignalFields
  <1>6. tasks' = tasks \/ tasks' = Append(tasks, Head(signals))
    BY DEF HandleInterfaces, Handles, Post
  <1>7. tasks' \in Seq(Task)
    <2>1. tasks \in Seq(Task)
      BY DEF RadioInv, TypeOK
    <2>2. Append(tasks, Head(signals)) \in Seq(Task)
      BY <1>5, <2>1, Added
    <2> QED
      BY <1>6, <2>1, <2>2
  <1>8. TypeOK'
    BY <1>1, <1>2, <1>4, <1>7 DEF RadioInv, TypeOK, envVars, setupVars
  <1> QED
    BY <1>2, <1>3, <1>4, <1>8 DEF RadioInv

\* OnInterfacesChanged: the cell goes, or a task is posted to make one.
LEMMA InterfacesChangedInv ==
  ASSUME RadioInv, OnInterfacesChanged
  PROVE  RadioInv'
  <1>1. /\ tasks # <<>> /\ UNCHANGED <<envVars, setupVars, signals, modems>>
        /\ UNCHANGED <<net, problematic, seen, signals>>
    BY DEF OnInterfacesChanged, envVars
  <1>2. Tail(tasks) \in Seq(Task) /\ Head(tasks) \in Task
    BY <1>1, Taken DEF RadioInv, TypeOK
  <1>3. PICK m \in Modems : m = Head(tasks).m /\ [op |-> "create", m |-> m] \in Task
    BY <1>2, TaskFields
  <1>4. \/ UpdateCell(m, NoCell) /\ tasks' = Tail(tasks)
        \/ tasks' = Append(Tail(tasks), [op |-> "create", m |-> m]) /\ UNCHANGED cells
        \/ tasks' = Tail(tasks) /\ UNCHANGED cells
    BY <1>3 DEF OnInterfacesChanged
  <1>5. tasks' \in Seq(Task)
    <2>1. Append(Tail(tasks), [op |-> "create", m |-> m]) \in Seq(Task)
      BY <1>2, <1>3, Added
    <2> QED
      BY <1>2, <1>4, <2>1
  <1>6. /\ signals' \in Seq(Signal) /\ SignalsAreSeen' /\ AnswersAreSeen'
        /\ \A n : GoesAfter(n, 0) => GoesAfter(n, 0)'
    BY <1>1, SignalsStay, AnswersStay
  <1>7. /\ cells' \in [Modems -> Cell] /\ modems' \subseteq Modems
        /\ ValidUmtsIsComplete' /\ CellsHaveModems' /\ CellsAreSeen'
    <2>1. CASE UpdateCell(m, NoCell)
      BY <1>1, <1>6, <2>1, CellGone
    <2>2. CASE UNCHANGED cells
      BY <1>1, <1>6, <2>2, CachesStay DEF cacheVars
    <2> QED
      BY <1>4, <2>1, <2>2
  <1>8. TypeOK'
    BY <1>1, <1>5, <1>6, <1>7 DEF RadioInv, TypeOK, envVars, setupVars
  <1> QED
    BY <1>6, <1>7, <1>8 DEF RadioInv

\* CreateCell: a cell is made only for a modem that is looked for again.
LEMMA CreateInv ==
  ASSUME RadioInv, CreateCell
  PROVE  RadioInv'
  <1>1. /\ tasks # <<>> /\ tasks' = Tail(tasks) /\ UNCHANGED <<envVars, setupVars, signals, modems>>
        /\ UNCHANGED <<net, problematic, seen, signals>>
    BY DEF CreateCell, envVars
  <1>2. Tail(tasks) \in Seq(Task) /\ Head(tasks) \in Task
    BY <1>1, Taken DEF RadioInv, TypeOK
  <1>3. PICK m \in Modems : m = Head(tasks).m
    BY <1>2, TaskFields
  <1>4. UNCHANGED cells \/ (m \in modems /\ \E c \in NewCells(m) : UpdateCell(m, c))
    BY <1>3 DEF CreateCell
  <1>5. /\ signals' \in Seq(Signal) /\ SignalsAreSeen' /\ AnswersAreSeen'
        /\ \A n : GoesAfter(n, 0) => GoesAfter(n, 0)'
    BY <1>1, SignalsStay, AnswersStay
  <1>6. /\ cells' \in [Modems -> Cell] /\ modems' \subseteq Modems
        /\ ValidUmtsIsComplete' /\ CellsHaveModems' /\ CellsAreSeen'
    <2>1. CASE UNCHANGED cells
      BY <1>1, <1>5, <2>1, CachesStay DEF cacheVars
    <2>2. CASE m \in modems /\ \E c \in NewCells(m) : UpdateCell(m, c)
      <3>1. PICK c \in NewCells(m) : UpdateCell(m, c)
        BY <2>2
      <3>2. Sound(m, c) /\ Shows(m, c)
        BY NewCellsSound DEF RadioInv
      <3>3. /\ cells' \in [Modems -> Cell] /\ ValidUmtsIsComplete'
            /\ cells'[m] = c /\ \A n \in Modems \ {m} : cells'[n] = cells[n]
        BY <1>1, <3>1, <3>2, CellStep
      <3>4. CellsHaveModems'
        BY <1>1, <2>2, <3>3 DEF RadioInv, CellsHaveModems, HasCell
      <3>5. CellsAreSeen'
        BY <1>1, <1>5, <3>2, <3>3, SeenStep
      <3> QED
        BY <1>1, <3>3, <3>4, <3>5 DEF RadioInv, TypeOK
    <2> QED
      BY <1>4, <2>1, <2>2
  <1>7. TypeOK'
    BY <1>1, <1>2, <1>5, <1>6 DEF RadioInv, TypeOK, envVars, setupVars
  <1> QED
    BY <1>5, <1>6, <1>7 DEF RadioInv

\* The steps of the set-up that touch no cache, and steps of nothing.
LEMMA SetupInv ==
  ASSUME RadioInv,
         \/ Enumerate \/ Connect \/ OfonoIsAbsent \/ WatchOfono \/ OfonoRegisters
         \/ UNCHANGED vars
  PROVE  RadioInv'
  <1>1. /\ UNCHANGED <<net, problematic, seen, signals, tasks>> /\ UNCHANGED cacheVars
        /\ phase' \in Phases /\ found' \subseteq Modems
    BY DEF RadioInv, TypeOK, Phases, There, Enumerate, Connect, OfonoIsAbsent, WatchOfono,
           OfonoRegisters, vars, envVars, queueVars, setupVars
  <1>2. /\ signals' \in Seq(Signal) /\ SignalsAreSeen' /\ AnswersAreSeen'
        /\ \A n : GoesAfter(n, 0) => GoesAfter(n, 0)'
    BY <1>1, SignalsStay, AnswersStay
  <1>3. /\ cells' \in [Modems -> Cell] /\ modems' \subseteq Modems
        /\ ValidUmtsIsComplete' /\ CellsHaveModems' /\ CellsAreSeen'
    BY <1>1, <1>2, CachesStay
  <1>4. TypeOK'
    BY <1>1, <1>2, <1>3 DEF RadioInv, TypeOK
  <1> QED
    BY <1>2, <1>3, <1>4 DEF RadioInv

-----------------------------------------------------------------------------
(* What oFono does. *)

\* A change of one modem sends signals of that modem which say what it has
\* now; if it went they say that, too.
Says(m, n, ss) ==
  /\ n \in Net /\ ss \in Seq(Signal)
  /\ \A i \in DOMAIN ss :
       /\ ss[i].m = m
       /\ ss[i].op = "technology" => ss[i].tech = n.tech
       /\ ss[i].op = "id" => ss[i].id = n.id
  /\ n.tech = "absent" => n.id = "none" /\ ss = <<[op |-> "removed", m |-> m]>>

\* Signals are sent: what was behind the others still is.
LEMMA SignalsSent ==
  ASSUME RadioInv, NEW ss \in Seq(Signal), Sends(ss)
  PROVE  /\ signals' \in Seq(Signal)
         /\ DOMAIN signals \subseteq DOMAIN signals'
         /\ \A i \in DOMAIN signals : signals'[i] = signals[i]
         /\ \A i \in DOMAIN signals' : i \notin DOMAIN signals =>
              \E j \in DOMAIN ss : signals'[i] = ss[j]
         /\ \A m, i : GoesAfter(m, i) => GoesAfter(m, i)'
  <1>1. signals \in Seq(Signal)
    BY DEF RadioInv, TypeOK
  <1>2. signals' = signals \/ signals' = signals \o ss
    BY DEF Sends
  <1>3. /\ signals' \in Seq(Signal)
        /\ DOMAIN signals \subseteq DOMAIN signals'
        /\ \A i \in DOMAIN signals : signals'[i] = signals[i]
        /\ \A i \in DOMAIN signals' : i \notin DOMAIN signals =>
             \E j \in DOMAIN ss : signals'[i] = ss[j]
    <2>1. CASE signals' = signals
      BY <1>1, <2>1
    <2>2. CASE signals' = signals \o ss
      BY <1>1, <2>2, Joined
    <2> QED
      BY <1>2, <2>1, <2>2
  <1>4. ASSUME NEW m, NEW i, GoesAfter(m, i)
        PROVE  GoesAfter(m, i)'
    BY <1>3, <1>4 DEF GoesAfter
  <1> QED
    BY <1>3, <1>4

\* A change of a modem: what was seen grows, or a signal behind all others says that it went.
LEMMA EnvInv ==
  ASSUME RadioInv, NEW m \in Modems, NEW n, NEW ss, Says(m, n, ss), Env(m, n, ss)
  PROVE  RadioInv'
  <1> USE RadioAssumption
  <1>1. /\ net' = [net EXCEPT ![m] = n] /\ Sends(ss)
        /\ UNCHANGED <<problematic, phase, found, tasks, modems, cells>>
    BY DEF Env, setupVars, cacheVars
  <1>2. n \in Net /\ ss \in Seq(Signal) /\ n.tech \in Unregistered \union Technologies
        /\ n.id \in CellIds \union {"none"}
    BY DEF Says, Net
  <1>3. /\ signals' \in Seq(Signal)
        /\ DOMAIN signals \subseteq DOMAIN signals'
        /\ \A i \in DOMAIN signals : signals'[i] = signals[i]
        /\ \A i \in DOMAIN signals' : i \notin DOMAIN signals =>
             \E j \in DOMAIN ss : signals'[i] = ss[j]
        /\ \A k, i : GoesAfter(k, i) => GoesAfter(k, i)'
    BY <1>1, <1>2, SignalsSent
  <1> DEFINE new == IF Told(m) /\ n.tech = "absent" THEN {}
                    ELSE seen[m] \union ({n.tech, n.id} \ (Unregistered \union {"none"}))
  <1>4. seen' = [seen EXCEPT ![m] = new]
    BY DEF Env
  <1>5. seen \in [Modems -> SUBSET (Technologies \union CellIds)] /\ net \in [Modems -> Net]
    BY DEF RadioInv, TypeOK
  <1>6. new \subseteq Technologies \union CellIds
    BY <1>2, <1>5
  <1>7. /\ seen'[m] = new /\ \A k \in Modems \ {m} : seen'[k] = seen[k]
        /\ seen' \in [Modems -> SUBSET (Technologies \union CellIds)]
    BY <1>4, <1>5, <1>6
  <1>8. {n.tech, n.id} \subseteq new \union Unregistered \union {"none"}
    <2>1. CASE n.tech = "absent" /\ Told(m)
      <3>1. n.id = "none"
        BY <2>1 DEF Says
      <3> QED
        BY <2>1, <3>1 DEF Unregistered
    <2>2. CASE ~(n.tech = "absent" /\ Told(m))
      BY <2>2
    <2> QED
      BY <2>1, <2>2
  \* It was told to go: a signal behind all others says so.
  <1>9. ASSUME ~(seen[m] \subseteq new), NEW i \in {0} \union DOMAIN signals
        PROVE  GoesAfter(m, i)'
    <2>1. Told(m) /\ n.tech = "absent"
      BY <1>9
    <2>2. PICK s : s = [op |-> "removed", m |-> m]
      OBVIOUS
    <2>3. s \in Signal /\ s.op = "removed" /\ s.m = m
      BY <2>2 DEF Signal
    <2>4. ss = <<s>>
      BY <2>1, <2>2 DEF Says
    <2>5. Len(ss) = 1 /\ DOMAIN ss = {1} /\ ss[1] = s
      BY <2>3, <2>4, Single
    <2>6. signals' = signals \o ss
      BY <1>1, <2>1, <2>3, <2>5 DEF Sends, Heard, Told
    <2>7. signals \in Seq(Signal)
      BY DEF RadioInv, TypeOK
    <2>8. /\ Len(signals) + 1 \in DOMAIN signals' /\ signals'[Len(signals) + 1] = s
          /\ Len(signals) \in Nat /\ DOMAIN signals = 1 .. Len(signals)
      BY <1>2, <2>5, <2>6, <2>7, Joined
    <2>9. Len(signals) + 1 > i
      BY <2>8
    <2> QED
      BY <2>3, <2>8, <2>9 DEF GoesAfter
  <1>10. AnswersAreSeen'
    <2> SUFFICES ASSUME NEW k \in Modems
                 PROVE  {net'[k].tech, net'[k].id} \subseteq seen'[k] \union Unregistered \union {"none"}
      BY DEF AnswersAreSeen, Unregistered
    <2>1. CASE k = m
      BY <1>1, <1>5, <1>7, <1>8, <2>1
    <2>2. CASE k # m
      <3>1. net'[k] = net[k] /\ seen'[k] = seen[k]
        BY <1>1, <1>5, <1>7, <2>2
      <3> QED
        BY <3>1 DEF RadioInv, AnswersAreSeen
    <2> QED
      BY <2>1, <2>2
  <1>11. SignalsAreSeen'
    <2> SUFFICES ASSUME NEW i \in DOMAIN signals', NEW k, k = signals'[i].m, ~GoesAfter(k, i)'
                 PROVE  /\ signals'[i].op = "technology" => signals'[i].tech \in seen'[k]
                        /\ signals'[i].op = "id" => signals'[i].id \in seen'[k]
      BY DEF SignalsAreSeen, GoesAfter
    <2>0. k \in Modems
      <3>1. signals'[i] \in Signal
        BY <1>3, ElementOfSeq, LenProperties
      <3> QED
        BY <3>1, SignalFields
    <2>1. CASE i \in DOMAIN signals
      <3>1. signals'[i] = signals[i] /\ ~GoesAfter(k, i)
        BY <1>3, <2>1
      <3>2. seen[k] \subseteq seen'[k]
        BY <1>7, <1>9, <2>0, <2>1
      <3>3. /\ signals[i].op = "technology" => signals[i].tech \in seen[k]
            /\ signals[i].op = "id" => signals[i].id \in seen[k]
        BY <2>1, <3>1 DEF RadioInv, SignalsAreSeen
      <3> QED
        BY <3>1, <3>2, <3>3
    <2>2. CASE i \notin DOMAIN signals
      <3>1. PICK j \in DOMAIN ss : signals'[i] = ss[j]
        BY <1>3, <2>2
      <3>2. k = m /\ (ss[j].op = "technology" => ss[j].tech = n.tech) /\ (ss[j].op = "id" => ss[j].id = n.id)
        BY <3>1 DEF Says
      <3>3. ss[j] \in Signal
        BY <1>2, ElementOfSeq, LenProperties
      <3>4. /\ ss[j].op = "technology" => n.tech \in Technologies
            /\ ss[j].op = "id" => n.id \in CellIds
        BY <3>2, <3>3, SignalFields
      <3>5. /\ ss[j].op = "technology" => n.tech \notin Unregistered \union {"none"}
            /\ ss[j].op = "id" => n.id \notin Unregistered \union {"none"}
        BY <3>4 DEF Unregistered
      <3> QED
        BY <1>7, <1>8, <3>1, <3>2, <3>5
    <2> QED
      BY <2>1, <2>2
  <1>12. CellsAreSeen'
    <2> SUFFICES ASSUME NEW k \in Modems, ~GoesAfter(k, 0)'
                 PROVE  {cells'[k].type, cells'[k].id} \subseteq seen'[k] \union Unknown
      BY DEF CellsAreSeen, Unknown
    <2>1. ~GoesAfter(k, 0)
      BY <1>3
    <2>2. seen[k] \subseteq seen'[k]
      BY <1>7, <1>9
    <2> QED
      BY <1>1, <2>1, <2>2 DEF RadioInv, CellsAreSeen
  <1>13. ValidUmtsIsComplete' /\ CellsHaveModems'
    BY <1>1 DEF RadioInv, ValidUmtsIsComplete, CellsHaveModems, HasCell, Complete
  <1>14. TypeOK'
    <2>1. net' \in [Modems -> Net]
      BY <1>1, <1>2, <1>5
    <2> QED
      BY <1>1, <1>3, <1>7, <2>1 DEF RadioInv, TypeOK
  <1> QED
    BY <1>10, <1>11, <1>12, <1>13, <1>14 DEF RadioInv

\* One signal of a modem.
LEMMA SaysOne ==
  ASSUME NEW m \in Modems, NEW n \in Net, NEW s \in Signal, s.m = m,
         s.op = "technology" => s.tech = n.tech, s.op = "id" => s.id = n.id,
         n.tech # "absent"
  PROVE  Says(m, n, <<s>>)
  <1>1. <<s>> \in Seq(Signal) /\ DOMAIN <<s>> = {1} /\ <<s>>[1] = s
    BY Single
  <1> QED
    BY <1>1 DEF Says

\* The same for a pair.
LEMMA SaysTwo ==
  ASSUME NEW m \in Modems, NEW n \in Net, NEW s \in Signal, NEW r \in Signal, s.m = m, r.m = m,
         s.op = "technology" => s.tech = n.tech, s.op = "id" => s.id = n.id,
         r.op = "technology" => r.tech = n.tech, r.op = "id" => r.id = n.id,
         n.tech # "absent"
  PROVE  Says(m, n, <<s, r>>)
  <1>1. <<s, r>> \in Seq(Signal) /\ DOMAIN <<s, r>> = {1, 2} /\ <<s, r>>[1] = s /\ <<s, r>>[2] = r
    OBVIOUS
  <1> QED
    BY <1>1 DEF Says

\* A modem that is registered nowhere.
LEMMA OffFields ==
  ASSUME NEW tech \in Unregistered
  PROVE  Off(tech) \in Net /\ Off(tech).tech = tech /\ Off(tech).id = "none"
  BY DEF Off, Net

\* What oFono does to a modem says so.
LEMMA OfonoSays ==
  ASSUME RadioInv, NEW m \in Modems,
         \/ ModemAppears(m) \/ ModemGoes(m)
         \/ InterfaceAppears(m) \/ OtherInterface(m) \/ InterfaceGoes(m)
         \/ Unregisters(m) \/ StrengthChanges(m)
         \/ \E i \in CellIds : Moves(m, i) \/ \E t \in Technologies : Registers(m, t, i)
  PROVE  \E n, ss : Says(m, n, ss) /\ Env(m, n, ss)
  <1> USE RadioAssumption
  <1>1. net[m] \in Net
    BY DEF RadioInv, TypeOK
  <1>2. /\ Off("off") \in Net /\ Off("off").tech = "off"
        /\ Off("absent") \in Net /\ Off("absent").tech = "absent" /\ Off("absent").id = "none"
        /\ Off("searching") \in Net /\ Off("searching").tech = "searching"
    BY OffFields DEF Unregistered
  <1>3. Technologies \intersect Unregistered = {}
    BY DEF Unregistered
  <1> DEFINE added == [op |-> "added", m |-> m]
             removed == [op |-> "removed", m |-> m]
             stronger == [op |-> "strength", m |-> m]
  <1>4. /\ added \in Signal /\ added.m = m /\ added.op = "added"
        /\ removed \in Signal /\ removed.m = m /\ removed.op = "removed"
        /\ stronger \in Signal /\ stronger.m = m /\ stronger.op = "strength"
    BY DEF Signal
  <1>5. \A r \in BOOLEAN : /\ InterfacesSignal(m, r) \in Signal /\ InterfacesSignal(m, r).m = m
                           /\ InterfacesSignal(m, r).op = "interfaces"
    BY DEF InterfacesSignal, Signal
  <1>6. \A t \in Technologies : /\ TechnologySignal(m, t) \in Signal /\ TechnologySignal(m, t).m = m
                                /\ TechnologySignal(m, t).op = "technology"
                                /\ TechnologySignal(m, t).tech = t
    BY DEF TechnologySignal, Signal
  <1>7. \A i \in CellIds : /\ IdSignal(m, i) \in Signal /\ IdSignal(m, i).m = m
                           /\ IdSignal(m, i).op = "id" /\ IdSignal(m, i).id = i
    BY DEF IdSignal, Signal
  <1> HIDE DEF added, removed, stronger
  <1>8. CASE ModemAppears(m)
    <2>1. Env(m, Off("off"), <<added>>)
      BY <1>8 DEF ModemAppears, added
    <2>2. Says(m, Off("off"), <<added>>)
      BY <1>2, <1>4, SaysOne
    <2> QED
      BY <2>1, <2>2
  <1>9. CASE ModemGoes(m)
    <2>1. Env(m, Off("absent"), <<removed>>)
      BY <1>9 DEF ModemGoes, removed
    <2>2. <<removed>> \in Seq(Signal) /\ DOMAIN <<removed>> = {1} /\ <<removed>>[1] = removed
      BY <1>4, Single
    <2>3. Says(m, Off("absent"), <<removed>>)
      BY <1>2, <1>4, <2>2 DEF Says, removed
    <2> QED
      BY <2>1, <2>3
  <1>10. CASE InterfaceAppears(m)
    <2>1. Env(m, Off("searching"), <<InterfacesSignal(m, TRUE)>>)
      BY <1>10 DEF InterfaceAppears
    <2>2. Says(m, Off("searching"), <<InterfacesSignal(m, TRUE)>>)
      BY <1>2, <1>5, SaysOne
    <2> QED
      BY <2>1, <2>2
  <1>11. CASE OtherInterface(m)
    <2>1. Env(m, net[m], <<InterfacesSignal(m, TRUE)>>) /\ net[m].tech # "absent"
      BY <1>11 DEF OtherInterface, HasRegistration
    <2>2. Says(m, net[m], <<InterfacesSignal(m, TRUE)>>)
      BY <1>1, <1>5, <2>1, SaysOne
    <2> QED
      BY <2>1, <2>2
  <1>12. CASE InterfaceGoes(m)
    <2>1. Env(m, Off("off"), <<InterfacesSignal(m, FALSE)>>)
      BY <1>12 DEF InterfaceGoes
    <2>2. Says(m, Off("off"), <<InterfacesSignal(m, FALSE)>>)
      BY <1>2, <1>5, SaysOne
    <2> QED
      BY <2>1, <2>2
  <1>13. CASE Unregisters(m)
    <2>1. Env(m, Off("searching"), <<>>)
      BY <1>13 DEF Unregisters
    <2>2. <<>> \in Seq(Signal) /\ DOMAIN <<>> = {}
      OBVIOUS
    <2>3. Says(m, Off("searching"), <<>>)
      BY <1>2, <2>2 DEF Says
    <2> QED
      BY <2>1, <2>3
  <1>14. CASE StrengthChanges(m)
    <2>1. Env(m, net[m], <<stronger>>) /\ net[m].tech # "absent"
      BY <1>3, <1>14 DEF StrengthChanges, Registered, stronger, Unregistered
    <2>2. Says(m, net[m], <<stronger>>)
      BY <1>1, <1>4, <2>1, SaysOne
    <2> QED
      BY <2>1, <2>2
  <1>15. ASSUME NEW i \in CellIds, Moves(m, i)
         PROVE  \E n, ss : Says(m, n, ss) /\ Env(m, n, ss)
    <2>1. PICK n : n = [net[m] EXCEPT !.id = i]
      OBVIOUS
    <2>2. n \in Net /\ n.id = i /\ n.tech = net[m].tech
      BY <1>1, <2>1 DEF Net
    <2>3. n.tech # "absent"
      BY <1>3, <1>15, <2>2 DEF Moves, Registered, Unregistered
    <2>4. Env(m, n, <<IdSignal(m, i)>>) \/ Env(m, n, <<>>)
      BY <1>15, <2>1 DEF Moves
    <2>5. Says(m, n, <<IdSignal(m, i)>>)
      BY <1>7, <2>2, <2>3, SaysOne
    <2>6. <<>> \in Seq(Signal) /\ DOMAIN <<>> = {}
      OBVIOUS
    <2>7. Says(m, n, <<>>)
      BY <2>2, <2>3, <2>6 DEF Says
    <2> QED
      BY <2>4, <2>5, <2>7
  <1>16. ASSUME NEW i \in CellIds, NEW t \in Technologies, Registers(m, t, i)
         PROVE  \E n, ss : Says(m, n, ss) /\ Env(m, n, ss)
    <2>1. PICK n : n = [tech |-> t, id |-> i]
      OBVIOUS
    <2>2. n \in Net /\ n.id = i /\ n.tech = t /\ t # "absent"
      BY <1>3, <2>1 DEF Net, Unregistered
    <2>3. \/ Env(m, n, <<TechnologySignal(m, t), IdSignal(m, i)>>)
          \/ Env(m, n, <<IdSignal(m, i), TechnologySignal(m, t)>>)
      BY <1>16, <2>1 DEF Registers
    <2>4. Says(m, n, <<TechnologySignal(m, t), IdSignal(m, i)>>)
      BY <1>6, <1>7, <2>2, SaysTwo
    <2>5. Says(m, n, <<IdSignal(m, i), TechnologySignal(m, t)>>)
      BY <1>6, <1>7, <2>2, SaysTwo
    <2> QED
      BY <2>3, <2>4, <2>5
  <1> QED
    BY <1>8, <1>9, <1>10, <1>11, <1>12, <1>13, <1>14, <1>15, <1>16

-----------------------------------------------------------------------------
(* The radio stack. *)

\* The radio stack starts right.
LEMMA RadioInitInv ==
  ASSUME Init
  PROVE  RadioInv
  <1> USE DEF Init
  <1>1. \A m \in Modems : /\ net[m] \in Net /\ net[m].tech \in Unregistered /\ net[m].id = "none"
                          /\ cells[m] = NoCell /\ NoCell \in Cell /\ seen[m] = {}
    <2> TAKE m \in Modems
    <2>1. net[m] \in {Off("absent"), Off("off")}
      OBVIOUS
    <2>2. \A tech \in {"absent", "off"} : Off(tech) \in Net /\ Off(tech).tech = tech /\ Off(tech).id = "none"
      BY OffFields DEF Unregistered
    <2> QED
      BY <2>1, <2>2, NoCellSound DEF Sound, Unregistered
  <1>2. net \in [Modems -> Net] /\ cells \in [Modems -> Cell]
    BY <1>1
  <1>3. TypeOK
    BY <1>2 DEF TypeOK, Phases
  <1>4. CellsHaveModems /\ ValidUmtsIsComplete
    BY <1>1 DEF CellsHaveModems, HasCell, ValidUmtsIsComplete, NoCell
  <1>5. CellsAreSeen /\ SignalsAreSeen /\ AnswersAreSeen
    <2>1. DOMAIN signals = {}
      OBVIOUS
    <2> QED
      BY <1>1, <2>1 DEF CellsAreSeen, SignalsAreSeen, AnswersAreSeen, NoCell, Unknown
  <1> QED
    BY <1>3, <1>4, <1>5 DEF RadioInv

\* No step of the radio stack breaks its invariant.
LEMMA RadioStepInv ==
  ASSUME RadioInv, Next \/ UNCHANGED vars
  PROVE  RadioInv'
  <1>1. CASE UNCHANGED vars \/ OfonoRegisters
    BY <1>1, SetupInv
  <1>2. CASE Setup
    BY <1>2, SetupInv, VisitInv DEF Setup
  <1>3. CASE BusThread
    BY <1>3, AddedInv, RemovedInv, InterfacesInv, CellSignalInv, TimerInv DEF BusThread
  <1>4. CASE Dispatcher
    BY <1>4, InterfacesChangedInv, CreateInv DEF Dispatcher
  <1>5. ASSUME NEW m \in Modems,
               \/ ModemAppears(m) \/ ModemGoes(m)
               \/ InterfaceAppears(m) \/ OtherInterface(m) \/ InterfaceGoes(m)
               \/ Unregisters(m) \/ StrengthChanges(m)
               \/ \E i \in CellIds : Moves(m, i) \/ \E t \in Technologies : Registers(m, t, i)
        PROVE  RadioInv'
    <2>1. PICK n, ss : Says(m, n, ss) /\ Env(m, n, ss)
      BY <1>5, OfonoSays
    <2> QED
      BY <2>1, EnvInv
  <1>6. CASE Ofono
    BY <1>1, <1>5, <1>6 DEF Ofono
  <1>7. ASSUME NEW m \in Modems, TimerExpires(m) \/ Invalidate(m)
        PROVE  RadioInv'
    BY <1>7, TimerInv
  <1> QED
    BY <1>1, <1>2, <1>3, <1>4, <1>6, <1>7 DEF Next

\* Once everything is handled, no cell is forgiven.
LEMMA RadioImplies ==
  ASSUME RadioInv
  PROVE  CellCacheIsSound /\ ValidUmtsIsComplete
  <1> SUFFICES ASSUME Quiet, NEW m \in modems
               PROVE  {cells[m].type, cells[m].id} \subseteq seen[m] \union {"none", "unknown", "junk"}
    BY DEF CellCacheIsSound, NotAFormerCell, RadioInv
  <1>1. m \in Modems /\ DOMAIN signals = {}
    BY DEF Quiet, RadioInv, TypeOK
  <1>2. ~GoesAfter(m, 0)
    BY <1>1 DEF GoesAfter
  <1> QED
    BY <1>1, <1>2 DEF RadioInv, CellsAreSeen, Unknown

-----------------------------------------------------------------------------
(* The network stack: what is on its way. *)

\* What is in a queue is of its type.
LEMMA InMember ==
  ASSUME NEW S, NEW q \in Seq(S), NEW s, Network!In(q, s)
  PROVE  s \in S
  <1>1. PICK i \in DOMAIN q : q[i] = s
    BY DEF Network!In
  <1>2. q[i] \in S
    BY <1>1, ElementOfSeq, LenProperties
  <1> QED
    BY <1>1, <1>2

\* The first element is taken off a queue.
LEMMA InTaken ==
  ASSUME NEW S, NEW q \in Seq(S), q # <<>>
  PROVE  /\ \A s : Network!In(Tail(q), s) => Network!In(q, s)
         /\ \A s : Network!In(q, s) => Network!In(Tail(q), s) \/ s = Head(q)
         /\ Network!In(q, Head(q))
  <1>1. /\ Head(q) = q[1] /\ 1 \in DOMAIN q /\ DOMAIN q = 1 .. Len(q) /\ Len(q) \in Nat
        /\ \A i \in DOMAIN Tail(q) : i + 1 \in DOMAIN q /\ Tail(q)[i] = q[i + 1]
        /\ \A i \in DOMAIN q : i > 1 => i - 1 \in DOMAIN Tail(q) /\ Tail(q)[i - 1] = q[i]
    BY Taken
  <1>2. ASSUME NEW s, Network!In(q, s)
        PROVE  Network!In(Tail(q), s) \/ s = Head(q)
    <2>1. PICK i \in DOMAIN q : q[i] = s
      BY <1>2 DEF Network!In
    <2>2. i = 1 \/ i > 1
      BY <1>1
    <2> QED
      BY <1>1, <2>1, <2>2 DEF Network!In
  <1> QED
    BY <1>1, <1>2 DEF Network!In

\* An element is added at the end.
LEMMA InAdded ==
  ASSUME NEW S, NEW q \in Seq(S), NEW x \in S
  PROVE  \A s : Network!In(Append(q, x), s) <=> Network!In(q, s) \/ s = x
  <1>1. /\ DOMAIN q = 1 .. Len(q) /\ Len(q) \in Nat
        /\ DOMAIN Append(q, x) = 1 .. (Len(q) + 1)
        /\ \A i \in DOMAIN q : i \in DOMAIN Append(q, x) /\ Append(q, x)[i] = q[i]
        /\ Append(q, x)[Len(q) + 1] = x
    BY Added
  <1>2. \A i \in DOMAIN Append(q, x) : i \in DOMAIN q \/ i = Len(q) + 1
    BY <1>1
  <1>3. Len(q) + 1 \in DOMAIN Append(q, x)
    BY <1>1
  <1> QED
    BY <1>1, <1>2, <1>3 DEF Network!In

\* Several are.
LEMMA InJoined ==
  ASSUME NEW S, NEW q \in Seq(S), NEW r \in Seq(S)
  PROVE  \A s : Network!In(q \o r, s) <=> Network!In(q, s) \/ Network!In(r, s)
  <1>1. /\ \A i \in DOMAIN q : i \in DOMAIN (q \o r) /\ (q \o r)[i] = q[i]
        /\ \A i \in DOMAIN r : Len(q) + i \in DOMAIN (q \o r) /\ (q \o r)[Len(q) + i] = r[i]
        /\ \A i \in DOMAIN (q \o r) : i \notin DOMAIN q =>
             i - Len(q) \in DOMAIN r /\ (q \o r)[i] = r[i - Len(q)]
    BY Joined
  <1>2. PICK p : p = q \o r
    OBVIOUS
  <1>3. ASSUME NEW s, Network!In(p, s)
        PROVE  Network!In(q, s) \/ Network!In(r, s)
    <2>1. PICK i \in DOMAIN p : p[i] = s
      BY <1>3 DEF Network!In
    <2>2. CASE i \in DOMAIN q
      BY <1>1, <1>2, <2>1, <2>2 DEF Network!In
    <2>3. CASE i \notin DOMAIN q
      <3>1. i - Len(q) \in DOMAIN r /\ p[i] = r[i - Len(q)]
        BY <1>1, <1>2, <2>1, <2>3
      <3> QED
        BY <2>1, <3>1 DEF Network!In
    <2> QED
      BY <2>2, <2>3
  <1>4. ASSUME NEW s, Network!In(q, s)
        PROVE  Network!In(p, s)
    BY <1>1, <1>2, <1>4 DEF Network!In
  <1>5. ASSUME NEW s, Network!In(r, s)
        PROVE  Network!In(p, s)
    <2>1. PICK i \in DOMAIN r : r[i] = s
      BY <1>5 DEF Network!In
    <2>2. Len(q) + i \in DOMAIN p /\ p[Len(q) + i] = s
      BY <1>1, <1>2, <2>1
    <2> QED
      BY <2>2 DEF Network!In
  <1> QED
    BY <1>2, <1>3, <1>4, <1>5

\* What a signal of NetworkManager is about.
LEMMA NetSignalFields ==
  ASSUME NEW s \in Network!Signal
  PROVE  /\ s.op \in {"added", "removed", "apAdded", "apRemoved", "primary"}
         /\ s.op \in {"added", "removed"} =>
              s.dev \in Network!Devices /\ s = Network!DeviceSignal(s.op, s.dev)
         /\ s.op \in {"apAdded", "apRemoved"} => s.ap \in Aps /\ s = Network!ApSignal(s.op, s.ap)
         /\ s.op = "primary" =>
              s.dev \in Network!Devices \union {NoDevice} /\ s = Network!DeviceSignal("primary", s.dev)
         /\ s.op \in {"added", "removed", "primary"} => s \in Network!Task
  BY DEF Network!Signal, Network!Task, Network!DeviceSignal, Network!ApSignal

\* What a task is about.
LEMMA NetTaskFields ==
  ASSUME NEW s \in Network!Task
  PROVE  /\ s.op \in {"added", "removed", "primary"}
         /\ s.op \in {"added", "removed"} => s.dev \in Network!Devices
         /\ s.op = "primary" => s.dev \in Network!Devices \union {NoDevice}
         /\ s = Network!DeviceSignal(s.op, s.dev)
  BY DEF Network!Task, Network!DeviceSignal

\* The signals of a device.
LEMMA DeviceSignalFields ==
  \A op, d : /\ Network!DeviceSignal(op, d).op = op /\ Network!DeviceSignal(op, d).dev = d
             /\ op \in {"added", "removed"} /\ d \in Network!Devices =>
                  Network!DeviceSignal(op, d) \in Network!Signal
             /\ op = "primary" /\ d \in Network!Devices \union {NoDevice} =>
                  Network!DeviceSignal(op, d) \in Network!Signal
  BY DEF Network!Signal, Network!DeviceSignal

\* The signals of an access point.
LEMMA ApSignalFields ==
  \A op, a : /\ Network!ApSignal(op, a).op = op /\ Network!ApSignal(op, a).ap = a
             /\ op \in {"apAdded", "apRemoved"} /\ a \in Aps =>
                  Network!ApSignal(op, a) \in Network!Signal
  BY DEF Network!Signal, Network!ApSignal

\* An element x is never in front of an element y.
Ordered(q, x, y) == \A i, j \in DOMAIN q : q[i] = x /\ i < j => q[j] # y

\* The last change of the primary connection in q is to d.
EndsWith(q, d) == \A i \in DOMAIN q : Network!LastPrimary(q, i) => q[i].dev = d

\* The order stays if the first element is taken off, and nothing y is behind an x that was first.
LEMMA OrderedTaken ==
  ASSUME NEW S, NEW q \in Seq(S), q # <<>>, NEW x, NEW y, Ordered(q, x, y)
  PROVE  /\ Ordered(Tail(q), x, y)
         /\ Head(q) = x => ~Network!In(Tail(q), y)
  <1>1. /\ Head(q) = q[1] /\ 1 \in DOMAIN q /\ DOMAIN q = 1 .. Len(q) /\ Len(q) \in Nat
        /\ DOMAIN Tail(q) = 1 .. (Len(q) - 1)
        /\ \A i \in DOMAIN Tail(q) : i + 1 \in DOMAIN q /\ Tail(q)[i] = q[i + 1]
    BY Taken
  <1>2. ASSUME NEW i \in DOMAIN Tail(q), NEW j \in DOMAIN Tail(q), Tail(q)[i] = x, i < j
        PROVE  Tail(q)[j] # y
    <2>1. i + 1 < j + 1
      BY <1>1, <1>2
    <2> QED
      BY <1>1, <1>2, <2>1 DEF Ordered
  <1>3. ASSUME Head(q) = x, NEW j \in DOMAIN Tail(q)
        PROVE  Tail(q)[j] # y
    <2>1. 1 < j + 1
      BY <1>1
    <2> QED
      BY <1>1, <1>3, <2>1 DEF Ordered
  <1> QED
    BY <1>2, <1>3 DEF Ordered, Network!In

\* It stays if no y is added behind an x.
LEMMA OrderedAdded ==
  ASSUME NEW S, NEW q \in Seq(S), NEW s \in S, NEW x, NEW y, Ordered(q, x, y),
         s = y => ~Network!In(q, x)
  PROVE  Ordered(Append(q, s), x, y)
  <1>1. /\ DOMAIN q = 1 .. Len(q) /\ Len(q) \in Nat
        /\ DOMAIN Append(q, s) = 1 .. (Len(q) + 1)
        /\ \A i \in DOMAIN q : i \in DOMAIN Append(q, s) /\ Append(q, s)[i] = q[i]
        /\ Append(q, s)[Len(q) + 1] = s
    BY Added
  <1>2. PICK p : p = Append(q, s)
    OBVIOUS
  <1> SUFFICES ASSUME NEW i \in DOMAIN p, NEW j \in DOMAIN p, p[i] = x, i < j
               PROVE  p[j] # y
    BY <1>2 DEF Ordered
  <1>3. i \in DOMAIN q /\ p[i] = q[i]
    BY <1>1, <1>2
  <1>4. CASE j \in DOMAIN q
    BY <1>1, <1>2, <1>3, <1>4 DEF Ordered
  <1>5. CASE j = Len(q) + 1
    BY <1>1, <1>2, <1>3, <1>5 DEF Network!In
  <1> QED
    BY <1>1, <1>2, <1>4, <1>5

\* The last change of the primary connection stays so, or is the one that is taken off.
LEMMA EndTaken ==
  ASSUME NEW S, NEW q \in Seq(S), q # <<>>
  PROVE  /\ \A d : EndsWith(q, d) => EndsWith(Tail(q), d)
         /\ Network!NoPrimary(Tail(q)) /\ Head(q).op # "primary" => Network!NoPrimary(q)
         /\ Network!NoPrimary(Tail(q)) /\ Head(q).op = "primary" =>
              \A d : EndsWith(q, d) => Head(q).dev = d
  <1>1. /\ Head(q) = q[1] /\ 1 \in DOMAIN q /\ DOMAIN q = 1 .. Len(q) /\ Len(q) \in Nat
        /\ DOMAIN Tail(q) = 1 .. (Len(q) - 1)
        /\ \A i \in DOMAIN Tail(q) : i + 1 \in DOMAIN q /\ Tail(q)[i] = q[i + 1]
        /\ \A i \in DOMAIN q : i > 1 => i - 1 \in DOMAIN Tail(q) /\ Tail(q)[i - 1] = q[i]
    BY Taken
  <1>2. PICK p : p = Tail(q)
    OBVIOUS
  <1>3. ASSUME NEW d, EndsWith(q, d), NEW i \in DOMAIN p, Network!LastPrimary(p, i)
        PROVE  p[i].dev = d
    <2>1. i + 1 \in DOMAIN q /\ q[i + 1] = p[i]
      BY <1>1, <1>2
    <2>2. ASSUME NEW j \in DOMAIN q, i + 1 < j
          PROVE  q[j].op # "primary"
      <3>1. j > 1 /\ i < j - 1
        BY <1>1, <1>2, <2>2
      <3>2. j - 1 \in DOMAIN p /\ p[j - 1] = q[j]
        BY <1>1, <1>2, <3>1
      <3> QED
        BY <1>3, <3>1, <3>2 DEF Network!LastPrimary
    <2>3. Network!LastPrimary(q, i + 1)
      BY <1>3, <2>1, <2>2 DEF Network!LastPrimary
    <2> QED
      BY <1>3, <2>1, <2>3 DEF EndsWith
  <1>4. ASSUME Network!NoPrimary(p), NEW i \in DOMAIN q, i > 1
        PROVE  q[i].op # "primary"
    BY <1>1, <1>2, <1>4 DEF Network!NoPrimary
  <1>5. ASSUME Network!NoPrimary(p), Head(q).op # "primary"
        PROVE  Network!NoPrimary(q)
    <2>1. \A i \in DOMAIN q : i = 1 \/ i > 1
      BY <1>1
    <2> QED
      BY <1>1, <1>4, <1>5, <2>1 DEF Network!NoPrimary
  <1>6. ASSUME Network!NoPrimary(p), Head(q).op = "primary", NEW d, EndsWith(q, d)
        PROVE  Head(q).dev = d
    <2>1. Network!LastPrimary(q, 1)
      BY <1>1, <1>4, <1>6 DEF Network!LastPrimary
    <2> QED
      BY <1>1, <1>6, <2>1 DEF EndsWith
  <1>7. \A d : EndsWith(q, d) => EndsWith(p, d)
    BY <1>3 DEF EndsWith
  <1> QED
    BY <1>2, <1>5, <1>6, <1>7

\* It stays if something else is added.
LEMMA EndAdded ==
  ASSUME NEW S, NEW q \in Seq(S), NEW s \in S
  PROVE  /\ s.op # "primary" =>
              /\ \A d : EndsWith(q, d) => EndsWith(Append(q, s), d)
              /\ Network!NoPrimary(Append(q, s)) => Network!NoPrimary(q)
         /\ s.op = "primary" =>
              EndsWith(Append(q, s), s.dev) /\ ~Network!NoPrimary(Append(q, s))
  <1>1. /\ DOMAIN q = 1 .. Len(q) /\ Len(q) \in Nat
        /\ DOMAIN Append(q, s) = 1 .. (Len(q) + 1)
        /\ \A i \in DOMAIN q : i \in DOMAIN Append(q, s) /\ Append(q, s)[i] = q[i]
        /\ Append(q, s)[Len(q) + 1] = s
    BY Added
  <1>2. PICK p : p = Append(q, s)
    OBVIOUS
  <1>3. /\ Len(q) + 1 \in DOMAIN p /\ p[Len(q) + 1] = s
        /\ \A i \in DOMAIN p : i \in DOMAIN q \/ i = Len(q) + 1
        /\ \A i \in DOMAIN q : i < Len(q) + 1
    BY <1>1, <1>2
  <1>4. ASSUME s.op # "primary", NEW d, EndsWith(q, d), NEW i \in DOMAIN p, Network!LastPrimary(p, i)
        PROVE  p[i].dev = d
    <2>1. i \in DOMAIN q /\ q[i] = p[i]
      BY <1>1, <1>2, <1>3, <1>4 DEF Network!LastPrimary
    <2>2. Network!LastPrimary(q, i)
      BY <1>1, <1>2, <1>4, <2>1 DEF Network!LastPrimary
    <2> QED
      BY <1>4, <2>1, <2>2 DEF EndsWith
  <1>5. s.op # "primary" => \A d : EndsWith(q, d) => EndsWith(p, d)
    BY <1>4 DEF EndsWith
  <1>6. Network!NoPrimary(p) => Network!NoPrimary(q)
    BY <1>1, <1>2 DEF Network!NoPrimary
  <1>7. ASSUME s.op = "primary", NEW i \in DOMAIN p, Network!LastPrimary(p, i)
        PROVE  p[i].dev = s.dev
    <2>1. i = Len(q) + 1
      BY <1>3, <1>7 DEF Network!LastPrimary
    <2> QED
      BY <1>3, <2>1
  <1>8. s.op = "primary" => EndsWith(p, s.dev) /\ ~Network!NoPrimary(p)
    BY <1>3, <1>7 DEF EndsWith, Network!NoPrimary
  <1> QED
    BY <1>2, <1>5, <1>6, <1>8

\* One signal is sent: it is told, or what it says is missed.
LEMMA OneSent ==
  ASSUME Network!TypeOK, NEW s \in Network!Signal, NEW lost, Network!Sends(<<s>>, lost)
  PROVE  /\ \/ Network!Told(s) /\ signals_' = Append(signals_, s) /\ missed' = missed \union lost
            \/ /\ ~Network!Told(s) /\ signals_' = signals_
               /\ missed' = missed \union lost \union {Network!Changed(s)}
         /\ UNCHANGED <<faults, phase_, found_, visit, tasks_, devices, wired, wifis, via, state>>
  <1>1. UNCHANGED <<faults, phase_, found_, visit, tasks_, devices, wired, wifis, via, state>>
    BY DEF Network!Sends, Network!setupVars, Network!cacheVars, Network!shownVars
  <1>2. PICK ss : ss = <<s>>
    OBVIOUS
  <1>3. ss \in Seq(Network!Signal) /\ DOMAIN ss = {1} /\ ss[1] = s
    BY <1>2, Single
  <1>4. signals_ \o ss = Append(signals_, s)
    BY <1>2, AppendIsConcat DEF Network!TypeOK
  <1>5. {Network!Changed(ss[i]) : i \in DOMAIN ss} = {Network!Changed(s)}
    BY <1>3
  <1>6. Network!Sends(ss, lost)
    BY <1>2
  <1>7. (\A i \in DOMAIN ss : Network!Told(ss[i])) <=> Network!Told(s)
    BY <1>3
  <1>8. CASE Network!Told(s)
    BY <1>1, <1>4, <1>6, <1>7, <1>8 DEF Network!Sends
  <1>9. CASE ~Network!Told(s)
    BY <1>1, <1>5, <1>6, <1>7, <1>9 DEF Network!Sends
  <1> QED
    BY <1>8, <1>9

\* A device that goes is told of together with the end of its connection.
LEMMA GoneSent ==
  ASSUME Network!TypeOK, NEW d \in Network!Devices, Network!DeviceGoes(d)
  PROVE  LET gone == Network!DeviceSignal("removed", d)
             over == Network!DeviceSignal("primary", NoDevice)
             lost == air \intersect Network!ApsOf(d)
         IN
         /\ gone \in Network!Signal /\ over \in Network!Signal
         /\ \/ /\ phase_ = "connected" /\ missed' = missed \union lost
               /\ \/ primary # d /\ signals_' = Append(signals_, gone)
                  \/ primary = d /\ signals_' = Append(Append(signals_, over), gone)
            \/ /\ phase_ # "connected" /\ signals_' = signals_
               /\ missed' = missed \union lost \union {d} \union (IF primary = d THEN {"primary"} ELSE {})
         /\ UNCHANGED <<faults, phase_, found_, visit, tasks_, devices, wired, wifis, via, state>>
  <1>1. PICK gone, over, lost : /\ gone = Network!DeviceSignal("removed", d)
                                /\ over = Network!DeviceSignal("primary", NoDevice)
                                /\ lost = air \intersect Network!ApsOf(d)
    OBVIOUS
  <1>2. /\ gone \in Network!Signal /\ gone.op = "removed" /\ gone.dev = d
        /\ over \in Network!Signal /\ over.op = "primary"
    BY <1>1, DeviceSignalFields
  <1>3. /\ Network!Told(gone) <=> phase_ = "connected"
        /\ Network!Told(over) <=> phase_ = "connected"
        /\ Network!Changed(gone) = d /\ Network!Changed(over) = "primary"
    BY <1>2 DEF Network!Told, Network!Changed
  <1>4. CASE primary # d
    <2>1. Network!Sends(<<>> \o <<gone>>, lost)
      BY <1>1, <1>4 DEF Network!DeviceGoes
    <2>2. <<>> \o <<gone>> = <<gone>>
      OBVIOUS
    <2>3. Network!Sends(<<gone>>, lost)
      BY <2>1, <2>2
    <2>4. /\ \/ Network!Told(gone) /\ signals_' = Append(signals_, gone) /\ missed' = missed \union lost
             \/ /\ ~Network!Told(gone) /\ signals_' = signals_
                /\ missed' = missed \union lost \union {Network!Changed(gone)}
          /\ UNCHANGED <<faults, phase_, found_, visit, tasks_, devices, wired, wifis, via, state>>
      BY <1>2, <2>3, OneSent
    <2> QED
      BY <1>1, <1>2, <1>3, <1>4, <2>4
  <1>5. CASE primary = d
    <2>1. Network!Sends(<<over>> \o <<gone>>, lost)
      BY <1>1, <1>5 DEF Network!DeviceGoes
    <2>2. PICK ss : ss = <<over>> \o <<gone>>
      OBVIOUS
    <2>3. DOMAIN ss = {1, 2} /\ ss[1] = over /\ ss[2] = gone
      <3>1. PICK q, r : q = <<over>> /\ r = <<gone>>
        OBVIOUS
      <3>2. /\ q \in Seq(Network!Signal) /\ Len(q) = 1 /\ DOMAIN q = {1} /\ q[1] = over
            /\ r \in Seq(Network!Signal) /\ Len(r) = 1 /\ DOMAIN r = {1} /\ r[1] = gone
        BY <1>2, <3>1, Single
      <3>3. /\ DOMAIN (q \o r) = 1 .. (Len(q) + Len(r))
            /\ (q \o r)[1] = q[1] /\ (q \o r)[Len(q) + 1] = r[1]
        BY <3>2, Joined
      <3>4. ss = q \o r /\ Len(q) + Len(r) = 2 /\ Len(q) + 1 = 2
        BY <2>2, <3>1, <3>2
      <3>5. DOMAIN ss = 1 .. 2 /\ ss[1] = over /\ ss[2] = gone
        BY <3>2, <3>3, <3>4
      <3> QED
        BY <3>5
    <2>4. signals_ \o ss = Append(Append(signals_, over), gone)
      <3>1. /\ signals_ \in Seq(Network!Signal) /\ <<over>> \in Seq(Network!Signal)
            /\ <<gone>> \in Seq(Network!Signal)
        BY <1>2 DEF Network!TypeOK
      <3>2. Append(signals_, over) = signals_ \o <<over>> /\ Append(signals_, over) \in Seq(Network!Signal)
        BY <1>2, <3>1, AppendIsConcat, Added
      <3>3. Append(Append(signals_, over), gone) = Append(signals_, over) \o <<gone>>
        BY <1>2, <3>2, AppendIsConcat
      <3>4. (signals_ \o <<over>>) \o <<gone>> = signals_ \o ss
        BY <2>2, <3>1, ConcatAssociative
      <3> QED
        BY <3>2, <3>3, <3>4
    <2>5. {Network!Changed(ss[i]) : i \in DOMAIN ss} = {d, "primary"}
      BY <1>3, <2>3
    <2>6. (\A i \in DOMAIN ss : Network!Told(ss[i])) <=> phase_ = "connected"
      BY <1>3, <2>3
    <2>7. UNCHANGED <<faults, phase_, found_, visit, tasks_, devices, wired, wifis, via, state>>
      BY <2>1 DEF Network!Sends, Network!setupVars, Network!cacheVars, Network!shownVars
    <2>8. CASE phase_ = "connected"
      BY <1>1, <1>2, <1>5, <2>1, <2>2, <2>4, <2>6, <2>7, <2>8 DEF Network!Sends
    <2>9. CASE phase_ # "connected"
      <3>1. /\ signals_' = signals_
            /\ missed' = missed \union lost \union {Network!Changed(ss[i]) : i \in DOMAIN ss}
        BY <2>1, <2>2, <2>6, <2>9 DEF Network!Sends
      <3>2. missed' = missed \union lost \union {d} \union {"primary"}
        BY <2>5, <3>1
      <3> QED
        BY <1>1, <1>2, <1>5, <2>7, <2>9, <3>1, <3>2
    <2> QED
      BY <2>8, <2>9
  <1> QED
    BY <1>4, <1>5

\* What NetworkManager changes.
Changes ==
  \/ \E d \in Network!Devices : Network!DeviceAppears(d) \/ Network!DeviceGoes(d)
  \/ \E d \in Network!Devices \union {NoDevice} : Network!PrimaryChanges(d)
  \/ \E a \in Aps : Network!ApAppears(a) \/ Network!ApGoes(a)

\* All other steps, by what they do to the queues.
LEMMA QueueSteps ==
  ASSUME Network!TypeOK, Network!Next \/ UNCHANGED networkVars
  PROVE  \/ UNCHANGED <<signals_, tasks_>>
         \/ Network!HandleAccessPoint /\ signals_ # <<>> /\ signals_' = Tail(signals_) /\ UNCHANGED tasks_
         \/ /\ Network!HandleDevice \/ Network!HandlePrimary
            /\ signals_ # <<>> /\ signals_' = Tail(signals_)
            /\ tasks_' = Append(tasks_, Head(signals_)) /\ Head(signals_) \in Network!Task
            /\ Head(signals_).op \in {"added", "removed", "primary"}
         \/ /\ Network!Dispatcher
            /\ tasks_ # <<>> /\ tasks_' = Tail(tasks_) /\ UNCHANGED signals_ /\ phase_ = "connected"
         \/ Changes
  <1>1. CASE UNCHANGED networkVars
    BY <1>1 DEF networkVars
  <1>2. CASE Network!Setup
    BY <1>2 DEF Network!Setup, Network!Enumerate, Network!NetworkManagerIsAbsent,
                Network!EnumerateFails, Network!Read, Network!ReadFails,
                Network!Connect, Network!Watch, Network!VisitDevice, Network!VisitFails
  <1>3. CASE Network!Visiting
    BY <1>3 DEF Network!Visiting, Network!ConnectDevice, Network!VisitAp
  <1>4. CASE Network!HandleAccessPoint
    BY <1>4 DEF Network!HandleAccessPoint, Network!IsFirst
  <1>5. CASE Network!HandleDevice \/ Network!HandlePrimary
    <2>1. /\ signals_ # <<>> /\ signals_' = Tail(signals_) /\ tasks_' = Append(tasks_, Head(signals_))
          /\ Head(signals_).op \in {"added", "removed", "primary"}
      BY <1>5 DEF Network!HandleDevice, Network!HandlePrimary, Network!Posts, Network!IsFirst
    <2>2. Head(signals_) \in Network!Signal
      BY <2>1, Taken DEF Network!TypeOK
    <2>3. Head(signals_) \in Network!Task
      BY <2>1, <2>2, NetSignalFields
    <2> QED
      BY <1>5, <2>1, <2>3
  <1>6. CASE Network!Dispatcher
    BY <1>6 DEF Network!Dispatcher, Network!RunAdded, Network!RunRemoved, Network!RunPrimary,
                Network!IsNext, Network!IsFirst
  <1>7. CASE Network!NetworkManager
    BY <1>7 DEF Network!NetworkManager, Network!NetworkManagerRegisters, Changes
  <1> QED
    BY <1>1, <1>2, <1>3, <1>4, <1>5, <1>6, <1>7 DEF Network!Next, Network!BusThread

\* Nothing else changes then.
LEMMA ChangesKeep ==
  ASSUME Changes
  PROVE  UNCHANGED <<faults, phase_, found_, visit, tasks_, devices, wired, wifis, via, state>>
  BY DEF Changes, Network!DeviceAppears, Network!DeviceGoes, Network!PrimaryChanges,
         Network!ApAppears, Network!ApGoes, Network!Sends, Network!setupVars, Network!cacheVars,
         Network!shownVars

\* Both queues keep their types.
LEMMA QueuesTyped ==
  ASSUME Network!TypeOK, Network!Next \/ UNCHANGED networkVars
  PROVE  signals_' \in Seq(Network!Signal) /\ tasks_' \in Seq(Network!Task)
  <1>1. signals_ \in Seq(Network!Signal) /\ tasks_ \in Seq(Network!Task)
    BY DEF Network!TypeOK
  <1>2. \A q \in Seq(Network!Signal) : q # <<>> => Tail(q) \in Seq(Network!Signal)
    BY Taken
  <1>3. \A q \in Seq(Network!Task) : q # <<>> => Tail(q) \in Seq(Network!Task)
    BY Taken
  <1>4. \A q \in Seq(Network!Signal), s \in Network!Signal : Append(q, s) \in Seq(Network!Signal)
    BY Added
  <1>5. \A q \in Seq(Network!Task), s \in Network!Task : Append(q, s) \in Seq(Network!Task)
    BY Added
  <1>6. CASE Changes
    <2>1. ASSUME NEW s \in Network!Signal, NEW lost, Network!Sends(<<s>>, lost)
          PROVE  signals_' \in Seq(Network!Signal) /\ tasks_' = tasks_
      BY <1>1, <1>4, <2>1, OneSent
    <2>2. ASSUME NEW d \in Network!Devices, Network!DeviceAppears(d)
          PROVE  signals_' \in Seq(Network!Signal) /\ tasks_' = tasks_
      BY <2>1, <2>2, DeviceSignalFields DEF Network!DeviceAppears
    <2>3. ASSUME NEW d \in Network!Devices, Network!DeviceGoes(d)
          PROVE  signals_' \in Seq(Network!Signal) /\ tasks_' = tasks_
      BY <1>1, <1>4, <2>3, GoneSent
    <2>4. ASSUME NEW d \in Network!Devices \union {NoDevice}, Network!PrimaryChanges(d)
          PROVE  signals_' \in Seq(Network!Signal) /\ tasks_' = tasks_
      BY <2>1, <2>4, DeviceSignalFields DEF Network!PrimaryChanges
    <2>5. ASSUME NEW a \in Aps, Network!ApAppears(a) \/ Network!ApGoes(a)
          PROVE  signals_' \in Seq(Network!Signal) /\ tasks_' = tasks_
      BY <2>1, <2>5, ApSignalFields DEF Network!ApAppears, Network!ApGoes
    <2> QED
      BY <1>1, <1>6, <2>2, <2>3, <2>4, <2>5 DEF Changes
  <1> QED
    BY <1>1, <1>2, <1>3, <1>4, <1>5, <1>6, QueueSteps

\* A signal that is new says what has just happened.
LEMMA NewSignals ==
  ASSUME Network!TypeOK, Changes, NEW s, Network!In(signals_, s)'
  PROVE  \/ Network!In(signals_, s)
         \/ /\ phase_ = "connected"
            /\ \/ \E d \in Network!Devices :
                    Network!DeviceAppears(d) /\ s = Network!DeviceSignal("added", d)
               \/ \E d \in Network!Devices :
                    /\ Network!DeviceGoes(d)
                    /\ s \in {Network!DeviceSignal("removed", d), Network!DeviceSignal("primary", NoDevice)}
               \/ \E d \in Network!Devices \union {NoDevice} :
                    Network!PrimaryChanges(d) /\ s = Network!DeviceSignal("primary", d)
         \/ \E a \in Aps : Network!ApAppears(a) /\ s = Network!ApSignal("apAdded", a)
         \/ \E a \in Aps : Network!ApGoes(a) /\ s = Network!ApSignal("apRemoved", a)
  <1>0. signals_ \in Seq(Network!Signal)
    BY DEF Network!TypeOK
  <1>1. ASSUME NEW x \in Network!Signal, NEW lost, Network!Sends(<<x>>, lost)
        PROVE  Network!In(signals_, s) \/ (s = x /\ Network!Told(x))
    <2>1. signals_' = signals_ \/ (Network!Told(x) /\ signals_' = Append(signals_, x))
      BY <1>1, OneSent
    <2>2. Network!In(signals_', s)
      BY DEF Network!In
    <2>3. Network!In(Append(signals_, x), s) => Network!In(signals_, s) \/ s = x
      BY <1>0, InAdded
    <2> QED
      BY <2>1, <2>2, <2>3
  <1>2. ASSUME NEW x, x.op \in {"added", "removed", "primary"}, Network!Told(x)
        PROVE  phase_ = "connected"
    BY <1>2 DEF Network!Told
  <1>3. CASE \E d \in Network!Devices : Network!DeviceAppears(d)
    <2>1. PICK d \in Network!Devices : Network!DeviceAppears(d)
      BY <1>3
    <2>2. PICK x : x = Network!DeviceSignal("added", d)
      OBVIOUS
    <2>3. x \in Network!Signal /\ x.op = "added"
      BY <2>2, DeviceSignalFields
    <2>4. Network!Sends(<<x>>, {})
      BY <2>1, <2>2 DEF Network!DeviceAppears
    <2> QED
      BY <1>1, <1>2, <2>1, <2>2, <2>3, <2>4
  <1>4. CASE \E d \in Network!Devices \union {NoDevice} : Network!PrimaryChanges(d)
    <2>1. PICK d \in Network!Devices \union {NoDevice} : Network!PrimaryChanges(d)
      BY <1>4
    <2>2. PICK x : x = Network!DeviceSignal("primary", d)
      OBVIOUS
    <2>3. x \in Network!Signal /\ x.op = "primary"
      BY <2>2, DeviceSignalFields
    <2>4. Network!Sends(<<x>>, {})
      BY <2>1, <2>2 DEF Network!PrimaryChanges
    <2> QED
      BY <1>1, <1>2, <2>1, <2>2, <2>3, <2>4
  <1>5. CASE \E a \in Aps : Network!ApAppears(a)
    <2>1. PICK a \in Aps : Network!ApAppears(a)
      BY <1>5
    <2>2. PICK x : x = Network!ApSignal("apAdded", a)
      OBVIOUS
    <2>3. x \in Network!Signal
      BY <2>2, ApSignalFields
    <2>4. Network!Sends(<<x>>, {})
      BY <2>1, <2>2 DEF Network!ApAppears
    <2> QED
      BY <1>1, <2>1, <2>2, <2>3, <2>4
  <1>6. CASE \E a \in Aps : Network!ApGoes(a)
    <2>1. PICK a \in Aps : Network!ApGoes(a)
      BY <1>6
    <2>2. PICK x : x = Network!ApSignal("apRemoved", a)
      OBVIOUS
    <2>3. x \in Network!Signal
      BY <2>2, ApSignalFields
    <2>4. Network!Sends(<<x>>, {})
      BY <2>1, <2>2 DEF Network!ApGoes
    <2> QED
      BY <1>1, <2>1, <2>2, <2>3, <2>4
  <1>7. CASE \E d \in Network!Devices : Network!DeviceGoes(d)
    <2>1. PICK d \in Network!Devices : Network!DeviceGoes(d)
      BY <1>7
    <2>2. PICK gone, over : /\ gone = Network!DeviceSignal("removed", d)
                            /\ over = Network!DeviceSignal("primary", NoDevice)
      OBVIOUS
    <2>3. /\ gone \in Network!Signal /\ over \in Network!Signal
          /\ \/ phase_ = "connected" /\ signals_' = Append(signals_, gone)
             \/ phase_ = "connected" /\ signals_' = Append(Append(signals_, over), gone)
             \/ signals_' = signals_
      BY <2>1, <2>2, GoneSent
    <2>4. Network!In(signals_', s)
      BY DEF Network!In
    <2>5. Append(signals_, over) \in Seq(Network!Signal)
      BY <1>0, <2>3, Added
    <2>6. /\ Network!In(Append(signals_, gone), s) => Network!In(signals_, s) \/ s = gone
          /\ Network!In(Append(signals_, over), s) => Network!In(signals_, s) \/ s = over
          /\ Network!In(Append(Append(signals_, over), gone), s) =>
               Network!In(Append(signals_, over), s) \/ s = gone
      <3>1. Network!In(Append(signals_, gone), s) => Network!In(signals_, s) \/ s = gone
        BY <1>0, <2>3, InAdded
      <3>2. Network!In(Append(signals_, over), s) => Network!In(signals_, s) \/ s = over
        BY <1>0, <2>3, InAdded
      <3>3. Network!In(Append(Append(signals_, over), gone), s) =>
              Network!In(Append(signals_, over), s) \/ s = gone
        <4>1. PICK q : q = Append(signals_, over)
          OBVIOUS
        <4>2. q \in Seq(Network!Signal) /\ gone \in Network!Signal
          BY <2>3, <2>5, <4>1
        <4>3. Network!In(Append(q, gone), s) => Network!In(q, s) \/ s = gone
          BY <4>2, InAdded
        <4> QED
          BY <4>1, <4>3
      <3> QED
        BY <3>1, <3>2, <3>3
    <2>7. Network!In(signals_, s) \/ (phase_ = "connected" /\ s \in {gone, over})
      BY <2>3, <2>4, <2>6
    <2> QED
      BY <2>1, <2>2, <2>7
  <1> QED
    BY <1>3, <1>4, <1>5, <1>6, <1>7 DEF Changes

\* What is sent goes behind the rest.
LEMMA SentBehind ==
  ASSUME Network!TypeOK, Changes, NEW s, Network!In(signals_, s)
  PROVE  Network!In(signals_, s)'
  <1>0. signals_ \in Seq(Network!Signal)
    BY DEF Network!TypeOK
  <1> SUFFICES ASSUME ~Network!In(signals_', s)
               PROVE  FALSE
    BY DEF Network!In
  <1>1. ASSUME NEW x \in Network!Signal, NEW lost, Network!Sends(<<x>>, lost)
        PROVE  FALSE
    <2>1. signals_' = signals_ \/ signals_' = Append(signals_, x)
      BY <1>1, OneSent
    <2>2. Network!In(Append(signals_, x), s)
      BY <1>0, InAdded
    <2> QED
      BY <1>1, <2>1, <2>2
  <1>2. ASSUME NEW d \in Network!Devices, Network!DeviceAppears(d)
        PROVE  FALSE
    BY <1>1, <1>2, DeviceSignalFields DEF Network!DeviceAppears
  <1>3. ASSUME NEW d \in Network!Devices, Network!DeviceGoes(d)
        PROVE  FALSE
    <2>1. PICK gone \in Network!Signal, over \in Network!Signal :
            signals_' \in {signals_, Append(signals_, gone), Append(Append(signals_, over), gone)}
      BY <1>3, GoneSent
    <2>2. Append(signals_, over) \in Seq(Network!Signal)
      BY <1>0, Added
    <2>3. Network!In(Append(signals_, gone), s) /\ Network!In(Append(signals_, over), s)
      BY <1>0, InAdded
    <2>4. Network!In(Append(Append(signals_, over), gone), s)
      BY <2>2, <2>3, InAdded
    <2> QED
      BY <1>1, <2>1, <2>3, <2>4
  <1>4. ASSUME NEW d \in Network!Devices \union {NoDevice}, Network!PrimaryChanges(d)
        PROVE  FALSE
    BY <1>1, <1>4, DeviceSignalFields DEF Network!PrimaryChanges
  <1>5. ASSUME NEW a \in Aps, Network!ApAppears(a) \/ Network!ApGoes(a)
        PROVE  FALSE
    BY <1>1, <1>5, ApSignalFields DEF Network!ApAppears, Network!ApGoes
  <1> QED
    BY <1>2, <1>3, <1>4, <1>5 DEF Changes

\* What is on its way stays so until it is handled.
LEMMA KeptSignals ==
  ASSUME Network!TypeOK, Network!Next \/ UNCHANGED networkVars, NEW s, Network!In(signals_, s)
  PROVE  \/ Network!In(signals_, s)'
         \/ Network!HandleAccessPoint /\ signals_ # <<>> /\ s = Head(signals_)
         \/ (Network!HandleDevice \/ Network!HandlePrimary) /\ Network!In(tasks_, s)'
  <1>0. signals_ \in Seq(Network!Signal) /\ tasks_ \in Seq(Network!Task)
    BY DEF Network!TypeOK
  <1> SUFFICES ASSUME ~Network!In(signals_, s)'
               PROVE  \/ Network!HandleAccessPoint /\ signals_ # <<>> /\ s = Head(signals_)
                      \/ (Network!HandleDevice \/ Network!HandlePrimary) /\ Network!In(tasks_, s)'
    OBVIOUS
  <1>1. ~Network!In(signals_', s) /\ (Network!In(tasks_, s)' <=> Network!In(tasks_', s))
    BY DEF Network!In
  <1>2. CASE Changes
    BY <1>2, SentBehind
  <1>3. CASE Network!HandleAccessPoint /\ signals_ # <<>> /\ signals_' = Tail(signals_)
    BY <1>0, <1>1, <1>3, InTaken
  <1>4. CASE /\ Network!HandleDevice \/ Network!HandlePrimary
             /\ signals_ # <<>> /\ signals_' = Tail(signals_)
             /\ tasks_' = Append(tasks_, Head(signals_)) /\ Head(signals_) \in Network!Task
    <2>1. s = Head(signals_)
      BY <1>0, <1>1, <1>4, InTaken
    <2> QED
      BY <1>0, <1>1, <1>4, <2>1, InAdded
  <1>5. CASE UNCHANGED signals_
    BY <1>1, <1>5
  <1> QED
    BY <1>2, <1>3, <1>4, <1>5, QueueSteps

\* A task stays until the dispatcher runs it.
LEMMA KeptTasks ==
  ASSUME Network!TypeOK, Network!Next \/ UNCHANGED networkVars, NEW s, Network!In(tasks_, s)
  PROVE  \/ Network!In(tasks_, s)'
         \/ Network!Dispatcher /\ tasks_ # <<>> /\ s = Head(tasks_)
  <1>0. tasks_ \in Seq(Network!Task)
    BY DEF Network!TypeOK
  <1>1. Network!In(tasks_, s)' <=> Network!In(tasks_', s)
    BY DEF Network!In
  <1>2. CASE Changes
    BY <1>1, <1>2, ChangesKeep
  <1>3. CASE tasks_' = tasks_
    BY <1>1, <1>3
  <1>4. CASE tasks_' = Append(tasks_, Head(signals_)) /\ Head(signals_) \in Network!Task
    BY <1>0, <1>1, <1>4, InAdded
  <1>5. CASE Network!Dispatcher /\ tasks_ # <<>> /\ tasks_' = Tail(tasks_)
    BY <1>0, <1>1, <1>5, InTaken
  <1> QED
    BY <1>2, <1>3, <1>4, <1>5, QueueSteps

\* A task was a task, or a signal.
LEMMA NewTasks ==
  ASSUME Network!TypeOK, Network!Next \/ UNCHANGED networkVars, NEW s, Network!In(tasks_, s)'
  PROVE  Network!In(tasks_, s) \/ Network!In(signals_, s)
  <1>0. tasks_ \in Seq(Network!Task) /\ signals_ \in Seq(Network!Signal)
    BY DEF Network!TypeOK
  <1>1. Network!In(tasks_', s)
    BY DEF Network!In
  <1>2. CASE Changes
    BY <1>1, <1>2, ChangesKeep
  <1>3. CASE tasks_' = tasks_
    BY <1>1, <1>3
  <1>4. CASE /\ signals_ # <<>>
             /\ tasks_' = Append(tasks_, Head(signals_)) /\ Head(signals_) \in Network!Task
    BY <1>0, <1>1, <1>4, InAdded, InTaken
  <1>5. CASE tasks_ # <<>> /\ tasks_' = Tail(tasks_)
    BY <1>0, <1>1, <1>5, InTaken
  <1> QED
    BY <1>2, <1>3, <1>4, <1>5, QueueSteps

\* A signal was one, or something has just happened.
LEMMA OldSignals ==
  ASSUME Network!TypeOK, Network!Next \/ UNCHANGED networkVars, NEW s, Network!In(signals_, s)'
  PROVE  Network!In(signals_, s) \/ Changes
  <1>0. signals_ \in Seq(Network!Signal)
    BY DEF Network!TypeOK
  <1>1. Network!In(signals_', s)
    BY DEF Network!In
  <1> QED
    BY <1>0, <1>1, InTaken, QueueSteps

\* A call that is not answered.
LEMMA UnansweredTyped ==
  ASSUME Network!TypeOK, NEW objects, Network!Unanswered(objects)
  PROVE  faults' \in 0 .. MaxFaults /\ missed' = missed \union objects
  BY NetworkAssumption DEF Network!TypeOK, Network!Unanswered

\* What goes into the cache with a device, and the device being visited.
LEMMA DeviceAddedTyped ==
  ASSUME Network!TypeOK, NEW d \in Network!Devices, Network!DeviceAdded(d) \/ Network!DeviceFails(d)
  PROVE  /\ devices' \subseteq Network!Devices /\ devices \subseteq devices'
         /\ faults' \in 0 .. MaxFaults
         /\ missed' \subseteq missed \union {d} /\ missed \ missed' \subseteq Aps
         /\ visit' \in [dev : Wifi, left : SUBSET Aps] \union {Network!NoVisit}
         /\ d \in there => d \in devices' \/ d \in missed'
  <1> USE NetworkAssumption
  <1>1. CASE Network!Known(d)
    BY <1>1 DEF Network!TypeOK, Network!Known
  <1>2. CASE Network!AddCellular(d)
    BY <1>2 DEF Network!TypeOK, Network!AddCellular, Network!Devices
  <1>3. CASE Network!AddWifi(d)
    <2>1. visit' \in [dev : Wifi, left : SUBSET Aps]
      BY <1>3 DEF Network!AddWifi, Network!ApsOf
    <2> QED
      BY <1>3, <2>1 DEF Network!TypeOK, Network!AddWifi, Network!Devices, Network!ApsOf
  <1>4. CASE Network!DeviceFails(d)
    <2>1. UNCHANGED visit
      BY <1>4 DEF Network!DeviceFails
    <2>2. CASE d \notin there /\ UNCHANGED <<devices, faults, missed>>
      BY <2>1, <2>2 DEF Network!TypeOK
    <2>3. CASE Network!Unanswered({d}) /\ UNCHANGED devices
      BY <2>1, <2>3, UnansweredTyped DEF Network!TypeOK
    <2>4. CASE Network!Unanswered({}) /\ devices' = devices \union {d}
      BY <2>1, <2>4, UnansweredTyped DEF Network!TypeOK
    <2> QED
      BY <1>4, <2>2, <2>3, <2>4 DEF Network!DeviceFails
  <1> QED
    BY <1>1, <1>2, <1>3, <1>4 DEF Network!DeviceAdded

\* What goes into the cache of access points, or is missed.
LEMMA AccessPointAddedTyped ==
  ASSUME Network!TypeOK, NEW a \in Aps, Network!AccessPointAdded(a)
  PROVE  /\ wifis' \subseteq Aps /\ faults' \in 0 .. MaxFaults
         /\ \/ /\ missed' = missed
               /\ wifis' = IF DeviceOf[a] \in devices /\ a \in air THEN wifis \union {a} ELSE wifis
            \/ missed' = missed \union {a} /\ wifis' = wifis
  <1>1. CASE UNCHANGED <<faults, missed>>
    BY <1>1 DEF Network!TypeOK, Network!AccessPointAdded, Network!Readable, Network!Unanswered
  <1>2. CASE Network!Unanswered({a}) /\ UNCHANGED wifis
    BY <1>2, UnansweredTyped DEF Network!TypeOK
  <1> QED
    BY <1>1, <1>2 DEF Network!AccessPointAdded

\* What is shown of a connection.
LEMMA ShowsTyped ==
  ASSUME Network!TypeOK, NEW d \in Network!Devices \union {NoDevice}, Network!Shows(d)
  PROVE  /\ via' \in {"none", "wwan", "wifi"} /\ faults' \in 0 .. MaxFaults
         /\ \/ missed' = missed /\ via' \in Network!Characteristics(d)
            \/ missed' = missed \union {d} /\ d \in Network!Devices
  <1>1. CASE via' \in Network!Characteristics(d) /\ UNCHANGED <<faults, missed>>
    <2>1. via' \in {"none", "wwan", "wifi"}
      BY <1>1 DEF Network!Characteristics, Network!Kind
    <2>2. faults' \in 0 .. MaxFaults
      BY <1>1 DEF Network!TypeOK
    <2> QED
      BY <1>1, <2>1, <2>2
  <1>2. CASE d # NoDevice /\ Network!Unanswered({d}) /\ via' = "none"
    <2>1. faults' \in 0 .. MaxFaults /\ missed' = missed \union {d}
      BY <1>2, UnansweredTyped
    <2> QED
      BY <1>2, <2>1
  <1> QED
    BY <1>1, <1>2 DEF Network!Shows

\* TypeOK is kept.
LEMMA NetTypeStep ==
  ASSUME Network!TypeOK, Network!Next \/ UNCHANGED networkVars
  PROVE  Network!TypeOK'
  <1> USE NetworkAssumption
  <1>0. signals_' \in Seq(Network!Signal) /\ tasks_' \in Seq(Network!Task)
    BY QueuesTyped
  <1> USE DEF Network!TypeOK, Network!envVars, Network!setupVars, Network!cacheVars, Network!shownVars
  <1>1. CASE UNCHANGED networkVars
    BY <1>0, <1>1 DEF networkVars
  <1>2. CASE Network!Enumerate
    BY <1>0, <1>2 DEF Network!Enumerate
  <1>3. CASE Network!NetworkManagerIsAbsent
    BY <1>0, <1>3 DEF Network!NetworkManagerIsAbsent, Network!SetupFails
  <1>4. CASE Network!Read
    <2>1. via' \in {"none", "wwan", "wifi"}
      BY <1>4 DEF Network!Read, Network!Characteristics, Network!Kind
    <2>2. faults' \in 0 .. MaxFaults /\ missed' \subseteq missed \union Network!Devices
      <3>1. CASE missed' = missed \ {"primary"} /\ UNCHANGED faults
        BY <3>1
      <3>2. CASE /\ primary # NoDevice /\ faults < MaxFaults /\ faults' = faults + 1
                 /\ missed' = (missed \ {"primary"}) \union {primary}
        <4>1. primary \in Network!Devices /\ missed' \subseteq missed \union {primary}
          BY <3>2
        <4>2. faults' \in 0 .. MaxFaults
          BY <3>2
        <4> QED
          BY <4>1, <4>2
      <3> QED
        BY <1>4, <3>1, <3>2 DEF Network!Read
    <2> QED
      BY <1>0, <1>4, <2>1, <2>2 DEF Network!Read
  <1>14. CASE Network!EnumerateFails \/ Network!ReadFails
    <2>1. Network!Unanswered({})
      BY <1>14 DEF Network!EnumerateFails, Network!ReadFails
    <2>2. faults' \in 0 .. MaxFaults /\ missed' = missed
      BY <2>1 DEF Network!Unanswered
    <2>3. state' \in BOOLEAN
      <3>1. state' = state \/ state' = (primary # NoDevice)
        BY <1>14 DEF Network!EnumerateFails, Network!ReadFails
      <3> QED
        BY <3>1, Zenon
    <2>4. UNCHANGED <<there, air, former, primary, visit, devices, wired, wifis, via>>
      BY <1>14 DEF Network!EnumerateFails, Network!ReadFails
    <2>5. phase_' = "failed" /\ found_' = {}
      BY <1>14 DEF Network!EnumerateFails, Network!ReadFails, Network!SetupFails
    <2> QED
      BY <1>0, <2>2, <2>3, <2>4, <2>5
  <1>5. CASE Network!Connect \/ Network!Watch \/ Network!NetworkManagerRegisters
    BY <1>0, <1>5 DEF Network!Connect, Network!Watch, Network!NetworkManagerRegisters
  <1>6. ASSUME NEW d \in Network!Devices, Network!VisitDevice(d)
        PROVE  Network!TypeOK'
    <2>1. /\ devices' \subseteq Network!Devices /\ faults' \in 0 .. MaxFaults
          /\ missed' \subseteq missed \union {d}
          /\ visit' \in [dev : Wifi, left : SUBSET Aps] \union {Network!NoVisit}
      BY <1>6, DeviceAddedTyped DEF Network!VisitDevice
    <2> QED
      BY <1>0, <1>6, <2>1 DEF Network!VisitDevice
  <1>7. ASSUME NEW d \in Network!Devices, Network!VisitFails(d)
        PROVE  Network!TypeOK'
    <2>1. /\ devices' \subseteq Network!Devices /\ faults' \in 0 .. MaxFaults
          /\ missed' \subseteq missed \union {d}
          /\ visit' \in [dev : Wifi, left : SUBSET Aps] \union {Network!NoVisit}
      BY <1>7, DeviceAddedTyped DEF Network!VisitFails
    <2> QED
      BY <1>0, <1>7, <2>1 DEF Network!VisitFails, Network!SetupFails
  <1>8. CASE Network!ConnectDevice
    <2>1. visit \in [dev : Wifi, left : SUBSET Aps]
      BY <1>8 DEF Network!ConnectDevice
    <2>2. visit.dev \in Wifi
      BY <2>1
    <2> QED
      BY <1>0, <1>8, <2>2 DEF Network!ConnectDevice
  <1>9. ASSUME NEW a \in Aps, Network!VisitAp(a)
        PROVE  Network!TypeOK'
    <2>1. visit' = [visit EXCEPT !.left = @ \ {a}] /\ a \in visit.left
      BY <1>9 DEF Network!VisitAp
    <2>2. visit # Network!NoVisit
      BY <2>1 DEF Network!NoVisit
    <2>3. visit' \in [dev : Wifi, left : SUBSET Aps]
      BY <2>1, <2>2
    <2>4. /\ wifis' \subseteq Aps /\ faults' \in 0 .. MaxFaults
          /\ missed' \subseteq missed \union {a}
      BY <1>9, AccessPointAddedTyped DEF Network!VisitAp
    <2> QED
      BY <1>0, <1>9, <2>3, <2>4 DEF Network!VisitAp
  <1>10. CASE Network!HandleDevice \/ Network!HandlePrimary
    BY <1>0, <1>10 DEF Network!HandleDevice, Network!HandlePrimary, Network!Posts
  <1>11. CASE Network!HandleAccessPoint
    <2>1. Head(signals_).ap \in Aps
      <3>1. Head(signals_) \in Network!Signal
        BY <1>11, Taken DEF Network!HandleAccessPoint, Network!IsFirst
      <3> QED
        BY <1>11, <3>1, NetSignalFields DEF Network!HandleAccessPoint, Network!IsFirst
    <2>2. /\ wifis' \subseteq Aps /\ faults' \in 0 .. MaxFaults
          /\ missed' \subseteq missed \union {Head(signals_).ap}
      BY <1>11, <2>1, AccessPointAddedTyped DEF Network!HandleAccessPoint, Network!AccessPointRemoved
    <2> QED
      BY <1>0, <1>11, <2>1, <2>2 DEF Network!HandleAccessPoint
  <1>12. CASE Network!Dispatcher
    <2>1. Head(tasks_) \in Network!Task
      BY <1>12, Taken DEF Network!Dispatcher, Network!RunAdded, Network!RunRemoved,
                          Network!RunPrimary, Network!IsNext, Network!IsFirst
    <2>2. CASE Network!RunAdded
      <3>1. Head(tasks_).dev \in Network!Devices
        BY <2>1, <2>2, NetTaskFields DEF Network!RunAdded, Network!IsNext, Network!IsFirst
      <3>2. /\ devices' \subseteq Network!Devices /\ faults' \in 0 .. MaxFaults
            /\ missed' \subseteq missed \union {Head(tasks_).dev}
            /\ visit' \in [dev : Wifi, left : SUBSET Aps] \union {Network!NoVisit}
        BY <2>2, <3>1, DeviceAddedTyped DEF Network!RunAdded
      <3> QED
        BY <1>0, <2>2, <3>1, <3>2 DEF Network!RunAdded
    <2>3. CASE Network!RunRemoved
      <3>1. devices' \subseteq devices /\ wired' \subseteq wired
        BY <2>3 DEF Network!RunRemoved
      <3> QED
        BY <1>0, <2>3, <3>1 DEF Network!RunRemoved
    <2>4. CASE Network!RunPrimary
      <3>1. Head(tasks_).dev \in Network!Devices \union {NoDevice}
        BY <2>1, <2>4, NetTaskFields DEF Network!RunPrimary, Network!IsNext, Network!IsFirst
      <3>2. /\ via' \in {"none", "wwan", "wifi"} /\ faults' \in 0 .. MaxFaults
            /\ missed' \subseteq missed \union Network!Devices
        BY <2>4, <3>1, ShowsTyped DEF Network!RunPrimary
      <3> QED
        BY <1>0, <2>4, <3>2 DEF Network!RunPrimary
    <2> QED
      BY <1>12, <2>2, <2>3, <2>4 DEF Network!Dispatcher
  <1>13. CASE Changes
    <2>1. /\ there' \subseteq Network!Devices /\ air' \subseteq Aps
          /\ former' \subseteq Network!Devices \union Aps
          /\ primary' \in Network!Devices \union {NoDevice}
      BY <1>13 DEF Changes, Network!DeviceAppears, Network!DeviceGoes, Network!PrimaryChanges,
                   Network!ApAppears, Network!ApGoes
    <2>2. missed' \subseteq Network!Devices \union Aps \union {"primary"}
      <3>1. ASSUME NEW s \in Network!Signal, NEW lost \in SUBSET Aps, Network!Sends(<<s>>, lost)
            PROVE  missed' \subseteq Network!Devices \union Aps \union {"primary"}
        <4>1. Network!Changed(s) \in Network!Devices \union Aps \union {"primary"}
          BY NetSignalFields DEF Network!Changed
        <4> QED
          BY <3>1, <4>1, OneSent
      <3>2. ASSUME NEW d \in Network!Devices, Network!DeviceAppears(d)
            PROVE  missed' \subseteq Network!Devices \union Aps \union {"primary"}
        BY <3>1, <3>2, DeviceSignalFields DEF Network!DeviceAppears
      <3>3. ASSUME NEW d \in Network!Devices, Network!DeviceGoes(d)
            PROVE  missed' \subseteq Network!Devices \union Aps \union {"primary"}
        <4>1. missed' \subseteq missed \union (air \intersect Network!ApsOf(d)) \union {d, "primary"}
          BY <3>3, GoneSent
        <4> QED
          BY <4>1
      <3>4. ASSUME NEW d \in Network!Devices \union {NoDevice}, Network!PrimaryChanges(d)
            PROVE  missed' \subseteq Network!Devices \union Aps \union {"primary"}
        BY <3>1, <3>4, DeviceSignalFields DEF Network!PrimaryChanges
      <3>5. ASSUME NEW a \in Aps, Network!ApAppears(a) \/ Network!ApGoes(a)
            PROVE  missed' \subseteq Network!Devices \union Aps \union {"primary"}
        BY <3>1, <3>5, ApSignalFields DEF Network!ApAppears, Network!ApGoes
      <3> QED
        BY <1>13, <3>2, <3>3, <3>4, <3>5 DEF Changes
    <2>3. UNCHANGED <<faults, phase_, found_, visit, devices, wired, wifis, via, state>>
      BY <1>13, ChangesKeep
    <2> QED
      BY <1>0, <2>1, <2>2, <2>3
  <1> HIDE DEF Network!TypeOK
  <1> QED
    BY <1>1, <1>2, <1>3, <1>4, <1>5, <1>6, <1>7, <1>8, <1>9, <1>10, <1>11, <1>12, <1>13, <1>14
    DEF Network!Next, Network!Setup, Network!Visiting, Network!BusThread, Network!NetworkManager, Changes

-----------------------------------------------------------------------------
(* One lemma for every part of the invariant of the network stack. *)

\* All the cases of a step, the queues left aside.
LEMMA Steps ==
  ASSUME Network!TypeOK, Network!Next \/ UNCHANGED networkVars
  PROVE  \/ Changes
         \/ /\ UNCHANGED <<there, air, former, primary>>
            /\ \/ UNCHANGED networkVars
               \/ Network!Enumerate \/ Network!NetworkManagerIsAbsent \/ Network!EnumerateFails
               \/ Network!Read \/ Network!ReadFails
               \/ Network!Connect \/ Network!Watch \/ Network!NetworkManagerRegisters
               \/ \E d \in Network!Devices : Network!VisitDevice(d) \/ Network!VisitFails(d)
               \/ Network!ConnectDevice \/ \E a \in Aps : Network!VisitAp(a)
               \/ Network!HandleDevice \/ Network!HandlePrimary
               \/ \E a \in Aps :
                    /\ Head(signals_).ap = a
                    /\ Head(signals_) \in {Network!ApSignal("apAdded", a), Network!ApSignal("apRemoved", a)}
                    /\ Network!In(signals_, Head(signals_))
                    /\ Network!HandleAccessPoint
               \/ \E d \in Network!Devices :
                    /\ Head(tasks_).dev = d /\ Head(tasks_) = Network!DeviceSignal("added", d)
                    /\ Network!RunAdded
               \/ \E d \in Network!Devices :
                    /\ Head(tasks_).dev = d /\ Head(tasks_) = Network!DeviceSignal("removed", d)
                    /\ Network!In(tasks_, Head(tasks_))
                    /\ Network!RunRemoved
               \/ \E d \in Network!Devices \union {NoDevice} :
                    /\ Head(tasks_).dev = d /\ Head(tasks_) = Network!DeviceSignal("primary", d)
                    /\ Network!RunPrimary
  <1>1. CASE Network!HandleAccessPoint
    <2>1. Head(signals_) \in Network!Signal /\ Network!In(signals_, Head(signals_))
      BY <1>1, Taken, InTaken DEF Network!HandleAccessPoint, Network!IsFirst, Network!TypeOK
    <2>2. /\ Head(signals_).ap \in Aps
          /\ Head(signals_) \in {Network!ApSignal("apAdded", Head(signals_).ap),
                                 Network!ApSignal("apRemoved", Head(signals_).ap)}
      BY <1>1, <2>1, NetSignalFields DEF Network!HandleAccessPoint, Network!IsFirst
    <2> QED
      BY <1>1, <2>1, <2>2 DEF Network!HandleAccessPoint, Network!envVars
  <1>2. CASE Network!Dispatcher
    <2>1. Head(tasks_) \in Network!Task /\ Network!In(tasks_, Head(tasks_))
      BY <1>2, Taken, InTaken DEF Network!Dispatcher, Network!RunAdded, Network!RunRemoved,
         Network!RunPrimary, Network!IsNext, Network!IsFirst, Network!TypeOK
    <2>2. UNCHANGED <<there, air, former, primary>>
      BY <1>2 DEF Network!Dispatcher, Network!RunAdded, Network!RunRemoved, Network!RunPrimary,
                  Network!envVars
    <2>3. CASE Network!RunAdded
      <3>1. /\ Head(tasks_).dev \in Network!Devices
            /\ Head(tasks_) = Network!DeviceSignal("added", Head(tasks_).dev)
        BY <2>1, <2>3, NetTaskFields DEF Network!RunAdded, Network!IsNext, Network!IsFirst
      <3> QED
        BY <2>2, <2>3, <3>1
    <2>4. CASE Network!RunRemoved
      <3>1. /\ Head(tasks_).dev \in Network!Devices
            /\ Head(tasks_) = Network!DeviceSignal("removed", Head(tasks_).dev)
        BY <2>1, <2>4, NetTaskFields DEF Network!RunRemoved, Network!IsNext, Network!IsFirst
      <3> QED
        BY <2>1, <2>2, <2>4, <3>1
    <2>5. CASE Network!RunPrimary
      <3>1. /\ Head(tasks_).dev \in Network!Devices \union {NoDevice}
            /\ Head(tasks_) = Network!DeviceSignal("primary", Head(tasks_).dev)
        BY <2>1, <2>5, NetTaskFields DEF Network!RunPrimary, Network!IsNext, Network!IsFirst
      <3> QED
        BY <2>2, <2>5, <3>1
    <2> QED
      BY <1>2, <2>3, <2>4, <2>5 DEF Network!Dispatcher
  <1>3. CASE Network!Setup \/ UNCHANGED networkVars
    BY <1>3 DEF Network!Setup, Network!Enumerate, Network!NetworkManagerIsAbsent,
                Network!EnumerateFails, Network!Read, Network!ReadFails, Network!Connect, Network!Watch, Network!VisitDevice, Network!VisitFails,
                Network!envVars, networkVars
  <1>4. CASE Network!Visiting
    BY <1>4 DEF Network!Visiting, Network!ConnectDevice, Network!VisitAp, Network!envVars
  <1>5. CASE Network!HandleDevice \/ Network!HandlePrimary
    BY <1>5 DEF Network!HandleDevice, Network!HandlePrimary, Network!Posts, Network!envVars
  <1>6. CASE Network!NetworkManager
    BY <1>6 DEF Network!NetworkManager, Network!NetworkManagerRegisters, Changes, Network!envVars
  <1> QED
    BY <1>1, <1>2, <1>3, <1>4, <1>5, <1>6 DEF Network!Next, Network!BusThread

\* Object paths are not used again.
LEMMA ThereIsPast ==
  ASSUME Network!TypeOK, Network!Next \/ UNCHANGED networkVars
  PROVE  former \subseteq former' /\ there \union former \subseteq there' \union former'
  <1>1. CASE Changes
    BY <1>1 DEF Changes, Network!DeviceAppears, Network!DeviceGoes, Network!PrimaryChanges,
                Network!ApAppears, Network!ApGoes
  <1> QED
    BY <1>1, Steps

\* ToldOfThePast is kept: what is told has happened, and object paths are not used again.
LEMMA ToldStep ==
  ASSUME Network!NetworkInv, Network!Next \/ UNCHANGED networkVars
  PROVE  Network!ToldOfThePast'
  <1> USE NetworkAssumption
  <1>0. Network!TypeOK /\ Network!ToldOfThePast /\ former \subseteq former'
        /\ there \union former \subseteq there' \union former'
    BY ThereIsPast DEF Network!NetworkInv
  <1>1. ASSUME NEW s, Network!Pending(s)'
        PROVE  \/ Network!Pending(s)
               \/ \E d \in Network!Devices :
                    Network!DeviceAppears(d) /\ s = Network!DeviceSignal("added", d)
               \/ \E d \in Network!Devices :
                    /\ Network!DeviceGoes(d)
                    /\ s \in {Network!DeviceSignal("removed", d), Network!DeviceSignal("primary", NoDevice)}
               \/ \E d \in Network!Devices \union {NoDevice} :
                    Network!PrimaryChanges(d) /\ s = Network!DeviceSignal("primary", d)
               \/ s.op \in {"apAdded", "apRemoved"}
    <2>1. CASE Network!In(tasks_, s)'
      BY <1>0, <2>1, NewTasks DEF Network!Pending
    <2>2. CASE Network!In(signals_, s)'
      BY <1>0, <2>2, OldSignals, NewSignals, ApSignalFields DEF Network!Pending
    <2> QED
      BY <1>1, <2>1, <2>2 DEF Network!Pending
  <1>2. ASSUME NEW e \in Network!Devices, Network!Pending(Network!DeviceSignal("removed", e))'
        PROVE  e \in former'
    <2>1. \/ Network!Pending(Network!DeviceSignal("removed", e))
          \/ Network!DeviceGoes(e)
      BY <1>1, <1>2, DeviceSignalFields
    <2> QED
      BY <1>0, <2>1 DEF Network!ToldOfThePast, Network!DeviceGoes
  <1>3. ASSUME NEW e \in Network!Devices, Network!Pending(Network!DeviceSignal("primary", e))'
        PROVE  e \in there' \union former'
    <2>1. \/ Network!Pending(Network!DeviceSignal("primary", e))
          \/ Network!PrimaryChanges(e)
      BY <1>1, <1>3, DeviceSignalFields DEF Network!Devices
    <2> QED
      BY <1>0, <2>1 DEF Network!ToldOfThePast, Network!PrimaryChanges, Network!Devices
  <1>4. ASSUME NEW a \in Aps, Network!In(signals_, Network!ApSignal("apRemoved", a))'
        PROVE  a \in former'
    <2>1. \/ Network!In(signals_, Network!ApSignal("apRemoved", a))
          \/ Network!ApGoes(a)
      BY <1>0, <1>4, OldSignals, NewSignals, ApSignalFields, DeviceSignalFields
    <2> QED
      BY <1>0, <2>1 DEF Network!ToldOfThePast, Network!ApGoes
  <1> QED
    BY <1>2, <1>3, <1>4 DEF Network!ToldOfThePast

\* Lifecycle is kept: a task to remove a device is about a former one.
LEMMA LifecycleStep ==
  ASSUME Network!NetworkInv, Network!Next \/ UNCHANGED networkVars
  PROVE  Network!Lifecycle'
  <1> USE NetworkAssumption
  <1>0. Network!TypeOK /\ Network!Lifecycle /\ Network!ToldOfThePast
    BY DEF Network!NetworkInv
  <1>1. CASE Changes
    <2>1. UNCHANGED <<visit, devices, wired, wifis>>
      BY <1>1, ChangesKeep
    <2>2. former \subseteq former'
      BY <1>0, ThereIsPast
    <2> DEFINE Past == /\ former' \intersect (there' \union air') = {}
                       /\ \A a \in air' : DeviceOf[a] \in there'
                       /\ primary' \in there' \union {NoDevice}
    <2>3. Past
      <3>1. ASSUME NEW d \in Network!Devices, Network!DeviceAppears(d)
            PROVE  Past
        BY <1>0, <3>1 DEF Network!DeviceAppears, Network!Lifecycle, Network!TypeOK, Network!Devices
      <3>2. ASSUME NEW d \in Network!Devices, Network!DeviceGoes(d)
            PROVE  Past
        BY <1>0, <3>2 DEF Network!DeviceGoes, Network!Lifecycle, Network!TypeOK, Network!Devices,
           Network!ApsOf
      <3>3. ASSUME NEW d \in Network!Devices \union {NoDevice}, Network!PrimaryChanges(d)
            PROVE  Past
        BY <1>0, <3>3 DEF Network!PrimaryChanges, Network!Lifecycle
      <3>4. ASSUME NEW a \in Aps, Network!ApAppears(a)
            PROVE  Past
        BY <1>0, <3>4 DEF Network!ApAppears, Network!Lifecycle
      <3>5. ASSUME NEW a \in Aps, Network!ApGoes(a)
            PROVE  Past
        BY <1>0, <3>5 DEF Network!ApGoes, Network!Lifecycle, Network!TypeOK, Network!Devices
      <3> QED
        BY <1>1, <3>1, <3>2, <3>3, <3>4, <3>5 DEF Changes
    <2> QED
      BY <1>0, <2>1, <2>2, <2>3 DEF Network!Lifecycle, Network!NoVisit
  <1>2. ASSUME UNCHANGED <<there, air, former, primary>>,
               /\ wired' \subseteq devices' \union former
               /\ visit' # Network!NoVisit => visit'.dev \in devices' \union former
               /\ \A a \in wifis' : DeviceOf[a] \in devices' \union former
        PROVE  Network!Lifecycle'
    BY <1>0, <1>2 DEF Network!Lifecycle, Network!NoVisit
  <1>3. /\ wired \subseteq devices \union former
        /\ visit # Network!NoVisit => visit.dev \in devices \union former
        /\ \A a \in wifis : DeviceOf[a] \in devices \union former
    BY <1>0 DEF Network!Lifecycle
  <1>4. ASSUME UNCHANGED <<there, air, former, primary, visit, devices, wired, wifis>>
        PROVE  Network!Lifecycle'
    BY <1>2, <1>3, <1>4
  <1>5. CASE \/ UNCHANGED networkVars \/ Network!Enumerate \/ Network!NetworkManagerIsAbsent
             \/ Network!EnumerateFails \/ Network!Read
             \/ Network!ReadFails \/ Network!Connect \/ Network!Watch \/ Network!NetworkManagerRegisters
             \/ Network!HandleDevice \/ Network!HandlePrimary \/ Network!RunPrimary
    BY <1>4, <1>5 DEF networkVars, Network!Enumerate, Network!NetworkManagerIsAbsent, Network!Read,
       Network!EnumerateFails, Network!ReadFails, Network!Connect, Network!Watch, Network!NetworkManagerRegisters, Network!HandleDevice,
       Network!HandlePrimary, Network!Posts, Network!RunPrimary, Network!envVars, Network!cacheVars
  <1>6. ASSUME NEW d \in Network!Devices, Network!DeviceAdded(d) \/ Network!DeviceFails(d),
               UNCHANGED <<there, air, former, primary, wired, wifis>>
        PROVE  Network!Lifecycle'
    <2>1. devices \subseteq devices'
      BY <1>0, <1>6, DeviceAddedTyped
    <2>2. visit' = visit \/ (visit'.dev = d /\ d \in devices')
      BY <1>6 DEF Network!DeviceAdded, Network!DeviceFails, Network!Known, Network!AddCellular,
         Network!AddWifi
    <2> QED
      BY <1>2, <1>3, <1>6, <2>1, <2>2
  <1>7. ASSUME NEW d \in Network!Devices, Network!VisitDevice(d) \/ Network!VisitFails(d)
        PROVE  Network!Lifecycle'
    BY <1>6, <1>7 DEF Network!VisitDevice, Network!VisitFails, Network!envVars
  <1>8. ASSUME NEW d \in Network!Devices, Head(tasks_).dev = d, Network!RunAdded
        PROVE  Network!Lifecycle'
    BY <1>6, <1>8 DEF Network!RunAdded, Network!envVars
  <1>9. CASE Network!ConnectDevice
    BY <1>2, <1>3, <1>9 DEF Network!ConnectDevice, Network!envVars
  <1>10. ASSUME NEW a \in Aps, Network!VisitAp(a)
         PROVE  Network!Lifecycle'
    <2>1. visit # Network!NoVisit
      BY <1>10 DEF Network!VisitAp, Network!NoVisit
    <2>2. visit'.dev = visit.dev
      BY <1>0, <1>10, <2>1 DEF Network!VisitAp, Network!TypeOK
    <2> QED
      BY <1>2, <1>3, <1>10, <2>1, <2>2 DEF Network!VisitAp, Network!AccessPointAdded,
         Network!envVars
  <1>11. CASE Network!HandleAccessPoint
    BY <1>2, <1>3, <1>11 DEF Network!HandleAccessPoint, Network!AccessPointAdded,
       Network!AccessPointRemoved, Network!envVars
  <1>12. ASSUME NEW d \in Network!Devices, Head(tasks_).dev = d,
                Head(tasks_) = Network!DeviceSignal("removed", d), Network!In(tasks_, Head(tasks_)),
                Network!RunRemoved
         PROVE  Network!Lifecycle'
    <2>1. d \in former
      BY <1>0, <1>12 DEF Network!ToldOfThePast, Network!Pending
    <2> QED
      BY <1>2, <1>3, <1>12, <2>1 DEF Network!RunRemoved, Network!envVars
  <1> QED
    BY <1>0, <1>1, <1>5, <1>7, <1>8, <1>9, <1>10, <1>11, <1>12, Steps

\* SilentBefore is kept: the proxy of the manager does not exist yet.
LEMMA SilentStep ==
  ASSUME Network!NetworkInv, Network!Next \/ UNCHANGED networkVars
  PROVE  Network!SilentBefore'
  <1>0. Network!TypeOK /\ Network!SilentBefore /\ Network!TypeOK'
    BY NetTypeStep DEF Network!NetworkInv
  <1> SUFFICES ASSUME phase_' # "connected"
               PROVE  tasks_' = <<>> /\ \A i \in DOMAIN signals_' : signals_'[i].op \in {"apAdded", "apRemoved"}
    BY DEF Network!SilentBefore
  <1>1. phase_ # "connected"
    <2>1. CASE Changes
      BY <2>1, ChangesKeep
    <2>2. CASE \/ UNCHANGED networkVars \/ Network!Enumerate \/ Network!NetworkManagerIsAbsent
               \/ Network!EnumerateFails \/ Network!Read
             \/ Network!ReadFails \/ Network!Connect \/ Network!Watch \/ Network!NetworkManagerRegisters
               \/ \E d \in Network!Devices : Network!VisitDevice(d) \/ Network!VisitFails(d)
      BY <2>2 DEF networkVars, Network!Enumerate, Network!NetworkManagerIsAbsent, Network!Read,
         Network!EnumerateFails, Network!ReadFails, Network!Connect, Network!Watch, Network!NetworkManagerRegisters, Network!VisitDevice, Network!VisitFails
    <2>3. CASE \/ Network!ConnectDevice \/ \E a \in Aps : Network!VisitAp(a)
               \/ Network!HandleDevice \/ Network!HandlePrimary \/ Network!HandleAccessPoint
               \/ Network!RunAdded \/ Network!RunRemoved \/ Network!RunPrimary
      BY <2>3 DEF Network!ConnectDevice, Network!VisitAp, Network!HandleDevice,
         Network!HandlePrimary,
         Network!Posts, Network!HandleAccessPoint, Network!RunAdded, Network!RunRemoved,
         Network!RunPrimary, Network!setupVars
    <2> QED
      BY <1>0, <2>1, <2>2, <2>3, Steps
  <1>2. tasks_ = <<>> /\ \A s : Network!In(signals_, s) => s.op \in {"apAdded", "apRemoved"}
    BY <1>0, <1>1 DEF Network!SilentBefore, Network!In
  <1>3. tasks_' = tasks_
    <2>1. CASE (Network!HandleDevice \/ Network!HandlePrimary) /\ signals_ # <<>>
               /\ Head(signals_).op \in {"added", "removed", "primary"}
      <3>1. Network!In(signals_, Head(signals_))
        BY <1>0, <2>1, InTaken DEF Network!TypeOK
      <3> QED
        BY <1>2, <2>1, <3>1
    <2> QED
      BY <1>0, <1>1, <1>2, <2>1, QueueSteps, ChangesKeep
  <1>4. ASSUME NEW s, Network!In(signals_, s)'
        PROVE  s.op \in {"apAdded", "apRemoved"}
    <2>1. \/ Network!In(signals_, s)
          \/ \E a \in Aps : s \in {Network!ApSignal("apAdded", a), Network!ApSignal("apRemoved", a)}
      BY <1>0, <1>1, <1>4, OldSignals, NewSignals
    <2> QED
      BY <1>2, <2>1, ApSignalFields
  <1>5. ASSUME NEW i \in DOMAIN signals_'
        PROVE  signals_'[i].op \in {"apAdded", "apRemoved"}
    <2>1. PICK s : s = signals_'[i]
      OBVIOUS
    <2>2. Network!In(signals_, s)'
      BY <2>1 DEF Network!In
    <2> QED
      BY <1>4, <2>1, <2>2
  <1> QED
    BY <1>2, <1>3, <1>5

\* A change that is not missed is on its way.
LEMMA ToldOrMissed ==
  ASSUME Network!TypeOK
  PROVE  /\ Changes => missed \subseteq missed'
         /\ \A d \in Network!Devices : Network!DeviceAppears(d) /\ d \notin missed' =>
              phase_ = "connected" /\ Network!In(signals_, Network!DeviceSignal("added", d))'
         /\ \A d \in Network!Devices : Network!DeviceGoes(d) =>
              air \intersect Network!ApsOf(d) \subseteq missed'
         /\ \A a \in Aps : Network!ApAppears(a) /\ a \notin missed' =>
              /\ DeviceOf[a] \in devices \union wired
              /\ Network!In(signals_, Network!ApSignal("apAdded", a))'
         /\ \A a \in Aps : Network!ApGoes(a) /\ a \notin missed' =>
              Network!In(signals_, Network!ApSignal("apRemoved", a))'
  <1>0. signals_ \in Seq(Network!Signal)
    BY DEF Network!TypeOK
  <1>1. ASSUME NEW x \in Network!Signal, NEW lost, Network!Sends(<<x>>, lost)
        PROVE  /\ missed \subseteq missed'
               /\ Network!Changed(x) \notin missed' => Network!Told(x) /\ Network!In(signals_', x)
    <2>1. Network!In(Append(signals_, x), x)
      BY <1>0, InAdded
    <2> QED
      BY <1>1, <2>1, OneSent
  <1>2. ASSUME NEW d \in Network!Devices, Network!DeviceAppears(d)
        PROVE  /\ missed \subseteq missed'
               /\ d \notin missed' =>
                    phase_ = "connected" /\ Network!In(signals_, Network!DeviceSignal("added", d))'
    <2>1. PICK x : x = Network!DeviceSignal("added", d)
      OBVIOUS
    <2>2. x \in Network!Signal /\ x.op = "added" /\ x.dev = d
      BY <2>1, DeviceSignalFields
    <2>3. Network!Sends(<<x>>, {})
      BY <1>2, <2>1 DEF Network!DeviceAppears
    <2>4. Network!Changed(x) = d /\ (Network!Told(x) <=> phase_ = "connected")
      BY <2>2 DEF Network!Changed, Network!Told
    <2>5. missed \subseteq missed' /\ (d \notin missed' => phase_ = "connected" /\ Network!In(signals_', x))
      BY <1>1, <2>2, <2>3, <2>4
    <2> QED
      BY <2>1, <2>5 DEF Network!In, Network!DeviceSignal
  <1>3. ASSUME NEW d \in Network!Devices, Network!DeviceGoes(d)
        PROVE  missed \subseteq missed' /\ air \intersect Network!ApsOf(d) \subseteq missed'
    BY <1>3, GoneSent
  <1>4. ASSUME NEW d \in Network!Devices \union {NoDevice}, Network!PrimaryChanges(d)
        PROVE  missed \subseteq missed'
    BY <1>1, <1>4, DeviceSignalFields DEF Network!PrimaryChanges
  <1>5. ASSUME NEW a \in Aps, Network!ApAppears(a)
        PROVE  /\ missed \subseteq missed'
               /\ a \notin missed' =>
                    /\ DeviceOf[a] \in devices \union wired
                    /\ Network!In(signals_, Network!ApSignal("apAdded", a))'
    <2>1. PICK x : x = Network!ApSignal("apAdded", a)
      OBVIOUS
    <2>2. x \in Network!Signal /\ x.op = "apAdded" /\ x.ap = a
      BY <2>1, ApSignalFields
    <2>3. Network!Sends(<<x>>, {})
      BY <1>5, <2>1 DEF Network!ApAppears
    <2>4. Network!Changed(x) = a /\ (Network!Told(x) <=> DeviceOf[a] \in devices \union wired)
      BY <2>2 DEF Network!Changed, Network!Told
    <2>5. /\ missed \subseteq missed'
          /\ a \notin missed' => DeviceOf[a] \in devices \union wired /\ Network!In(signals_', x)
      BY <1>1, <2>2, <2>3, <2>4
    <2> QED
      BY <2>1, <2>5 DEF Network!In, Network!ApSignal
  <1>6. ASSUME NEW a \in Aps, Network!ApGoes(a)
        PROVE  /\ missed \subseteq missed'
               /\ a \notin missed' => Network!In(signals_, Network!ApSignal("apRemoved", a))'
    <2>1. PICK x : x = Network!ApSignal("apRemoved", a)
      OBVIOUS
    <2>2. x \in Network!Signal /\ x.op = "apRemoved" /\ x.ap = a
      BY <2>1, ApSignalFields
    <2>3. Network!Sends(<<x>>, {})
      BY <1>6, <2>1 DEF Network!ApGoes
    <2>4. Network!Changed(x) = a
      BY <2>2 DEF Network!Changed
    <2>5. missed \subseteq missed' /\ (a \notin missed' => Network!In(signals_', x))
      BY <1>1, <2>2, <2>3, <2>4
    <2> QED
      BY <2>1, <2>5 DEF Network!In, Network!ApSignal
  <1> QED
    BY <1>2, <1>3, <1>4, <1>5, <1>6 DEF Changes

\* What comes right of one access point, if x and y are the signals that it
\* appeared and that it went.
ComesRight(a, x, y) ==
  /\ a \in wifis \ air => Network!In(signals_, y)
  /\ a \in air => DeviceOf[a] \in devices
  /\ a \in air \ wifis => \/ visit.dev = DeviceOf[a] /\ a \in visit.left
                          \/ Network!In(signals_, x)

\* AccessPointsComeRight is kept.  Nothing happens to an access point whose signal is not
\* taken; one whose signal is taken becomes right, or is missed.
LEMMA AccessPointStep ==
  ASSUME Network!NetworkInv, Network!Next \/ UNCHANGED networkVars
  PROVE  Network!AccessPointsComeRight'
  <1> USE NetworkAssumption
  <1> SUFFICES ASSUME NEW a \in Aps, a \notin missed'
               PROVE  ComesRight(a, Network!ApSignal("apAdded", a), Network!ApSignal("apRemoved", a))'
    BY DEF Network!AccessPointsComeRight, ComesRight
  <1>1. PICK x, y : x = Network!ApSignal("apAdded", a) /\ y = Network!ApSignal("apRemoved", a)
    OBVIOUS
  <1>2. /\ x.op = "apAdded" /\ y.op = "apRemoved" /\ x.ap = a /\ y.ap = a /\ x # y
        /\ x \in Network!Signal /\ y \in Network!Signal
    BY <1>1, ApSignalFields
  <1>3. /\ Network!TypeOK /\ Network!Lifecycle /\ Network!ToldOfThePast
        /\ a \notin missed => ComesRight(a, x, y)
    BY <1>1 DEF Network!NetworkInv, Network!AccessPointsComeRight, ComesRight
  <1>4. DeviceOf[a] \in Wifi /\ DeviceOf[a] \in Network!Devices /\ a \notin Network!Devices /\ a # "primary"
    BY DEF Network!Devices
  <1> SUFFICES ComesRight(a, x, y)'
    BY <1>1 DEF ComesRight, Network!ApSignal
  <1> DEFINE Right == /\ a \in wifis' \ air' => Network!In(signals_, y)'
                      /\ a \in air' => DeviceOf[a] \in devices'
                      /\ a \in air' \ wifis' => \/ visit'.dev = DeviceOf[a] /\ a \in visit'.left
                                                \/ Network!In(signals_, x)'
  <1> SUFFICES Right
    BY DEF ComesRight
  \* Only HandleAccessPoint takes a signal of an access point.
  <1>5. /\ Network!In(signals_, x) => Network!In(signals_, x)' \/ (Network!HandleAccessPoint /\ Head(signals_) = x)
        /\ Network!In(signals_, y) => Network!In(signals_, y)' \/ (Network!HandleAccessPoint /\ Head(signals_) = y)
    <2>1. ASSUME NEW s \in {x, y}, Network!In(signals_, s), ~Network!In(signals_, s)'
          PROVE  Network!HandleAccessPoint /\ Head(signals_) = s
      <3>1. ~Network!In(tasks_, s)'
        <4> SUFFICES ASSUME Network!In(tasks_, s)'
                     PROVE  FALSE
          OBVIOUS
        <4>1. Network!TypeOK' /\ Network!In(tasks_', s)
          BY <1>3, NetTypeStep DEF Network!In
        <4>2. s \in Network!Task
          BY <4>1, InMember DEF Network!TypeOK
        <4> QED
          BY <1>2, <4>2, NetTaskFields
      <3> QED
        BY <1>3, <2>1, <3>1, KeptSignals
    <2> QED
      BY <2>1
  <1> DEFINE Kept == /\ Network!In(signals_, x) => Network!In(signals_, x)'
                     /\ Network!In(signals_, y) => Network!In(signals_, y)'
  <1>6. ASSUME UNCHANGED signals_
        PROVE  Kept
    BY <1>6 DEF Network!In
  <1> HIDE DEF Kept
  \* Nothing happens to the access point, and no signal of it is taken.
  <1>7. ASSUME a \notin missed, a \in air' <=> a \in air, a \in wifis' <=> a \in wifis,
               a \in air /\ DeviceOf[a] \in devices => DeviceOf[a] \in devices',
               a \in visit.left => a \in visit'.left /\ visit'.dev = visit.dev,
               Kept
        PROVE  Right
    BY <1>3, <1>7 DEF ComesRight, Kept
  <1>8. CASE Changes
    <2>1. UNCHANGED <<visit, devices, wired, wifis>> /\ a \notin missed
      BY <1>3, <1>8, ChangesKeep, ToldOrMissed
    <2>2. Kept
      BY <1>3, <1>8, SentBehind DEF Kept
    <2>3. ASSUME a \in air' <=> a \in air
          PROVE  Right
      BY <1>7, <2>1, <2>2, <2>3
    <2>4. CASE Network!ApAppears(a)
      <3>1. DeviceOf[a] \in devices \union wired /\ Network!In(signals_, x)'
        BY <1>1, <1>3, <2>4, ToldOrMissed
      <3>2. DeviceOf[a] \in there /\ a \in air'
        BY <2>4 DEF Network!ApAppears
      <3>3. DeviceOf[a] \in devices
        BY <1>3, <3>1, <3>2 DEF Network!Lifecycle
      <3> QED
        BY <2>1, <3>1, <3>2, <3>3
    <2>5. CASE Network!ApGoes(a)
      <3>1. Network!In(signals_, y)'
        BY <1>1, <1>3, <2>5, ToldOrMissed
      <3>2. a \notin air'
        BY <2>5 DEF Network!ApGoes
      <3> QED
        BY <3>1, <3>2
    <2>6. ASSUME NEW b \in Aps \ {a}, Network!ApAppears(b) \/ Network!ApGoes(b)
          PROVE  Right
      BY <2>3, <2>6 DEF Network!ApAppears, Network!ApGoes
    <2>7. ASSUME NEW d \in Network!Devices, Network!DeviceGoes(d)
          PROVE  Right
      <3>1. a \notin air \intersect Network!ApsOf(d)
        BY <1>3, <2>7, ToldOrMissed
      <3>2. air' = air \ Network!ApsOf(d)
        BY <2>7 DEF Network!DeviceGoes
      <3> QED
        BY <2>3, <3>1, <3>2
    <2>8. ASSUME \/ \E d \in Network!Devices : Network!DeviceAppears(d)
                 \/ \E d \in Network!Devices \union {NoDevice} : Network!PrimaryChanges(d)
          PROVE  Right
      BY <2>3, <2>8 DEF Network!DeviceAppears, Network!PrimaryChanges
    <2> HIDE DEF Right
    <2> QED
      BY <1>8, <2>4, <2>5, <2>6, <2>7, <2>8 DEF Changes
  <1>9. ASSUME UNCHANGED <<air, wifis, devices, visit>>, missed \subseteq missed' \union {"primary"} \union Network!Devices,
               UNCHANGED signals_ \/ ~Network!HandleAccessPoint
        PROVE  Right
    BY <1>3, <1>4, <1>5, <1>6, <1>7, <1>9 DEF Kept
  <1>10. CASE \/ UNCHANGED networkVars \/ Network!Enumerate \/ Network!NetworkManagerIsAbsent
              \/ Network!EnumerateFails \/ Network!Read \/ Network!ReadFails
              \/ Network!Connect \/ Network!Watch \/ Network!NetworkManagerRegisters
              \/ Network!RunPrimary
    <2>1. /\ UNCHANGED <<air, wifis, devices, visit, signals_>>
          /\ missed \subseteq missed' \union {"primary"} \union Network!Devices
      BY <1>10 DEF networkVars, Network!Enumerate, Network!NetworkManagerIsAbsent,
         Network!EnumerateFails, Network!Read, Network!ReadFails, Network!Unanswered,
         Network!Connect, Network!Watch, Network!NetworkManagerRegisters, Network!RunPrimary,
         Network!Shows, Network!envVars, Network!cacheVars
    <2> QED
      BY <1>9, <2>1
  <1>11. CASE Network!HandleDevice \/ Network!HandlePrimary
    <2>1. UNCHANGED <<air, wifis, devices, visit, missed>> /\ ~Network!HandleAccessPoint
      BY <1>11 DEF Network!HandleDevice, Network!HandlePrimary, Network!Posts, Network!IsFirst,
         Network!HandleAccessPoint, Network!envVars, Network!cacheVars
    <2> QED
      BY <1>9, <2>1
  <1>12. ASSUME NEW d \in Network!Devices, Network!DeviceAdded(d) \/ Network!DeviceFails(d),
                visit = Network!NoVisit, UNCHANGED <<air, wifis, signals_>>
         PROVE  Right
    <2>1. Kept
      BY <1>6, <1>12
    <2>2. visit.left = {}
      BY <1>12 DEF Network!NoVisit
    <2>3. devices \subseteq devices'
      BY <1>3, <1>12, DeviceAddedTyped
    <2>4. CASE Network!AddWifi(d) /\ a \in missed
      BY <1>12, <2>4 DEF Network!AddWifi, Network!ApsOf
    <2>5. CASE a \notin missed
      BY <1>7, <1>12, <2>1, <2>2, <2>3, <2>5
    <2>6. CASE ~Network!AddWifi(d)
      <3>1. missed \subseteq missed'
        BY <1>12, <2>6 DEF Network!DeviceAdded, Network!DeviceFails, Network!Known,
           Network!AddCellular, Network!Unanswered
      <3> QED
        BY <2>5, <3>1
    <2> QED
      BY <2>4, <2>5, <2>6
  <1>13. ASSUME NEW d \in Network!Devices, Network!VisitDevice(d) \/ Network!VisitFails(d)
         PROVE  Right
    BY <1>12, <1>13 DEF Network!VisitDevice, Network!VisitFails, Network!envVars
  <1>14. ASSUME NEW d \in Network!Devices, Head(tasks_).dev = d, Network!RunAdded
         PROVE  Right
    BY <1>12, <1>14 DEF Network!RunAdded, Network!IsNext, Network!envVars
  <1>15. CASE Network!ConnectDevice
    <2>1. UNCHANGED <<air, wifis, devices, signals_, missed>> /\ visit.left = {}
      BY <1>15 DEF Network!ConnectDevice, Network!envVars
    <2> QED
      BY <1>6, <1>7, <2>1
  <1>16. ASSUME NEW b \in Aps, Network!VisitAp(b)
         PROVE  Right
    <2>1. /\ UNCHANGED <<air, devices, signals_>> /\ visit' = [visit EXCEPT !.left = @ \ {b}]
          /\ b \in visit.left /\ Network!AccessPointAdded(b)
      BY <1>16 DEF Network!VisitAp, Network!envVars
    <2>8. /\ missed \subseteq missed' /\ wifis' \in {wifis, wifis \union {b}}
          /\ \/ b \in missed'
             \/ wifis' = IF DeviceOf[b] \in devices /\ b \in air THEN wifis \union {b} ELSE wifis
      BY <1>3, <2>1, AccessPointAddedTyped
    <2>2. visit # Network!NoVisit
      BY <2>1 DEF Network!NoVisit
    <2>3. visit \in [dev : Wifi, left : SUBSET Aps]
      BY <1>3, <2>2 DEF Network!TypeOK
    <2>4. visit'.left = visit.left \ {b} /\ visit'.dev = visit.dev
      BY <2>1, <2>3
    <2>5. Kept
      BY <1>6, <2>1
    <2>6. CASE a # b
      BY <1>7, <2>1, <2>4, <2>5, <2>6, <2>8
    <2>7. CASE a = b
      BY <1>3, <2>1, <2>5, <2>7, <2>8 DEF ComesRight, Kept
    <2> QED
      BY <2>6, <2>7
  <1>17. ASSUME NEW b \in Aps, Head(signals_).ap = b, Network!In(signals_, Head(signals_)),
                Head(signals_) \in {Network!ApSignal("apAdded", b), Network!ApSignal("apRemoved", b)},
                Network!HandleAccessPoint
         PROVE  Right
    <2>1. UNCHANGED <<air, devices, visit>>
      BY <1>17 DEF Network!HandleAccessPoint, Network!envVars
    <2>2. /\ wifis' = wifis \/ wifis' = wifis \union {b} \/ wifis' = wifis \ {b}
          /\ missed \subseteq missed'
          /\ DeviceOf[b] \notin wired => b \in missed'
      BY <1>3, <1>17, AccessPointAddedTyped DEF Network!HandleAccessPoint, Network!AccessPointRemoved
    <2>3. CASE a # b
      <3>1. Head(signals_) \notin {x, y}
        BY <1>2, <1>17, <2>3
      <3>2. Kept
        BY <1>5, <3>1 DEF Kept
      <3> QED
        BY <1>7, <2>1, <2>2, <2>3, <3>2
    <2>4. CASE a = b /\ Head(signals_) = x
      <3>1. DeviceOf[a] \in wired
        BY <2>2, <2>4
      <3>2. /\ wifis' = IF DeviceOf[a] \in devices /\ a \in air THEN wifis \union {a} ELSE wifis
            /\ DeviceOf[a] \in devices
        BY <1>2, <1>3, <1>17, <2>4, <3>1, AccessPointAddedTyped DEF Network!HandleAccessPoint
      <3>3. Network!In(signals_, y) => Network!In(signals_, y)'
        BY <1>2, <1>5, <2>4
      <3> QED
        BY <1>3, <2>1, <2>2, <3>2, <3>3 DEF ComesRight
    <2>5. CASE a = b /\ Head(signals_) = y
      <3>1. wifis' = wifis \ {a}
        BY <1>2, <1>17, <2>2, <2>5 DEF Network!HandleAccessPoint, Network!AccessPointRemoved
      <3>2. a \notin air
        BY <1>1, <1>3, <1>17, <2>5 DEF Network!ToldOfThePast, Network!Lifecycle
      <3> QED
        BY <2>1, <3>1, <3>2
    <2> QED
      BY <1>1, <1>17, <2>3, <2>4, <2>5
  <1>18. ASSUME NEW d \in Network!Devices, Head(tasks_).dev = d,
                Head(tasks_) = Network!DeviceSignal("removed", d), Network!In(tasks_, Head(tasks_)),
                Network!RunRemoved
         PROVE  Right
    <2>1. d \in former
      BY <1>3, <1>18 DEF Network!ToldOfThePast, Network!Pending
    <2>2. /\ UNCHANGED <<air, wifis, signals_, missed, visit>> /\ devices' = devices \ {d}
      BY <1>18 DEF Network!RunRemoved, Network!envVars
    <2>3. a \in air => DeviceOf[a] # d
      BY <1>3, <2>1 DEF Network!Lifecycle
    <2> QED
      BY <1>6, <1>7, <2>2, <2>3
  <1> HIDE DEF Right
  <1> QED
    BY <1>3, <1>8, <1>10, <1>11, <1>13, <1>14, <1>15, <1>16, <1>17, <1>18, Steps

\* What comes right of one device, if x is the signal that it appeared.
DeviceComesRight(e, x) ==
  e \in there =>
    /\ phase_ = "enumerate" => e \in devices \union found_
    /\ phase_ \in {"read", "connected"} => e \in devices \/ Network!Pending(x)

\* DevicesComeRight is kept: a device is told of until RunAdded has cached it.
LEMMA DeviceStep ==
  ASSUME Network!NetworkInv, Network!Next \/ UNCHANGED networkVars
  PROVE  Network!DevicesComeRight'
  <1> USE NetworkAssumption
  <1>0. Network!TypeOK /\ Network!Lifecycle /\ Network!ToldOfThePast /\ Network!TypeOK'
    BY NetTypeStep DEF Network!NetworkInv
  <1>1. there' \subseteq Network!Devices
    BY <1>0 DEF Network!TypeOK
  <1> SUFFICES ASSUME NEW e \in Network!Devices, e \notin missed'
               PROVE  DeviceComesRight(e, Network!DeviceSignal("added", e))'
    BY <1>1 DEF Network!DevicesComeRight, DeviceComesRight
  <1>2. PICK x : x = Network!DeviceSignal("added", e)
    OBVIOUS
  <1>3. x.op = "added" /\ x.dev = e /\ e \notin Aps /\ e # "primary"
    BY <1>2, DeviceSignalFields DEF Network!Devices
  <1>4. e \notin missed => DeviceComesRight(e, x)
    BY <1>2 DEF Network!NetworkInv, Network!DevicesComeRight, DeviceComesRight
  <1> SUFFICES DeviceComesRight(e, x)'
    BY <1>2 DEF DeviceComesRight, Network!Pending, Network!In, Network!DeviceSignal
  <1> DEFINE Right == e \in there' =>
                        /\ phase_' = "enumerate" => e \in devices' \union found_'
                        /\ phase_' \in {"read", "connected"} => e \in devices' \/ Network!Pending(x)'
  <1> SUFFICES Right
    BY DEF DeviceComesRight
  \* The signal, or the task, stays until RunAdded takes it.
  <1>5. Network!Pending(x) => Network!Pending(x)' \/ (Network!RunAdded /\ Head(tasks_) = x)
    <2>1. ASSUME Network!In(signals_, x)
          PROVE  Network!Pending(x)'
      <3>1. ~(Network!HandleAccessPoint /\ x = Head(signals_))
        BY <1>3 DEF Network!HandleAccessPoint, Network!IsFirst
      <3> QED
        BY <1>0, <2>1, <3>1, KeptSignals DEF Network!Pending
    <2>2. ASSUME Network!In(tasks_, x)
          PROVE  Network!Pending(x)' \/ (Network!RunAdded /\ Head(tasks_) = x)
      <3>1. Network!In(tasks_, x)' \/ (Network!Dispatcher /\ x = Head(tasks_))
        BY <1>0, <2>2, KeptTasks
      <3>2. Network!Dispatcher /\ x = Head(tasks_) => Network!RunAdded
        BY <1>3 DEF Network!Dispatcher, Network!RunRemoved, Network!RunPrimary, Network!IsNext,
           Network!IsFirst
      <3> QED
        BY <3>1, <3>2 DEF Network!Pending
    <2> QED
      BY <2>1, <2>2 DEF Network!Pending
  <1>6. ASSUME Network!RunAdded
        PROVE  Right
    <2>1. PICK d : d = Head(tasks_).dev
      OBVIOUS
    <2>2. d \in Network!Devices
      <3>1. Head(tasks_) \in Network!Task
        BY <1>0, <1>6, Taken DEF Network!RunAdded, Network!IsNext, Network!IsFirst, Network!TypeOK
      <3> QED
        BY <1>6, <2>1, <3>1, NetTaskFields DEF Network!RunAdded, Network!IsNext, Network!IsFirst
    <2>3. /\ UNCHANGED <<there, phase_, found_>> /\ phase_ = "connected"
          /\ Network!DeviceAdded(d) \/ Network!DeviceFails(d)
      BY <1>6, <2>1 DEF Network!RunAdded, Network!IsNext, Network!envVars, Network!setupVars
    <2>4. /\ devices \subseteq devices' /\ missed \ missed' \subseteq Aps
          /\ d \in there => d \in devices' \/ d \in missed'
      BY <1>0, <2>2, <2>3, DeviceAddedTyped
    <2>5. e \notin missed
      BY <1>3, <2>4
    <2>6. Head(tasks_) = x => d = e
      BY <1>3, <2>1
    <2> QED
      BY <1>4, <1>5, <2>3, <2>4, <2>5, <2>6 DEF DeviceComesRight
  <1> SUFFICES ASSUME ~Network!RunAdded
               PROVE  Right
    BY <1>6
  \* Nothing happens to the device.
  <1>7. ASSUME e \notin missed, e \in there' => e \in there, UNCHANGED <<phase_, found_>>,
               e \in there /\ e \in devices => e \in devices'
        PROVE  Right
    BY <1>4, <1>5, <1>7 DEF DeviceComesRight
  <1>8. CASE Changes
    <2>1. UNCHANGED <<phase_, found_, devices>> /\ e \notin missed
      BY <1>0, <1>8, ChangesKeep, ToldOrMissed
    <2>2. ASSUME e \in there' => e \in there
          PROVE  Right
      BY <1>7, <2>1, <2>2
    <2>3. CASE Network!DeviceAppears(e)
      <3>1. phase_ = "connected" /\ Network!In(signals_, x)'
        BY <1>0, <1>2, <2>3, ToldOrMissed
      <3> QED
        BY <2>1, <3>1 DEF Network!Pending
    <2>4. ASSUME \/ \E d \in Network!Devices \ {e} : Network!DeviceAppears(d)
                 \/ \E d \in Network!Devices : Network!DeviceGoes(d)
                 \/ \E d \in Network!Devices \union {NoDevice} : Network!PrimaryChanges(d)
                 \/ \E a \in Aps : Network!ApAppears(a) \/ Network!ApGoes(a)
          PROVE  Right
      BY <2>2, <2>4 DEF Network!DeviceAppears, Network!DeviceGoes, Network!PrimaryChanges,
         Network!ApAppears, Network!ApGoes
    <2> HIDE DEF Right
    <2> QED
      BY <1>8, <2>3, <2>4 DEF Changes
  <1>9. CASE \/ UNCHANGED networkVars \/ Network!HandleDevice \/ Network!HandlePrimary
             \/ Network!RunPrimary \/ Network!ConnectDevice \/ \E a \in Aps : Network!VisitAp(a)
    <2>1. UNCHANGED <<there, devices, phase_, found_>> /\ missed \subseteq missed'
      BY <1>9 DEF networkVars, Network!HandleDevice, Network!HandlePrimary, Network!Posts,
         Network!RunPrimary, Network!Shows, Network!ConnectDevice, Network!VisitAp,
         Network!AccessPointAdded, Network!Unanswered,
         Network!envVars, Network!setupVars, Network!cacheVars
    <2> QED
      BY <1>7, <2>1
  <1>10. CASE Network!HandleAccessPoint
    <2>1. UNCHANGED <<there, devices, phase_, found_>> /\ missed \subseteq missed'
      BY <1>10 DEF Network!HandleAccessPoint, Network!AccessPointAdded, Network!Unanswered,
         Network!envVars, Network!setupVars
    <2> QED
      BY <1>7, <2>1
  <1>11. CASE \/ Network!NetworkManagerIsAbsent \/ Network!EnumerateFails \/ Network!ReadFails
              \/ Network!Watch \/ Network!NetworkManagerRegisters
              \/ \E d \in Network!Devices : Network!VisitFails(d)
    <2>1. phase_' \notin {"enumerate", "read", "connected"}
      BY <1>11 DEF Network!NetworkManagerIsAbsent, Network!EnumerateFails, Network!ReadFails,
         Network!Watch, Network!NetworkManagerRegisters, Network!VisitFails, Network!SetupFails
    <2> QED
      BY <2>1
  <1>12. CASE Network!Enumerate
    BY <1>12 DEF Network!Enumerate, Network!envVars
  <1>13. CASE Network!Read
    <2>1. /\ phase_ = "enumerate" /\ found_ = {} /\ phase_' = "read"
          /\ missed \subseteq missed' \union {"primary"}
          /\ UNCHANGED <<there, devices>>
      BY <1>13 DEF Network!Read, Network!envVars, Network!cacheVars
    <2> QED
      BY <1>3, <1>4, <2>1 DEF DeviceComesRight
  <1>14. CASE Network!Connect
    <2>1. /\ phase_ = "read" /\ phase_' = "connected"
          /\ UNCHANGED <<there, devices, missed>>
      BY <1>14 DEF Network!Connect, Network!envVars, Network!cacheVars
    <2> QED
      BY <1>4, <1>5, <2>1 DEF DeviceComesRight
  <1>15. ASSUME NEW d \in Network!Devices, Network!VisitDevice(d)
         PROVE  Right
    <2>1. /\ UNCHANGED <<there, phase_>> /\ phase_ = "enumerate" /\ found_' = found_ \ {d}
          /\ Network!DeviceAdded(d)
      BY <1>15 DEF Network!VisitDevice, Network!envVars
    <2>2. devices \subseteq devices' /\ missed \ missed' \subseteq Aps
      BY <1>0, <2>1, DeviceAddedTyped
    <2>3. d \in devices'
      BY <2>1 DEF Network!DeviceAdded, Network!Known, Network!AddCellular, Network!AddWifi
    <2> QED
      BY <1>3, <1>4, <2>1, <2>2, <2>3 DEF DeviceComesRight
  <1>16. ASSUME NEW d \in Network!Devices, Head(tasks_).dev = d,
                Head(tasks_) = Network!DeviceSignal("removed", d), Network!In(tasks_, Head(tasks_)),
                Network!RunRemoved
         PROVE  Right
    <2>1. d \in former
      BY <1>0, <1>16 DEF Network!ToldOfThePast, Network!Pending
    <2>2. UNCHANGED <<there, missed, phase_, found_>> /\ devices' = devices \ {d}
      BY <1>16 DEF Network!RunRemoved, Network!envVars, Network!setupVars
    <2>3. e \in there => e # d
      BY <1>0, <2>1 DEF Network!Lifecycle
    <2> QED
      BY <1>7, <2>2, <2>3
  <1> HIDE DEF Right
  <1> QED
    BY <1>0, <1>8, <1>9, <1>10, <1>11, <1>12, <1>13, <1>14, <1>15, <1>16, Steps

\* A device appears before it becomes the primary one, if x is the signal of
\* the latter and y of the former.
IsAddedFirst(x, y) ==
  /\ Ordered(signals_, x, y) /\ Ordered(tasks_, x, y)
  /\ Network!In(tasks_, x) => ~Network!In(signals_, y)

\* What is sent of a change, except of a device that appears, is not y.
LEMMA OrderSent ==
  ASSUME Network!TypeOK, Changes, NEW x, NEW y, y.op = "added", Ordered(signals_, x, y),
         y \in Network!Signal,
         Network!DeviceAppears(y.dev) => ~Network!In(signals_, x)
  PROVE  /\ Ordered(signals_, x, y)'
         /\ Network!In(signals_, y)' => Network!In(signals_, y) \/ Network!DeviceAppears(y.dev)
  <1>0. signals_ \in Seq(Network!Signal) /\ y.dev \in Network!Devices
        /\ y = Network!DeviceSignal("added", y.dev)
    BY NetSignalFields DEF Network!TypeOK
  <1>1. ASSUME Network!In(signals_, y)'
        PROVE  Network!In(signals_, y) \/ Network!DeviceAppears(y.dev)
    <2>1. \/ Network!In(signals_, y)
          \/ \E d \in Network!Devices : Network!DeviceAppears(d) /\ y = Network!DeviceSignal("added", d)
      BY <1>0, <1>1, NewSignals, DeviceSignalFields, ApSignalFields
    <2> QED
      BY <1>0, <2>1, DeviceSignalFields
  <1>2. ASSUME NEW s \in Network!Signal, NEW lost, Network!Sends(<<s>>, lost),
               s = y => ~Network!In(signals_, x)
        PROVE  Ordered(signals_', x, y)
    <2>1. signals_' = signals_ \/ signals_' = Append(signals_, s)
      BY <1>2, OneSent
    <2>2. Ordered(Append(signals_, s), x, y)
      BY <1>0, <1>2, OrderedAdded
    <2> QED
      BY <2>1, <2>2
  <1>3. ASSUME NEW d \in Network!Devices, Network!DeviceAppears(d)
        PROVE  Ordered(signals_', x, y)
    <2>1. PICK s : s = Network!DeviceSignal("added", d)
      OBVIOUS
    <2>2. s \in Network!Signal /\ s.dev = d
      BY <2>1, DeviceSignalFields
    <2>3. Network!Sends(<<s>>, {})
      BY <1>3, <2>1 DEF Network!DeviceAppears
    <2> QED
      BY <1>2, <1>3, <2>2, <2>3
  <1>4. ASSUME NEW d \in Network!Devices, Network!DeviceGoes(d)
        PROVE  Ordered(signals_', x, y)
    <2>1. PICK gone, over : /\ gone = Network!DeviceSignal("removed", d)
                            /\ over = Network!DeviceSignal("primary", NoDevice)
      OBVIOUS
    <2>2. /\ gone \in Network!Signal /\ over \in Network!Signal
          /\ signals_' \in {signals_, Append(signals_, gone), Append(Append(signals_, over), gone)}
      BY <1>4, <2>1, GoneSent
    <2>3. gone # y /\ over # y
      BY <2>1, DeviceSignalFields
    <2>4. Ordered(Append(signals_, gone), x, y) /\ Ordered(Append(signals_, over), x, y)
      BY <1>0, <2>2, <2>3, OrderedAdded
    <2>5. PICK q : q = Append(signals_, over) /\ q \in Seq(Network!Signal)
      BY <1>0, <2>2, Added
    <2>6. Ordered(Append(q, gone), x, y)
      BY <2>2, <2>3, <2>4, <2>5, OrderedAdded
    <2> QED
      BY <2>2, <2>4, <2>5, <2>6
  <1>5. ASSUME NEW d \in Network!Devices \union {NoDevice}, Network!PrimaryChanges(d)
        PROVE  Ordered(signals_', x, y)
    <2>1. PICK s : s = Network!DeviceSignal("primary", d)
      OBVIOUS
    <2>2. s \in Network!Signal /\ s # y
      BY <2>1, DeviceSignalFields
    <2>3. Network!Sends(<<s>>, {})
      BY <1>5, <2>1 DEF Network!PrimaryChanges
    <2> QED
      BY <1>2, <2>2, <2>3
  <1>6. ASSUME NEW a \in Aps, NEW op \in {"apAdded", "apRemoved"},
               Network!Sends(<<Network!ApSignal(op, a)>>, {})
        PROVE  Ordered(signals_', x, y)
    <2>1. PICK s : s = Network!ApSignal(op, a)
      OBVIOUS
    <2>2. s \in Network!Signal /\ s # y
      BY <2>1, ApSignalFields
    <2> QED
      BY <1>2, <1>6, <2>1, <2>2
  <1>7. Ordered(signals_', x, y)
    BY <1>3, <1>4, <1>5, <1>6 DEF Changes, Network!ApAppears, Network!ApGoes
  <1> QED
    BY <1>1, <1>7 DEF Ordered

\* AddedFirst is kept: a device that appears was never the primary one.
LEMMA AddedFirstStep ==
  ASSUME Network!NetworkInv, Network!Next \/ UNCHANGED networkVars
  PROVE  Network!AddedFirst'
  <1>0. Network!TypeOK /\ Network!Lifecycle /\ Network!ToldOfThePast
    BY DEF Network!NetworkInv
  <1>1. signals_ \in Seq(Network!Signal) /\ tasks_ \in Seq(Network!Task)
    BY <1>0 DEF Network!TypeOK
  <1> SUFFICES ASSUME NEW d \in Network!Devices
               PROVE  IsAddedFirst(Network!DeviceSignal("primary", d), Network!DeviceSignal("added", d))'
    BY DEF Network!AddedFirst, IsAddedFirst, Ordered
  <1>2. PICK x, y : x = Network!DeviceSignal("primary", d) /\ y = Network!DeviceSignal("added", d)
    OBVIOUS
  <1>3. x.op = "primary" /\ y.op = "added" /\ x # y /\ y \in Network!Signal /\ y.dev = d
    BY <1>2, DeviceSignalFields
  <1>4. IsAddedFirst(x, y)
    BY <1>2 DEF Network!NetworkInv, Network!AddedFirst, IsAddedFirst, Ordered
  <1> SUFFICES IsAddedFirst(x, y)'
    BY <1>2 DEF IsAddedFirst, Ordered, Network!In, Network!DeviceSignal
  <1> SUFFICES /\ Ordered(signals_', x, y) /\ Ordered(tasks_', x, y)
               /\ Network!In(tasks_', x) => ~Network!In(signals_', y)
    BY DEF IsAddedFirst, Ordered, Network!In
  <1>5. CASE UNCHANGED <<signals_, tasks_>>
    BY <1>4, <1>5 DEF IsAddedFirst
  <1>6. CASE signals_ # <<>> /\ signals_' = Tail(signals_) /\ UNCHANGED tasks_
    BY <1>1, <1>4, <1>6, OrderedTaken, InTaken DEF IsAddedFirst
  <1>7. CASE /\ signals_ # <<>> /\ signals_' = Tail(signals_)
             /\ tasks_' = Append(tasks_, Head(signals_)) /\ Head(signals_) \in Network!Task
    <2>1. PICK s \in Network!Task : s = Head(signals_)
      BY <1>7
    <2>2. Network!In(signals_, s) /\ Ordered(signals_', x, y) /\ (s = x => ~Network!In(signals_', y))
          /\ (Network!In(signals_', y) => Network!In(signals_, y))
      BY <1>1, <1>4, <1>7, <2>1, OrderedTaken, InTaken DEF IsAddedFirst
    <2>3. Ordered(tasks_', x, y)
      BY <1>1, <1>4, <1>7, <2>1, <2>2, OrderedAdded DEF IsAddedFirst
    <2>4. Network!In(tasks_', x) => Network!In(tasks_, x) \/ s = x
      BY <1>1, <1>7, <2>1, InAdded
    <2> QED
      BY <1>4, <2>2, <2>3, <2>4 DEF IsAddedFirst
  <1>8. CASE tasks_ # <<>> /\ tasks_' = Tail(tasks_) /\ UNCHANGED signals_
    BY <1>1, <1>4, <1>8, OrderedTaken, InTaken DEF IsAddedFirst
  <1>9. CASE Changes
    <2>1. Network!DeviceAppears(d) => ~Network!Pending(x)
      BY <1>0, <1>2 DEF Network!ToldOfThePast, Network!DeviceAppears
    <2>2. /\ Ordered(signals_', x, y)
          /\ Network!In(signals_', y) => Network!In(signals_, y) \/ Network!DeviceAppears(d)
      <3>1. /\ Ordered(signals_, x, y)'
            /\ Network!In(signals_, y)' => Network!In(signals_, y) \/ Network!DeviceAppears(d)
        BY <1>0, <1>3, <1>4, <1>9, <2>1, OrderSent DEF IsAddedFirst, Network!Pending
      <3> QED
        BY <3>1 DEF Ordered, Network!In
    <2>3. tasks_' = tasks_
      BY <1>9, ChangesKeep
    <2> QED
      BY <1>4, <2>1, <2>2, <2>3 DEF IsAddedFirst, Network!Pending
  <1> QED
    BY <1>0, <1>5, <1>6, <1>7, <1>8, <1>9, QueueSteps

\* The characteristics of a device that is cached, or of none.
LEMMA OfPrimary ==
  ASSUME Network!TypeOK, NEW v \in Network!Characteristics(primary),
         primary \in devices \intersect there \/ primary = NoDevice
  PROVE  v = Network!Kind(primary)
  <1> USE NetworkAssumption
  <1>1. NoDevice \notin devices /\ Network!Kind(NoDevice) = "none"
    BY DEF Network!TypeOK, Network!Devices, Network!Kind
  <1> QED
    BY <1>1 DEF Network!Characteristics

\* What is sent says what the primary connection is now, or is not missed.
LEMMA PrimarySent ==
  ASSUME Network!TypeOK, Changes, "primary" \notin missed'
  PROVE  \/ UNCHANGED primary /\ signals_' = signals_
         \/ \E s \in Network!Signal :
              s.op # "primary" /\ UNCHANGED primary /\ signals_' = Append(signals_, s)
         \/ \E s \in Network!Signal :
              /\ s.op = "primary" /\ s.dev = primary' /\ phase_ = "connected"
              /\ \/ signals_' = Append(signals_, s)
                 \/ \E r \in Network!Signal : r.op # "primary" /\ signals_' = Append(Append(signals_, s), r)
  <1>1. ASSUME NEW s \in Network!Signal, NEW lost, Network!Sends(<<s>>, lost), s.op # "primary",
               UNCHANGED primary
        PROVE  \/ UNCHANGED primary /\ signals_' = signals_
               \/ \E r \in Network!Signal :
                    r.op # "primary" /\ UNCHANGED primary /\ signals_' = Append(signals_, r)
    BY <1>1, OneSent
  <1>2. ASSUME NEW d \in Network!Devices, Network!DeviceAppears(d)
        PROVE  \/ UNCHANGED primary /\ signals_' = signals_
               \/ \E r \in Network!Signal :
                    r.op # "primary" /\ UNCHANGED primary /\ signals_' = Append(signals_, r)
    BY <1>1, <1>2, DeviceSignalFields DEF Network!DeviceAppears
  <1>3. ASSUME NEW a \in Aps, Network!ApAppears(a) \/ Network!ApGoes(a)
        PROVE  \/ UNCHANGED primary /\ signals_' = signals_
               \/ \E r \in Network!Signal :
                    r.op # "primary" /\ UNCHANGED primary /\ signals_' = Append(signals_, r)
    BY <1>1, <1>3, ApSignalFields DEF Network!ApAppears, Network!ApGoes
  <1>4. ASSUME NEW d \in Network!Devices \union {NoDevice}, Network!PrimaryChanges(d)
        PROVE  \E s \in Network!Signal :
                 /\ s.op = "primary" /\ s.dev = primary' /\ phase_ = "connected"
                 /\ signals_' = Append(signals_, s)
    <2>1. PICK s : s = Network!DeviceSignal("primary", d)
      OBVIOUS
    <2>2. s \in Network!Signal /\ s.op = "primary" /\ s.dev = d
      BY <2>1, DeviceSignalFields
    <2>3. Network!Sends(<<s>>, {}) /\ primary' = d
      BY <1>4, <2>1 DEF Network!PrimaryChanges
    <2>4. Network!Changed(s) = "primary" /\ (Network!Told(s) <=> phase_ = "connected")
      BY <2>2 DEF Network!Changed, Network!Told
    <2> QED
      BY <2>2, <2>3, <2>4, OneSent
  <1>5. ASSUME NEW d \in Network!Devices, Network!DeviceGoes(d)
        PROVE  \/ UNCHANGED primary /\ signals_' = signals_
               \/ \E s \in Network!Signal :
                    s.op # "primary" /\ UNCHANGED primary /\ signals_' = Append(signals_, s)
               \/ \E s, r \in Network!Signal :
                    /\ s.op = "primary" /\ s.dev = primary' /\ phase_ = "connected"
                    /\ r.op # "primary" /\ signals_' = Append(Append(signals_, s), r)
    <2>1. PICK gone, over : /\ gone = Network!DeviceSignal("removed", d)
                            /\ over = Network!DeviceSignal("primary", NoDevice)
      OBVIOUS
    <2>2. /\ gone \in Network!Signal /\ over \in Network!Signal
          /\ gone.op # "primary" /\ over.op = "primary" /\ over.dev = NoDevice
      BY <1>5, <2>1, GoneSent, DeviceSignalFields
    <2>3. CASE primary # d
      <3>1. UNCHANGED primary
        BY <1>5, <2>3 DEF Network!DeviceGoes
      <3>2. signals_' \in {signals_, Append(signals_, gone)}
        BY <1>5, <2>1, <2>3, GoneSent
      <3> QED
        BY <2>2, <3>1, <3>2
    <2>4. CASE primary = d
      <3>1. primary' = NoDevice
        BY <1>5, <2>4 DEF Network!DeviceGoes
      <3>2. phase_ = "connected" /\ signals_' = Append(Append(signals_, over), gone)
        BY <1>5, <2>1, <2>4, GoneSent
      <3> QED
        BY <2>2, <3>1, <3>2
    <2> QED
      BY <2>3, <2>4
  <1> QED
    BY <1>2, <1>3, <1>4, <1>5 DEF Changes

\* PrimaryComesRight is kept.  RunPrimary finds the device of the last change cached: it was
\* told of before, so nothing that adds it is on its way any more.
LEMMA PrimaryStep ==
  ASSUME Network!NetworkInv, Network!Next \/ UNCHANGED networkVars
  PROVE  Network!PrimaryComesRight'
  <1> USE NetworkAssumption
  <1>0. Network!TypeOK /\ Network!Lifecycle /\ Network!SilentBefore /\ Network!DevicesComeRight
        /\ Network!AddedFirst
    BY DEF Network!NetworkInv
  <1>1. /\ signals_ \in Seq(Network!Signal) /\ tasks_ \in Seq(Network!Task)
        /\ primary \in Network!Devices \union {NoDevice} /\ primary \notin Aps /\ primary # "primary"
        /\ NoDevice \notin missed
    BY <1>0 DEF Network!TypeOK, Network!Devices
  <1> SUFFICES ASSUME "primary" \notin missed'
               PROVE  /\ EndsWith(signals_', primary')
                      /\ Network!NoPrimary(signals_') =>
                           /\ state' = (primary' # NoDevice)
                           /\ EndsWith(tasks_', primary')
                           /\ Network!NoPrimary(tasks_') /\ primary' \notin missed' =>
                                via' = Network!Kind(primary')
                      /\ phase_' \notin {"read", "connected"} => primary' = NoDevice /\ via' = "none"
    BY DEF Network!PrimaryComesRight, EndsWith, Network!LastPrimary, Network!NoPrimary, Network!Kind
  <1> DEFINE Was == /\ EndsWith(signals_, primary)
                    /\ Network!NoPrimary(signals_) =>
                         /\ state = (primary # NoDevice)
                         /\ EndsWith(tasks_, primary)
                         /\ Network!NoPrimary(tasks_) /\ primary \notin missed => via = Network!Kind(primary)
                    /\ phase_ \notin {"read", "connected"} => primary = NoDevice /\ via = "none"
  <1>2. "primary" \notin missed => Was
    BY DEF Network!NetworkInv, Network!PrimaryComesRight, EndsWith, Network!LastPrimary,
       Network!NoPrimary
  <1> DEFINE Now == /\ EndsWith(signals_', primary')
                    /\ Network!NoPrimary(signals_') =>
                         /\ state' = (primary' # NoDevice)
                         /\ EndsWith(tasks_', primary')
                         /\ Network!NoPrimary(tasks_') /\ primary' \notin missed' =>
                              via' = Network!Kind(primary')
                    /\ phase_' \notin {"read", "connected"} => primary' = NoDevice /\ via' = "none"
  <1> SUFFICES Now
    OBVIOUS
  \* Nothing happens to the primary connection.
  <1>3. ASSUME UNCHANGED <<signals_, tasks_, primary, state, via>>, "primary" \notin missed,
               primary \in missed /\ primary # NoDevice => primary \in missed',
               phase_ \in {"read", "connected"} => phase_' \in {"read", "connected"}
        PROVE  Now
    BY <1>1, <1>2, <1>3
  <1>4. CASE \/ UNCHANGED networkVars \/ Network!NetworkManagerIsAbsent \/ Network!Connect
             \/ Network!Watch \/ Network!NetworkManagerRegisters
             \/ Network!ConnectDevice \/ \E a \in Aps : Network!VisitAp(a)
    <2>1. UNCHANGED <<signals_, tasks_, primary, state, via>> /\ missed \subseteq missed'
      BY <1>4 DEF networkVars, Network!NetworkManagerIsAbsent, Network!Connect, Network!Watch,
         Network!NetworkManagerRegisters, Network!ConnectDevice, Network!VisitAp,
         Network!AccessPointAdded, Network!Unanswered, Network!envVars, Network!shownVars
    <2>2. phase_ \in {"read", "connected"} => phase_' \in {"read", "connected"}
      BY <1>4 DEF networkVars, Network!NetworkManagerIsAbsent, Network!Connect, Network!Watch,
         Network!NetworkManagerRegisters, Network!ConnectDevice, Network!VisitAp, Network!setupVars
    <2> HIDE DEF Now
    <2> QED
      BY <1>3, <2>1, <2>2
  <1>5. CASE Network!Enumerate
    <2>1. /\ UNCHANGED <<signals_, tasks_, primary, state, via>> /\ missed' = missed \ Network!Devices
          /\ phase_ \in {"start", "posted"}
      BY <1>5 DEF Network!Enumerate, Network!envVars, Network!shownVars
    <2>2. "primary" \notin missed
      BY <2>1 DEF Network!Devices
    <2>3. primary = NoDevice
      BY <1>2, <2>1, <2>2
    <2> HIDE DEF Now
    <2> QED
      BY <1>3, <2>1, <2>2, <2>3
  <1>6. ASSUME NEW d \in Network!Devices, Network!DeviceAdded(d) \/ Network!DeviceFails(d)
        PROVE  "primary" \notin missed /\ (primary \in missed => primary \in missed')
    <2>1. missed \ missed' \subseteq Aps
      BY <1>0, <1>6, DeviceAddedTyped
    <2> QED
      BY <1>1, <2>1
  <1>7. ASSUME NEW d \in Network!Devices, Network!VisitDevice(d) \/ Network!VisitFails(d)
        PROVE  Now
    <2>1. /\ UNCHANGED <<signals_, tasks_, primary, state, via>>
          /\ phase_ = "enumerate"
          /\ Network!DeviceAdded(d) \/ Network!DeviceFails(d)
      BY <1>7 DEF Network!VisitDevice, Network!VisitFails, Network!envVars, Network!shownVars
    <2> HIDE DEF Now
    <2> QED
      BY <1>3, <1>6, <2>1
  <1>15. CASE Network!EnumerateFails \/ Network!ReadFails
    <2>1. /\ UNCHANGED <<signals_, tasks_, primary, via, missed>>
          /\ state' \in {state, primary # NoDevice}
          /\ phase_ \notin {"read", "connected"}
      BY <1>15 DEF Network!EnumerateFails, Network!ReadFails, Network!Unanswered, Network!envVars,
         Network!shownVars
    <2>2. Network!NoPrimary(signals_)
      BY <1>0, <2>1 DEF Network!SilentBefore, Network!NoPrimary
    <2>3. UNCHANGED state
      BY <1>2, <2>1, <2>2
    <2> HIDE DEF Now
    <2> QED
      BY <1>3, <2>1, <2>3
  <1>8. CASE Network!Read
    <2>1. /\ phase_ = "enumerate" /\ found_ = {} /\ phase_' = "read"
          /\ UNCHANGED <<signals_, tasks_, primary>>
          /\ state' = (primary # NoDevice)
          /\ \/ missed' = missed \ {"primary"} /\ via' \in Network!Characteristics(primary)
             \/ primary \in missed'
      BY <1>8 DEF Network!Read, Network!envVars
    <2>2. Network!NoPrimary(signals_) /\ Network!NoPrimary(tasks_)
      BY <1>0, <2>1 DEF Network!SilentBefore, Network!NoPrimary
    <2>3. EndsWith(signals_, primary) /\ EndsWith(tasks_, primary)
      BY <2>2 DEF EndsWith, Network!LastPrimary, Network!NoPrimary
    <2>4. ASSUME primary \notin missed'
          PROVE  via' = Network!Kind(primary)
      <3>1. primary \in there => primary \in devices
        BY <1>0, <1>1, <2>1, <2>4 DEF Network!DevicesComeRight
      <3>2. primary \in devices \intersect there \/ primary = NoDevice
        BY <1>0, <3>1 DEF Network!Lifecycle
      <3>3. via' \in Network!Characteristics(primary)
        BY <2>1, <2>4
      <3> QED
        BY <1>0, <3>2, <3>3, OfPrimary
    <2> QED
      BY <2>1, <2>2, <2>3, <2>4
  <1>9. CASE Network!HandleAccessPoint
    <2>1. /\ signals_ # <<>> /\ signals_' = Tail(signals_) /\ Head(signals_).op # "primary"
          /\ UNCHANGED <<tasks_, primary, state, via, phase_>> /\ missed \subseteq missed'
      BY <1>9 DEF Network!HandleAccessPoint, Network!AccessPointAdded, Network!Unanswered,
         Network!IsFirst, Network!envVars, Network!shownVars, Network!setupVars
    <2>2. EndsWith(signals_', primary) /\ (Network!NoPrimary(signals_') => Network!NoPrimary(signals_))
      BY <1>1, <1>2, <2>1, EndTaken
    <2> QED
      BY <1>2, <2>1, <2>2
  <1>10. CASE Network!HandleDevice
    <2>1. /\ signals_ # <<>> /\ signals_' = Tail(signals_) /\ Head(signals_).op \in {"added", "removed"}
          /\ tasks_' = Append(tasks_, Head(signals_))
          /\ UNCHANGED <<primary, state, via, phase_, missed>>
      BY <1>10 DEF Network!HandleDevice, Network!Posts, Network!IsFirst, Network!envVars,
         Network!setupVars
    <2>2. PICK s \in Network!Task : s = Head(signals_)
      BY <1>1, <2>1, Taken, NetSignalFields
    <2>3. EndsWith(signals_', primary) /\ (Network!NoPrimary(signals_') => Network!NoPrimary(signals_))
      BY <1>1, <1>2, <2>1, EndTaken
    <2>4. /\ EndsWith(tasks_, primary) => EndsWith(tasks_', primary)
          /\ Network!NoPrimary(tasks_') => Network!NoPrimary(tasks_)
      BY <1>1, <2>1, <2>2, EndAdded
    <2> QED
      BY <1>2, <2>1, <2>3, <2>4
  <1>11. CASE Network!HandlePrimary
    <2>1. /\ signals_ # <<>> /\ signals_' = Tail(signals_) /\ Head(signals_).op = "primary"
          /\ tasks_' = Append(tasks_, Head(signals_)) /\ state' = (Head(signals_).dev # NoDevice)
          /\ UNCHANGED <<primary, via, phase_, missed>>
      BY <1>11 DEF Network!HandlePrimary, Network!Posts, Network!IsFirst, Network!envVars,
         Network!setupVars
    <2>2. PICK s \in Network!Task : s = Head(signals_)
      BY <1>1, <2>1, Taken, NetSignalFields
    <2>3. EndsWith(signals_', primary) /\ (Network!NoPrimary(signals_') => s.dev = primary)
      BY <1>1, <1>2, <2>1, <2>2, EndTaken
    <2>4. EndsWith(tasks_', s.dev) /\ ~Network!NoPrimary(tasks_')
      BY <1>1, <2>1, <2>2, EndAdded
    <2> QED
      BY <1>2, <2>1, <2>2, <2>3, <2>4
  <1>12. ASSUME NEW d \in Network!Devices, Head(tasks_).dev = d, Network!RunAdded \/ Network!RunRemoved
         PROVE  Now
    <2>1. /\ tasks_ # <<>> /\ tasks_' = Tail(tasks_) /\ Head(tasks_).op # "primary"
          /\ UNCHANGED <<signals_, primary, state, via, phase_>>
      BY <1>12 DEF Network!RunAdded, Network!RunRemoved, Network!IsNext, Network!IsFirst,
         Network!envVars, Network!shownVars, Network!setupVars
    <2>2. "primary" \notin missed /\ (primary \in missed => primary \in missed')
      BY <1>6, <1>12 DEF Network!RunAdded, Network!RunRemoved
    <2>3. /\ EndsWith(tasks_, primary) => EndsWith(tasks_', primary)
          /\ Network!NoPrimary(tasks_') => Network!NoPrimary(tasks_)
      BY <1>1, <2>1, EndTaken
    <2> QED
      BY <1>2, <2>1, <2>2, <2>3
  <1>13. ASSUME NEW d \in Network!Devices \union {NoDevice}, Head(tasks_).dev = d,
                Head(tasks_) = Network!DeviceSignal("primary", d), Network!RunPrimary
         PROVE  Now
    <2>1. /\ tasks_ # <<>> /\ tasks_' = Tail(tasks_) /\ Head(tasks_).op = "primary" /\ phase_ = "connected"
          /\ UNCHANGED <<signals_, primary, state, phase_>>
          /\ missed \subseteq missed'
          /\ via' \in Network!Characteristics(d) \/ d \in missed'
      BY <1>13 DEF Network!RunPrimary, Network!Shows, Network!Unanswered, Network!IsNext,
         Network!IsFirst, Network!envVars, Network!setupVars
    <2>2. /\ EndsWith(tasks_, primary) => EndsWith(tasks_', primary)
          /\ EndsWith(tasks_, primary) /\ Network!NoPrimary(tasks_') => d = primary
      BY <1>1, <1>13, <2>1, EndTaken
    <2>3. ASSUME Network!NoPrimary(signals_), Network!NoPrimary(tasks_'), primary \notin missed'
          PROVE  via' = Network!Kind(primary)
      <3>1. d = primary
        BY <1>2, <2>1, <2>2, <2>3
      <3>4. via' \in Network!Characteristics(primary)
        BY <2>1, <2>3, <3>1
      <3>2. CASE primary \in Network!Devices
        <4>1. PICK x, y : /\ x = Network!DeviceSignal("primary", primary)
                          /\ y = Network!DeviceSignal("added", primary)
          OBVIOUS
        <4>2. x # y /\ Head(tasks_) = x
          BY <1>13, <3>1, <4>1, DeviceSignalFields
        <4>3. /\ Ordered(tasks_, x, y)
              /\ Network!In(tasks_, x) => ~Network!In(signals_, y)
          BY <1>0, <3>2, <4>1 DEF Network!AddedFirst, Ordered
        <4>4. Network!In(tasks_, x) /\ ~Network!In(tasks_, y)
          BY <1>1, <2>1, <4>2, <4>3, InTaken, OrderedTaken
        <4>5. ~Network!Pending(y)
          BY <4>3, <4>4 DEF Network!Pending
        <4>6. primary \in there
          BY <1>0, <3>2 DEF Network!Lifecycle, Network!Devices
        <4>7. primary \in devices
          BY <1>0, <2>1, <2>3, <4>1, <4>5, <4>6 DEF Network!DevicesComeRight
        <4> QED
          BY <1>0, <3>4, <4>6, <4>7, OfPrimary
      <3>3. CASE primary = NoDevice
        BY <1>0, <3>3, <3>4, OfPrimary
      <3> QED
        BY <1>1, <3>2, <3>3
    <2> QED
      BY <1>2, <2>1, <2>2, <2>3
  <1>14. CASE Changes
    <2>1. /\ UNCHANGED <<tasks_, state, via, phase_>> /\ missed \subseteq missed'
      BY <1>0, <1>14, ChangesKeep, ToldOrMissed
    <2>2. CASE UNCHANGED primary /\ signals_' = signals_
      BY <1>2, <2>1, <2>2
    <2>3. ASSUME NEW s \in Network!Signal, s.op # "primary", UNCHANGED primary, signals_' = Append(signals_, s)
          PROVE  Now
      <3>1. EndsWith(signals_', primary) /\ (Network!NoPrimary(signals_') => Network!NoPrimary(signals_))
        BY <1>1, <1>2, <2>1, <2>3, EndAdded
      <3> QED
        BY <1>2, <2>1, <2>3, <3>1
    <2>4. ASSUME NEW s \in Network!Signal, s.op = "primary", s.dev = primary', phase_ = "connected",
                 \/ signals_' = Append(signals_, s)
                 \/ \E r \in Network!Signal : r.op # "primary" /\ signals_' = Append(Append(signals_, s), r)
          PROVE  Now
      <3>1. PICK q : q = Append(signals_, s)
        OBVIOUS
      <3>2. q \in Seq(Network!Signal) /\ EndsWith(q, primary') /\ ~Network!NoPrimary(q)
        BY <1>1, <2>4, <3>1, EndAdded, Added
      <3>3. ASSUME NEW r \in Network!Signal, r.op # "primary"
            PROVE  EndsWith(Append(q, r), primary') /\ ~Network!NoPrimary(Append(q, r))
        BY <3>2, <3>3, EndAdded
      <3>4. EndsWith(signals_', primary') /\ ~Network!NoPrimary(signals_')
        BY <2>4, <3>1, <3>2, <3>3
      <3> QED
        BY <2>1, <2>4, <3>4
    <2> HIDE DEF Now
    <2> QED
      BY <1>0, <1>14, <2>2, <2>3, <2>4, PrimarySent
  <1> HIDE DEF Now, Was
  <1> QED
    BY <1>0, <1>4, <1>5, <1>7, <1>8, <1>9, <1>10, <1>11, <1>12, <1>13, <1>14, <1>15, Steps

\* The network stack starts right.
LEMMA NetworkInitInv ==
  ASSUME Network!Init
  PROVE  Network!NetworkInv
  <1> USE NetworkAssumption DEF Network!Init
  <1>1. DOMAIN signals_ = {} /\ DOMAIN tasks_ = {}
    OBVIOUS
  <1>2. \A s : ~Network!In(signals_, s) /\ ~Network!In(tasks_, s)
    BY <1>1 DEF Network!In
  <1>3. Network!TypeOK
    <2>1. 0 \in 0 .. MaxFaults
      OBVIOUS
    <2>2. <<>> \in Seq(Network!Signal) /\ <<>> \in Seq(Network!Task)
      OBVIOUS
    <2>3. visit \in [dev : Wifi, left : SUBSET Aps] \union {Network!NoVisit}
      OBVIOUS
    <2> QED
      BY <2>1, <2>2, <2>3 DEF Network!TypeOK
  <1>4. Network!Lifecycle /\ Network!ToldOfThePast /\ Network!SilentBefore
    BY <1>1, <1>2 DEF Network!Lifecycle, Network!ToldOfThePast, Network!Pending,
       Network!SilentBefore
  <1>5. Network!AccessPointsComeRight /\ Network!DevicesComeRight /\ Network!AddedFirst
    BY <1>1, <1>2 DEF Network!AccessPointsComeRight, Network!DevicesComeRight, Network!AddedFirst
  <1>6. Network!PrimaryComesRight
    <2>1. Network!Kind(NoDevice) = "none"
      BY DEF Network!Kind
    <2> QED
      BY <1>1, <2>1 DEF Network!PrimaryComesRight, Network!LastPrimary
  <1> QED
    BY <1>3, <1>4, <1>5, <1>6 DEF Network!NetworkInv

\* No step of the network stack breaks its invariant.
LEMMA NetworkStepInv ==
  ASSUME Network!NetworkInv, Network!Next \/ UNCHANGED networkVars
  PROVE  Network!NetworkInv'
  <1>1. Network!TypeOK
    BY DEF Network!NetworkInv
  <1> QED
    BY <1>1, NetTypeStep, LifecycleStep, ToldStep, SilentStep, AccessPointStep, DeviceStep,
       AddedFirstStep, PrimaryStep DEF Network!NetworkInv

\* Once everything is handled, nothing is left to come right.
LEMMA NetworkImplies ==
  ASSUME Network!NetworkInv
  PROVE  WifisAreInAir /\ ConnectionIsCurrent
  <1> USE NetworkAssumption
  <1>0. Network!TypeOK /\ Network!Lifecycle
    BY DEF Network!NetworkInv
  <1> SUFFICES ASSUME Network!Quiet
               PROVE  /\ \A a \in Aps \ missed : a \in wifis <=> a \in air /\ DeviceOf[a] \in devices
                      /\ "primary" \notin missed => state = (primary # NoDevice)
                      /\ {"primary", primary} \intersect missed = {} => via = Network!Kind(primary)
    BY DEF WifisAreInAir, ConnectionIsCurrent, Network!WifisAreInAir, Network!ConnectionIsCurrent
  <1>1. DOMAIN signals_ = {} /\ DOMAIN tasks_ = {} /\ visit = Network!NoVisit
    BY DEF Network!Quiet
  <1>2. \A s : ~Network!In(signals_, s)
    BY <1>1 DEF Network!In
  <1>3. visit.left = {}
    BY <1>1 DEF Network!NoVisit
  <1>4. ASSUME NEW a \in Aps \ missed
        PROVE  a \in wifis <=> a \in air /\ DeviceOf[a] \in devices
    BY <1>2, <1>3 DEF Network!NetworkInv, Network!AccessPointsComeRight
  <1>5. Network!NoPrimary(signals_) /\ Network!NoPrimary(tasks_)
    BY <1>1 DEF Network!NoPrimary
  <1>6. ASSUME "primary" \notin missed
        PROVE  state = (primary # NoDevice) /\ (primary \notin missed => via = Network!Kind(primary))
    BY <1>5, <1>6 DEF Network!NetworkInv, Network!PrimaryComesRight
  <1> QED
    BY <1>4, <1>6

-----------------------------------------------------------------------------
(* Both stacks. *)

\* The caches of both stacks are right but for what is on its way: the handlers of
\* ofono_nm_connectivity_manager.cpp keep that, in whatever order the three threads run them.
THEOREM ConnectivityIsInvariant == ConnectivitySpec => []ConnectivityInv
  <1>1. ConnectivityInit => ConnectivityInv
    BY RadioInitInv, NetworkInitInv DEF ConnectivityInit, ConnectivityInv
  <1>2. ConnectivityInv /\ [ConnectivityNext]_allVars => ConnectivityInv'
    <2> SUFFICES ASSUME ConnectivityInv, [ConnectivityNext]_allVars
                 PROVE  ConnectivityInv'
      OBVIOUS
    <2>1. RadioInv /\ Network!NetworkInv
      BY DEF ConnectivityInv
    <2>2. Next \/ UNCHANGED vars
      BY DEF ConnectivityNext, allVars
    <2>3. Network!Next \/ UNCHANGED networkVars
      BY DEF ConnectivityNext, allVars
    <2> QED
      BY <2>1, <2>2, <2>3, RadioStepInv, NetworkStepInv DEF ConnectivityInv
  <1> QED
    BY <1>1, <1>2, PTL DEF ConnectivitySpec

\* Every variable of the connectivity manager keeps its type.
THEOREM ConnectivityTypes == ConnectivitySpec => []ConnectivityTypeOK
  <1>1. ConnectivityInv => ConnectivityTypeOK
    BY DEF ConnectivityInv, RadioInv, Network!NetworkInv, ConnectivityTypeOK
  <1> QED
    BY <1>1, ConnectivityIsInvariant, PTL

\* on_modem_removed() and the posted tasks leave no cell behind, and once everything is
\* handled no cell is one its modem had before it went.
THEOREM CellsAreSound == ConnectivitySpec => []CellCacheIsSound
  <1>1. ConnectivityInv => CellCacheIsSound
    BY RadioImplies DEF ConnectivityInv
  <1> QED
    BY <1>1, ConnectivityIsInvariant, PTL

\* execute_cell_change_heuristics_if_appropriate() never calls an incomplete 3G cell valid.
THEOREM ValidCellsAreComplete == ConnectivitySpec => []ValidUmtsIsComplete
  <1>1. ConnectivityInv => ValidUmtsIsComplete
    BY RadioImplies DEF ConnectivityInv
  <1> QED
    BY <1>1, ConnectivityIsInvariant, PTL

\* Once everything is handled, the cache of access points is what NetworkManager has, of
\* those whose last change it told: on_device_added() may let go of the lock.
THEOREM AccessPointsAreRight == ConnectivitySpec => []WifisAreInAir
  <1>1. ConnectivityInv => WifisAreInAir
    BY NetworkImplies DEF ConnectivityInv
  <1> QED
    BY <1>1, ConnectivityIsInvariant, PTL

\* Once everything is handled, state and characteristics are those of the primary connection:
\* its device is cached when characteristics_for_connection() looks for it.
THEOREM ConnectionIsRight == ConnectivitySpec => []ConnectionIsCurrent
  <1>1. ConnectivityInv => ConnectionIsCurrent
    BY NetworkImplies DEF ConnectivityInv
  <1> QED
    BY <1>1, ConnectivityIsInvariant, PTL
=============================================================================
