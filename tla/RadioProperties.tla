-------------------------- MODULE RadioProperties --------------------------
(* What RadioStack is meant to achieve. *)
EXTENDS RadioStack

\* Nothing of what oFono did is still on its way to the caches.
Quiet == phase = "connected" /\ signals = <<>> /\ tasks = <<>>

(* A cell is cached only for a modem that is cached: a cell that is made by *)
(* a posted task after its modem was removed would never be removed again   *)
(* (on_modem_removed() has run already).                                    *)
CellsHaveModems == \A m \in Modems : HasCell(m) => m \in modems

(* A cell made for a modem that is back is not the cell it had before: once *)
(* everything is handled, technology and identity are ones the modem had    *)
(* since it was last heard to go.  (They need not be the latest: a signal   *)
(* in the queue may reach a cell that was made after it was sent.)          *)
NotAFormerCell ==
  Quiet => \A m \in modems :
    {cells[m].type, cells[m].id} \subseteq seen[m] \union {"none", "unknown", "junk"}

(* A cached cell belongs to a cached modem as it is now.                    *)
CellCacheIsSound == CellsHaveModems /\ NotAFormerCell

(* When the handlers have returned, a 3G cell on problematic firmware is    *)
(* not reported valid with details that a change of technology has dropped. *)
(* Before that it may be: the handler assigns, tells of the change and runs *)
(* the heuristics last (cached_radio_cell.cpp 326-329 and 497-522), and     *)
(* timer, dispatcher and readers take no notice of how far it has come.     *)
ValidUmtsIsComplete ==
  \A m \in problematic :
    cells[m].type = "umts" /\ cells[m].valid /\ ~cells[m].due => Complete(cells[m])

\* A 3G cell reported valid that the device has left.
Outdated(m) ==
  /\ m \in problematic
  /\ cells[m].type = "umts" /\ cells[m].valid
  /\ cells[m].id \in CellIds /\ cells[m].id # net[m].id

(* The reason for the timer: a cell the firmware says nothing about any     *)
(* more does not stay valid for ever.                                       *)
StaleCellsExpire == \A m \in Modems : Outdated(m) ~> ~Outdated(m)

-----------------------------------------------------------------------------
(* Why the cache of cells is sound: what a cell shows, and what the signals  *)
(* on their way will make it show, is forgiven only while the signal that    *)
(* its modem went is on its way, too.                                        *)


\* The manager has still to be told, by a signal behind i, that m went.
GoesAfter(m, i) ==
  \E j \in DOMAIN signals : j > i /\ signals[j].op = "removed" /\ signals[j].m = m

Unknown == {"none", "unknown", "junk"}

\* A cell shows what its modem had since it was last heard to go.
CellsAreSeen ==
  \A m \in Modems :
    GoesAfter(m, 0) \/ {cells[m].type, cells[m].id} \subseteq seen[m] \union Unknown

\* So do the signals of a registration.
SignalsAreSeen ==
  \A i \in DOMAIN signals :
    LET s == signals[i] IN
    GoesAfter(s.m, i) \/
      /\ s.op = "technology" => s.tech \in seen[s.m]
      /\ s.op = "id" => s.id \in seen[s.m]

\* What oFono would answer counts as seen.
AnswersAreSeen ==
  \A m \in Modems : {net[m].tech, net[m].id} \subseteq seen[m] \union Unregistered \union {"none"}

RadioInv ==
  /\ TypeOK
  /\ CellsHaveModems
  /\ ValidUmtsIsComplete
  /\ CellsAreSeen
  /\ SignalsAreSeen
  /\ AnswersAreSeen
=============================================================================
