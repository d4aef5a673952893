----------------------------- MODULE Persistence -----------------------------
(***************************************************************************)
(* The settings of the daemon across its lives: the engine stores an enum  *)
(* whenever it changes (engine.cpp 108-116), SyncingSettings writes the    *)
(* whole file each time (settings.h 111-115), and the engine reads it when *)
(* it is constructed (engine.cpp 96-106).  The file is truncated and       *)
(* written in place.  Only the process dies: the file is never synced      *)
(* (boost_ptree_settings.cpp 45), and what a failure of the power or the   *)
(* kernel leaves of a completed write is not modelled.                     *)
(***************************************************************************)
EXTENDS Naturals

CONSTANTS
  Absent,       \* no value for a key
  Unreadable,   \* a file that read_ini does not accept
  MaxSets,      \* bound: how often a value is set
  MaxFaults     \* bound: how often the daemon is killed or a write fails

VARIABLES
  phase,     \* of the daemon
  memory,    \* [Keys -> value]: the properties of the engine
  tree,      \* BoostPtreeSettings::tree
  file,      \* what is on the disk
  pending,   \* the key whose slot is to store its value
  writing,   \* is the file truncated and not yet written?
  sets,
  faults,
  asked,     \* the values set last (history)
  unsure,    \* keys with a spoilt write since their last good one (history)
  stale      \* keys whose last value was never on its way to the disk (history)

boundVars == <<sets, faults>>
historyVars == <<asked, unsure, stale>>
vars == <<phase, memory, tree, file, pending, writing, boundVars, historyVars>>

Keys == {"state", "reporting"}
Values(k) == IF k = "state" THEN {"off", "on", "active"} ELSE {"off", "on"}

\* A value that was cut short is none that the engine knows.
Texts == {"off", "on", "active", "cut", Absent}
Nothing == [k \in Keys |-> Absent]

TypeOK ==
  /\ phase \in {"down", "running", "stopping"}
  /\ memory \in [Keys -> Texts] /\ asked \in [Keys -> Texts] /\ tree \in [Keys -> Texts]
  /\ file \in [Keys -> Texts] \union {Unreadable}
  /\ \A k \in Keys :
       /\ memory[k] \in Values(k) /\ asked[k] \in Values(k)
       /\ tree[k] \in Values(k) \union {"cut", Absent}
       /\ file # Unreadable => file[k] \in Values(k) \union {"cut", Absent}
  /\ pending \in Keys \union {Absent} /\ writing \in BOOLEAN
  /\ sets \in 0 .. MaxSets /\ faults \in 0 .. MaxFaults
  /\ unsure \subseteq Keys /\ stale \subseteq Keys

\* Mutant: reporting is opt-out.
Defaults_OptOut == [state |-> "on", reporting |-> "on"]

\* Engine::Configuration::Defaults
Defaults == [state |-> "on", reporting |-> "off"]

Init ==
  /\ phase = "down" /\ memory = Defaults
  /\ tree = Nothing /\ file = Nothing
  /\ pending = Absent /\ writing = FALSE
  /\ sets = 0 /\ faults = 0
  /\ asked = Defaults /\ unsure = {} /\ stale = {}

-----------------------------------------------------------------------------
\* get_enum_for_key: what is not there is the default.
Parsed(k) == IF tree'[k] = Absent THEN Defaults[k] ELSE tree'[k]

\* The file is read into the tree, which stays empty if that fails.
ReadIni == tree' = IF file = Unreadable THEN Nothing ELSE file

\* Engine::Engine reads the two states; a text it cannot resolve throws, and
\* the daemon does not come up.
Construct ==
  /\ phase = "down"
  /\ ReadIni
  /\ IF \E k \in Keys : tree'[k] = "cut"
       THEN UNCHANGED <<phase, memory>>
       ELSE phase' = "running" /\ memory' = [k \in Keys |-> Parsed(k)]
  /\ UNCHANGED <<file, pending, writing, boundVars, historyVars>>

\* A property of the engine gets a new value, and its slot is called.
SetState(k, v) ==
  /\ phase = "running" /\ pending = Absent
  /\ sets < MaxSets /\ v # memory[k]
  /\ memory' = [memory EXCEPT ![k] = v]
  /\ asked' = [asked EXCEPT ![k] = v]
  /\ pending' = k
  /\ sets' = sets + 1
  /\ UNCHANGED <<phase, tree, file, writing, faults, unsure, stale>>

-----------------------------------------------------------------------------
\* Mutant: the value is added, and the first one for the key is found.
Put_Added(k) == IF tree[k] = Absent THEN [tree EXCEPT ![k] = memory[k]] ELSE tree

\* set_enum_for_key
Put(k) == [tree EXCEPT ![k] = memory[k]]

\* write_ini opens the file, which empties it, ...
OpenFile ==
  /\ pending \in Keys /\ ~writing
  /\ tree' = Put(pending)
  /\ file' = Nothing /\ writing' = TRUE
  /\ UNCHANGED <<phase, memory, pending, boundVars, historyVars>>

\* The call that stored the value of k returns.  ~Engine stores both.
Returned(k) ==
  /\ pending' = IF phase = "stopping" /\ k = "state" THEN "reporting" ELSE Absent
  /\ phase' = IF phase = "stopping" /\ k = "reporting" THEN "down" ELSE phase

\* The pending key, if what is stored is what was asked for.
Stored == {k \in Keys : k = pending /\ memory[k] = asked[k]}

\* ... and writes it.
WriteFile ==
  /\ writing
  /\ file' = tree /\ writing' = FALSE
  /\ Returned(pending)
  /\ unsure' = unsure \ Stored /\ stale' = stale \ Stored
  /\ UNCHANGED <<memory, tree, boundVars, asked>>

\* What a write that was not completed leaves: some lines, perhaps a last one
\* that was cut.
Torn ==
  {Unreadable} \union
  {[k \in Keys |-> IF k \in whole THEN tree[k]
                   ELSE IF k = cut /\ tree[k] # Absent THEN "cut" ELSE Absent] :
   whole \in SUBSET Keys, cut \in Keys \union {Absent}}

\* sync() logs an ini_parser_error and goes on.
WriteFails ==
  /\ faults < MaxFaults
  /\ faults' = faults + 1
  /\ pending \in Keys
  /\ \/ /\ ~writing
        /\ tree' = Put(pending) /\ UNCHANGED file
        /\ unsure' = unsure \union {pending} /\ stale' = stale \union {pending}
     \/ /\ writing
        /\ file' \in Torn /\ UNCHANGED tree
        /\ unsure' = Keys /\ stale' = stale \ Stored
  /\ writing' = FALSE
  /\ Returned(pending)
  /\ UNCHANGED <<memory, sets, asked>>

-----------------------------------------------------------------------------
\* ~Engine; the SyncingSettings that goes with it writes the same once more.
Stop ==
  /\ phase = "running" /\ pending = Absent
  /\ phase' = "stopping" /\ pending' = "state"
  /\ UNCHANGED <<memory, tree, file, writing, boundVars, historyVars>>

\* The daemon is killed; what it has written stays with the system, which
\* goes on.
Crash ==
  /\ phase # "down"
  /\ faults < MaxFaults
  /\ faults' = faults + 1
  /\ phase' = "down" /\ pending' = Absent /\ writing' = FALSE
  /\ IF writing
       THEN file' \in Torn /\ unsure' = Keys /\ stale' = stale \ Stored
       ELSE /\ unsure' = unsure \union (Keys \intersect {pending})
            /\ stale' = stale \union (Keys \intersect {pending})
            /\ UNCHANGED file
  /\ UNCHANGED <<memory, tree, sets, asked>>

Next ==
  \/ Construct \/ Stop \/ Crash
  \/ \E k \in Keys : \E v \in Values(k) : SetState(k, v)
  \/ OpenFile \/ WriteFile \/ WriteFails

-----------------------------------------------------------------------------
(***************************************************************************)
(* A state whose last call has returned, and with no write spoilt since,   *)
(* is in force in every later life of the daemon, however often other      *)
(* states were written and the daemon was stopped or killed, as long as    *)
(* the system goes on (boost_ptree_settings.cpp 28-51).                    *)
(***************************************************************************)
SettingsSurvive ==
  phase = "running" => \A k \in Keys \ unsure : memory[k] = asked[k]

(***************************************************************************)
(* A file that was truncated, cut or cannot be read never makes the daemon *)
(* report the cells and wifis of a user whose last word was no: reporting  *)
(* comes back only if the "off" was never on its way to the disk           *)
(* (engine.h 99-102, boost_ptree_settings.cpp 30-50).                      *)
(***************************************************************************)
OptOutHolds ==
  /\ phase = "running"
  /\ memory["reporting"] = "on"
  /\ "reporting" \notin stale
  => asked["reporting"] = "on"

-----------------------------------------------------------------------------
(* Why this holds: the inductive invariant. *)

\* t holds v for k: as such, or as the default of what is not there.
Holds(t, k, v) == t # Unreadable /\ v = (IF t[k] = Absent THEN Defaults[k] ELSE t[k])

PhasesInv ==
  /\ phase = "down" => pending = Absent /\ ~writing
  /\ writing => pending \in Keys /\ file = Nothing /\ tree[pending] = memory[pending]

\* A value is in the file, or about to be written.
SurvivesInv ==
  \A k \in Keys \ unsure :
    /\ phase # "down" => memory[k] = asked[k]
    /\ phase # "down" /\ k # pending => Holds(tree, k, asked[k])
    /\ ~writing /\ k # pending => Holds(file, k, asked[k])

\* Nothing that could be read again says "on".
OptOutInv ==
  LET k == "reporting" IN
    k \notin stale /\ asked[k] = "off" =>
      /\ phase # "down" => memory[k] = "off"
      /\ k # pending \/ writing =>
           tree[k] # "on" /\ (file = Unreadable \/ file[k] # "on")

SettingsInv ==
  /\ TypeOK
  /\ PhasesInv
  /\ SurvivesInv
  /\ OptOutInv
=============================================================================
