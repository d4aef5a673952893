------------------------------- MODULE Reports -------------------------------
(***************************************************************************)
(* What is said of a measurement: the report of a position with the radio  *)
(* environment it was made in (ichnaea_reporter.cpp 248-407, radio_cell.h, *)
(* cached_wireless_network.cpp), and the signals a location of the driver  *)
(* of the GPS becomes (android_hardware_abstraction_layer.cpp 185-226).    *)
(***************************************************************************)
EXTENDS Integers, SequencesExt

-----------------------------------------------------------------------------
(* Bounded integers (bounded_integer.h). *)

Lowest == 0
Highest == 1
Unset == Lowest - 1      \* what the default constructor makes
Invalid == Highest + 2   \* what reset() makes

IsValid(v) == Lowest <= v /\ v <= Highest

\* A new instance is made of raw and assigned, unless raw is refused.
Assigned(old, raw) == IF IsValid(raw) THEN raw ELSE old

\* Mutant: percentages are what they should be.
Capped_Not(percent) == percent

\* from_percent, with percent in hundredths
Capped(percent) == IF percent < 0 THEN 0 ELSE IF percent > 100 THEN 100 ELSE percent
FromPercent(weakest, strongest, percent) ==
  weakest + (Capped(percent) * (strongest - weakest)) \div 100

(***************************************************************************)
(* Every percentage becomes a strength within its bounds, a greater one no *)
(* smaller strength (bounded_integer.h 74-86).                             *)
(***************************************************************************)
KeepsOrder(weakest, strongest, low, high) ==
  /\ FromPercent(weakest, strongest, low) \in weakest .. strongest
  /\ low <= high => FromPercent(weakest, strongest, low) <= FromPercent(weakest, strongest, high)

-----------------------------------------------------------------------------
(* Radio cells. *)

CellType == {"unknown", "gsm", "umts", "lte"}

\* type_lut, for what oFono calls a technology.
Technologies == {"gsm", "edge", "umts", "hspa", "lte", "", "nr"}
TypeOf(technology) ==
  CASE technology \in {"gsm", "edge"} -> "gsm"
    [] technology \in {"umts", "hspa"} -> "umts"
    [] technology = "lte" -> "lte"
    [] OTHER -> "unknown"

Details(type) ==
  CASE type \in {"gsm", "umts"} -> {"mcc", "mnc", "lac", "id", "strength"}
    [] type = "lte" -> {"mcc", "mnc", "tac", "id", "pid", "strength"}
    [] OTHER -> {}

\* operator==
SameCell(a, b) == a.type = b.type /\ a.details = b.details

\* Mutant: the physical identity of a cell is told as its identity.
Key_Pid(field) ==
  CASE field = "tac" -> "lac"
    [] field \in {"id", "pid"} -> "cid"
    [] field = "strength" -> "asu"
    [] OTHER -> field

\* Json::Cell
Key(field) ==
  CASE field = "tac" -> "lac"
    [] field = "id" -> "cid"
    [] field = "pid" -> "psc"
    [] field = "strength" -> "asu"
    [] OTHER -> field

\* A report that an exception ended.
Ended == {<<"ended">>}

\* Mutant: the details are given out whatever the type.
Granted_Any(type, cell) == TRUE

\* gsm(), umts() and lte() throw if the cell has become another one.
Granted(type, cell) == cell.type = type

\* The entry of a cell whose type was read before its details.  They are read
\* by reference, one after the other and without a lock: each is looked at,
\* and then what is there by now is taken.  A cell that is unknown has an
\* entry as well, an empty one.
EntryOf(type, cell, checked, got) ==
  IF type = "unknown" THEN {}
  ELSE IF ~Granted(type, cell) THEN Ended
  ELSE {<<"radio", type>>}
         \union {<<Key(f), got[f]>> : f \in {g \in DOMAIN checked : IsValid(checked[g])}}

\* The entry of a cell that does not change meanwhile.
CellEntry(cell) == EntryOf(cell.type, cell, cell.details, cell.details)

\* Cells of a type, each detail of which is known or not.
CellOf(type) == [type : {type}, details : [Details(type) -> Int]]
Cell == UNION {CellOf(type) : type \in CellType}

KnownOf(cell) == {f \in DOMAIN cell.details : IsValid(cell.details[f])}

(***************************************************************************)
(* The entries of two cells are equal exactly when the cells have the same *)
(* type and agree on what is known of them, so that none is taken for      *)
(* another, and nothing that is unknown is told (ichnaea_reporter.cpp      *)
(* 333-407), if they do not change while they are read.                    *)
(***************************************************************************)
ToldApart(a, b) ==
  /\ CellEntry(a) = CellEntry(b) <=>
       /\ a.type = b.type /\ KnownOf(a) = KnownOf(b)
       /\ \A f \in KnownOf(a) : a.details[f] = b.details[f]
  /\ \A e \in CellEntry(a) : e[1] # "radio" => IsValid(e[2])

\* The handlers of a cell that keeps its type assign valid values only.
Became(a, b) ==
  /\ a.type = b.type
  /\ \A f \in Details(a.type) : b.details[f] = a.details[f] \/ IsValid(b.details[f])

(***************************************************************************)
(* The entry of a cell whose details change while they are read may mix    *)
(* what was before with what is after, and tells nothing else, and nothing *)
(* that is unknown, wherever the change comes between a look at a detail   *)
(* and its being taken (ichnaea_reporter.cpp 341-402,                      *)
(* cached_radio_cell.cpp 222-496).  A cell that becomes one of another     *)
(* type in between is left out: its details share their memory.            *)
(***************************************************************************)
ToldInParts(a, b, checked, got) ==
  LET Seen(f) == {<<a.details[f], a.details[f]>>, <<a.details[f], b.details[f]>>,
                  <<b.details[f], b.details[f]>>}
  IN /\ Became(a, b)
     /\ \A f \in Details(a.type) : <<checked[f], got[f]>> \in Seen(f)
     => \A e \in EntryOf(a.type, a, checked, got) :
          e[1] # "radio" =>
            /\ IsValid(e[2])
            /\ \E f \in Details(a.type) :
                 e[1] = Key(f) /\ e[2] \in {a.details[f], b.details[f]}

-----------------------------------------------------------------------------
(* Wireless networks.  What an access point tells is a set of properties,  *)
(* in the order of their names.                                            *)

Told == <<"Frequency", "HwAddress", "Ssid", "Strength">>

\* The networks an access point can be made with: the constructor throws if
\* one of the bounded values is refused.  An ssid is marked if it contains
\* "_nomap".
NewNetwork ==
  [Frequency : Lowest .. Highest, HwAddress : {1, 2}, Ssid : {"open", "marked"},
   Strength : Lowest .. Highest]

\* Mutant: the properties after one that is refused are skipped.
Changed_Stop(network, dict) ==
  LET Refused(i) ==
        /\ Told[i] \in DOMAIN dict \intersect {"Frequency", "Strength"}
        /\ ~IsValid(dict[Told[i]])
  IN [k \in DOMAIN network |->
        IF k \in DOMAIN dict
             /\ ~\E i, j \in DOMAIN Told : i <= j /\ Told[j] = k /\ Refused(i)
          THEN dict[k] ELSE network[k]]

\* on_access_point_properties_changed: a value that is refused leaves the
\* network as it was, and does not stop the others.
Changed(network, dict) ==
  [k \in DOMAIN network |->
     IF k \notin DOMAIN dict THEN network[k]
     ELSE IF k \in {"Frequency", "Strength"} THEN Assigned(network[k], dict[k])
     ELSE dict[k]]

\* Mutant: the networks that are marked are only left anonymous.
WifiEntries_Anonymous(wifis) ==
  FoldLeft(LAMBDA entries, w :
             Append(entries,
                    (IF w.Ssid = "marked" THEN {} ELSE {<<"key", w.HwAddress>>})
                      \union (IF IsValid(w.Frequency)
                                THEN {<<"frequency", w.Frequency>>} ELSE {})),
           <<>>, wifis)

\* convert_wifis_to_json
WifiEntries(wifis) ==
  FoldLeft(LAMBDA entries, w :
             Append(entries,
                    {<<"key", w.HwAddress>>}
                      \union (IF IsValid(w.Frequency)
                                THEN {<<"frequency", w.Frequency>>} ELSE {})),
           <<>>, SelectSeq(wifis, LAMBDA w : w.Ssid # "marked"))

\* report(): what is posted, without the coordinates.
Item(wifis, cells) ==
  {<<"radio", "gsm">>}
    \union (IF wifis = <<>> THEN {} ELSE {<<"wifi", WifiEntries(wifis)>>})
    \union (IF cells = <<>> THEN {}
            ELSE {<<"cell", [i \in DOMAIN cells |-> CellEntry(cells[i])]>>})

-----------------------------------------------------------------------------
(* Locations of the driver: flags that say which fields hold a value. *)

Flags == {"lat_long", "accuracy", "altitude", "speed", "bearing"}
Fields == {"latitude", "longitude", "accuracy", "altitude", "speed", "bearing"}
FlagOf(field) == IF field \in {"latitude", "longitude"} THEN "lat_long" ELSE field

Has(location, flag) == flag \in location.flags

\* Mutant: the accuracy is taken as it is.
Known_Accuracy(location, field) ==
  IF Has(location, field) \/ field = "accuracy" THEN <<location[field]>> ELSE <<>>

\* What may be missing is a sequence of at most one value.
Known(location, field) == IF Has(location, field) THEN <<location[field]>> ELSE <<>>

\* on_location_update: at most one signal of each kind
Signalled(location) ==
  [position |->
     IF Has(location, "lat_long")
       THEN <<[latitude |-> location.latitude, longitude |-> location.longitude,
               horizontal |-> Known(location, "accuracy"),
               altitude |-> Known(location, "altitude")]>>
       ELSE <<>>,
   velocity |-> Known(location, "speed"),
   heading |-> Known(location, "bearing")]

\* Mutant: the flag of the accuracy is always set.
Injected_Flagged(position, memory) ==
  [memory EXCEPT
     !.flags = {"lat_long", "accuracy"},
     !.latitude = position.latitude,
     !.longitude = position.longitude,
     !.accuracy = IF position.horizontal = <<>> THEN @ ELSE position.horizontal[1]]

\* inject_reference_position: fields that are not flagged stay as they were
\* in memory.
Injected(position, memory) ==
  [memory EXCEPT
     !.flags = {"lat_long"} \union (IF position.horizontal = <<>> THEN {} ELSE {"accuracy"}),
     !.latitude = position.latitude,
     !.longitude = position.longitude,
     !.accuracy = IF position.horizontal = <<>> THEN @ ELSE position.horizontal[1]]

\* Locations with values of any kind.
LocationOf(values) ==
  [flags : SUBSET Flags, latitude : values, longitude : values, accuracy : values,
   altitude : values, speed : values, bearing : values]

(***************************************************************************)
(* What the driver left in a field that it did not flag changes nothing    *)
(* that is signalled, and what it flagged does, an accuracy or an altitude *)
(* along with a position (android_hardware_abstraction_layer.cpp 185-226). *)
(***************************************************************************)
FlagsDecide(location, field, value) ==
  LET needed == {FlagOf(field)}
                  \union IF field \in {"accuracy", "altitude"} THEN {"lat_long"} ELSE {}
  IN value # location[field] =>
       (Signalled([location EXCEPT ![field] = value]) = Signalled(location)
          <=> ~(needed \subseteq location.flags))

(***************************************************************************)
(* A position that is given to the driver as reference is understood as    *)
(* that position, whatever was in memory (512-531).                        *)
(***************************************************************************)
InjectedIsUnderstood(position, memory) ==
  Signalled(Injected(position, memory))
    = [position |-> <<position>>, velocity |-> <<>>, heading |-> <<>>]
=============================================================================
