------------------------------- MODULE Values -------------------------------
(***************************************************************************)
(* Functions without a state of their own: the choice of a provider        *)
(* (default_provider_selection_policy.cpp), flags of features (provider.h) *)
(* and the header of packets (sntp_client.h), and those of the modules it  *)
(* extends.  One input is chosen and never changes.                        *)
(***************************************************************************)
EXTENDS Messages, Reports, Delegation, Environment, Options, Bitwise

CONSTANTS
  Lengths,     \* accuracies, coordinates and times
  Candidates,  \* providers
  Weakest, Strongest    \* bounds of a signal strength

VARIABLE input

-----------------------------------------------------------------------------
(* Features and packets travel as bits. *)

\* Mutant: features are numbered, not flagged.
Flag_Numbered(feature) ==
  CASE feature = "position" -> 1 [] feature = "velocity" -> 2 [] feature = "heading" -> 3

\* Provider::Features travel as the integers of their flags.
Flag(feature) ==
  CASE feature = "position" -> 1 [] feature = "velocity" -> 2 [] feature = "heading" -> 4
Combined(features) == FoldSet(LAMBDA f, flags : flags | Flag(f), 0, features)
Supports(flags, asked) == (flags & asked) # 0

\* The first byte of an sntp::Packet holds three numbers.  Each of them is
\* written over what is there (LeapIndicatorVersionMode).
WithLeapIndicator(byte, li) == byte | (li * 64)
WithVersion(byte, version) == byte | (version * 8)
WithMode(byte, mode) == mode | byte

LeapIndicatorOf(byte) == (byte \div 64) % 4
VersionOf(byte) == (byte \div 8) % 8
ModeOf(byte) == byte % 8

-----------------------------------------------------------------------------
(* The provider of updates: a std::set whose comparison only knows who is  *)
(* running keeps one provider of each kind.                                *)

\* less
Before(p, q, running) == p \in running /\ q \notin running

\* Mutant: every provider has a place of its own.
Inserted_All(found, p, running) == found \union {p}

\* insert: a provider that is neither before nor after another is the same.
Inserted(found, p, running) ==
  IF \E q \in found : ~Before(p, q, running) /\ ~Before(q, p, running)
    THEN found ELSE found \union {p}

\* The first of the set.
Selected(order, matching, running) ==
  LET found == FoldLeft(LAMBDA set, p : IF p \in matching THEN Inserted(set, p, running) ELSE set,
                        {}, order)
  IN {p \in found : \A q \in found : ~Before(q, p, running)}

-----------------------------------------------------------------------------
(* Inputs, of one kind at a time. *)

Updates == [kind : {"update"}, value : PositionOf(Lengths), when : Lengths]
VehicleKeys == [type : {1, 4}, id : Lengths]
SpaceVehicles ==
  [snr : Lengths, almanac : BOOLEAN, ephemeris : {TRUE}, used : BOOLEAN,
   azimuth : Lengths, elevation : Lengths]
Vehicle(key, v) ==
  [key |-> key, snr |-> v.snr, almanac |-> v.almanac, ephemeris |-> v.ephemeris,
   used |-> v.used, azimuth |-> v.azimuth, elevation |-> v.elevation]
Vehicles ==
  [kind : {"vehicles"}, keys : SUBSET VehicleKeys, one : SpaceVehicles, other : SpaceVehicles]
FlagNames == {"position", "velocity", "heading"}
FeatureFlags == [kind : {"flags"}, has : SUBSET FlagNames, asked : SUBSET FlagNames]
Headers == [kind : {"header"}, li : 0 .. 3, version : 0 .. 7, mode : 0 .. 7]
SmallCriterion ==
  [requires : SUBSET Features, horizontal : Lengths,
   accuracy : [Optionals -> Lengths \union {Unspecified}]]
CriteriaPairs == [kind : {"criteria"}, m : SmallCriterion, a : SmallCriterion, b : SmallCriterion]
Selections ==
  [kind : {"selection"}, order : SetToSeqs(Candidates), matching : SUBSET Candidates,
   running : SUBSET Candidates]
Strengths == [kind : {"strength"}, low : -10 .. 110, high : {-10, 0, 1, 50, 99, 100, 110}]
Names == {<<"r", "m">>, <<"r", "m", "@", "a">>, <<"d", "m">>, <<"d", "m", "@", "r", "m">>}
Named(scope, key) == <<"-", "-">> \o scope \o <<":", ":", key>>
Flawed(scope) == <<"-", "-">> \o scope
OptionSeqs ==
  LET options == [name : {Named(p, key) : p \in Names, key \in {"name", "path"}}
                           \union {Flawed(p) : p \in Names},
                  value : {1, 2}]
  IN [kind : {"options"}, given : UNION {[1 .. n -> options] : n \in 0 .. 3}]
SubsetsOf(keys) == UNION {[some -> {3, Illegible}] : some \in SUBSET keys}
Makings ==
  [kind : {"making"},
   dummy : SubsetsOf({"UpdatePeriodInMs", "ReferenceLocationLat", "ReferenceLocationAlt",
                      "ReferenceHorizontalAccuracy", "ReferenceVerticalAccuracy"}),
   skyhook : SubsetsOf({"username", "period"}),
   geoclue : {[k \in keys |-> 3] : keys \in SUBSET {"name", "path"}},
   left : SUBSET {"service-name", "service-path"}]
Commands ==
  [kind : {"command"}, given : SUBSET {"get", "set", "test"}, service : [Switches -> BOOLEAN], property : CliProperty,
   text : {"true", "false", "yes"}]
Cells ==
  UNION {[type : {t}, details : [Details(t) -> {Lowest, Unset}]] :
           t \in {TypeOf(technology) : technology \in Technologies}}
Otherwise(cell) ==
  {[cell EXCEPT !.details[f] = v] :
     f \in DOMAIN cell.details, v \in {Lowest, Highest, Unset, Invalid}}
    \union {[type |-> t, details |-> [f \in Details(t) |-> IF f \in DOMAIN cell.details
                                                          THEN cell.details[f] ELSE Lowest]] :
              t \in CellType \ {cell.type}}
CellPairs == {[kind |-> "cells", a |-> a, b |-> b] : <<a, b>> \in
                UNION {{a} \X ({a} \union Otherwise(a)) : a \in Cells}}
Dicts ==
  [raw : [Frequency : {Lowest, Invalid}, HwAddress : {1, 2}, Ssid : {"open", "marked"},
          Strength : {Lowest, Invalid}],
   keys : SUBSET Range(Told)]
Surroundings ==
  [kind : {"surroundings"}, first : NewNetwork, dict : Dicts,
   second : [Frequency : {Highest}, HwAddress : {1, 2}, Ssid : {"open", "marked"},
             Strength : {Lowest}]]
CandidateKinds ==
  [remote : {FALSE}, reached : {FALSE}, answers : [Query -> {"yes", "no"}]]
    \union [remote : {TRUE}, reached : BOOLEAN, answers : [Query -> {"yes", "no"}]]
Askings ==
  [kind : {"asking"}, order : SetToSeqs(Candidates),
   providers : {f \in [Candidates -> CandidateKinds] :
                  \A p \in Candidates : f[p].answers["supports"] = "yes"},
   running : {{}, {CHOOSE p \in Candidates : TRUE}}]
Routes ==
  [kind : {"route"}, remote : SUBSET Candidates, selection : [Kinds -> Candidates],
   source : Candidates]
Stats ==
  LET cpu == [name |-> "cpu", value |-> 7]
      btime == [name |-> "btime", value |-> 5]
  IN {<<>>, <<cpu>>, <<cpu, btime>>, <<btime, cpu>>}
Clocks ==
  [kind : {"clocks"}, alarm : {"absent", "fails", "works"}, boottime : {"fails", "works"},
   stat : Stats, booted : {5}, up : 2 .. 3, first : 0 .. 2, set : {0, 2}, stamp : 0 .. 2]
Settings(from) ==
  UNION {[keys -> from] : keys \in SUBSET {"XTRA_SERVER_1", "XTRA_SERVER_3", "NTP_SERVER"}}
Files(from) ==
  {Missing} \union [settings : Settings(from), broken : BOOLEAN, newline : BOOLEAN,
                     rest : {NoSettings, [NTP_SERVER |-> "behind"]}]
GpsConfs == [kind : {"gpsconf"}, system : Files({"s"}), etc : Files({"e"})]
Texts == [kind : {"texts"}, table : Tables]
Locations ==
  {[kind |-> "location", a |-> l, field |-> f, b |-> [l EXCEPT ![f] = 1 - @]] :
     l \in [flags : SUBSET Flags, latitude : {0, 1}, longitude : {0, 1}, accuracy : {0, 1},
            altitude : {0, 1}, speed : {0, 1}, bearing : {0, 1}],
     f \in Fields}

Init ==
  \/ input \in Updates \/ input \in Vehicles \/ input \in Headers
  \/ input \in CriteriaPairs
  \/ input \in Selections \/ input \in Strengths \/ input \in OptionSeqs
  \/ input \in Makings
  \/ input \in Commands \/ input \in FeatureFlags
  \/ input \in CellPairs \/ input \in Surroundings \/ input \in Locations
  \/ input \in Askings \/ input \in Routes
  \/ input \in Clocks \/ input \in GpsConfs \/ input \in Texts

Next == UNCHANGED input

-----------------------------------------------------------------------------
(***************************************************************************)
(* Updates, criteria and maps of vehicles arrive as they were sent, with   *)
(* every combination of values left open, and nothing of the message is    *)
(* left over; the vehicles are written as the signature of their array     *)
(* says (codec.h 112-193, 223-389, 461-475).  The numbers that share a     *)
(* byte of a packet do not disturb each other, if the byte was empty       *)
(* before (sntp_client.cpp 66-97).                                         *)
(***************************************************************************)
MessagesArriveWhole ==
  /\ input.kind = "update" => UpdateArrives([value |-> input.value, when |-> input.when])
  /\ input.kind = "vehicles" =>
       LET map == [k \in input.keys |->
                     Vehicle(k, IF k.id = 1 THEN input.one ELSE input.other)]
           sent == EncodedVehicles(map)
       IN /\ DecodedVehicles(sent) = map
          /\ \A i \in DOMAIN sent :
               [a \in DOMAIN sent[i] |-> sent[i][a][1]] = VehicleSignature
  /\ input.kind = "criteria" => DecodedCriteria(EncodedCriteria(input.a)) = input.a
  /\ input.kind = "header" =>
       LET byte == WithLeapIndicator(WithVersion(WithMode(0, input.mode), input.version),
                                     input.li)
       IN /\ ModeOf(byte) = input.mode /\ VersionOf(byte) = input.version
          /\ LeapIndicatorOf(byte) = input.li

(***************************************************************************)
(* A remote provider answers for the features that its implementation has, *)
(* and only for those (provider.cpp 146-154, 203-221; codec.h 391-417).    *)
(***************************************************************************)
FeaturesAreToldApart ==
  input.kind = "flags" =>
    (Supports(Combined(input.has), Combined(input.asked))
       <=> input.has \intersect input.asked # {})

(***************************************************************************)
(* Criteria that meet a merged one meet both of its parts, and conversely. *)
(***************************************************************************)
CriteriaAreMerged == input.kind = "criteria" => MergedMeansBoth(input.m, input.a, input.b)

(***************************************************************************)
(* The policy finds exactly one provider if there is a match, and one that *)
(* runs if there is such a match, in whatever order the providers come.    *)
(***************************************************************************)
RunningIsPreferred ==
  input.kind = "selection" =>
    LET selected == Selected(input.order, input.matching, input.running)
    IN /\ selected # {} <=> input.matching # {}
       /\ \A p, q \in selected : p = q
       /\ selected \subseteq input.matching
       /\ input.matching \intersect input.running # {} => selected \subseteq input.running

(***************************************************************************)
(* Every percentage becomes a strength within its bounds, a greater one no *)
(* smaller strength.                                                       *)
(***************************************************************************)
StrengthsAreValid ==
  input.kind = "strength" => KeepsOrder(Weakest, Strongest, input.low, input.high)

(***************************************************************************)
(* A provider that is configured several times under decorated names finds *)
(* under a key the last value given to it and none of those of the others, *)
(* although names are looked for by parts and cut by letters; the daemon   *)
(* comes up unless an option that contains the name has no separator       *)
(* (daemon.cpp 136-165, provider_daemon.cpp 80-104).                       *)
(***************************************************************************)
OptionsReachTheirProvider ==
  input.kind = "options" =>
    \A p \in Names :
      LET given == input.given
          options == OptionsFor(p, given)
      IN /\ options = <<>> <=>
              \E i \in DOMAIN given : \E q \in Names : given[i].name = Flawed(q) /\ Within(p, q)
         /\ options # <<>> => \A key \in {"name", "path"} :
              LET places == {i \in DOMAIN given : given[i].name = Named(p, key)}
              IN /\ <<key>> \in DOMAIN options[1] <=> places # {}
                 /\ places # {} => options[1][<<key>>] = given[Max(places)].value

(***************************************************************************)
(* What is said of one provider changes no other, whether it is loaded by  *)
(* the daemon or exposed by a process of its own; it changes the settings  *)
(* that it names and no more, a dummy knows its accuracy exactly if it was *)
(* told, and a provider that cannot be found is not made (dummy/           *)
(* provider.cpp 54-95, geoclue/provider.cpp 94-102).                       *)
(***************************************************************************)
ProvidersAreMadeAsTold ==
  input.kind = "making" =>
    LET Scoped(p, told) ==
          FoldSet(LAMBDA k, all : Append(all, [name |-> Named(<<p>>, k), value |-> told[k]]),
                  <<>>, DOMAIN told)
        given == Scoped("dummy", input.dummy) \o Scoped("skyhook", input.skyhook)
                   \o Scoped("geoclue", input.geoclue)
        Heard(p) == ByKey(OptionsFor(<<p>>, given)[1])
        made == DummyMade(Heard("dummy"))
        exposed == ExposedWith([n \in {"provider", "service-name", "service-path"} \ input.left |->
                                  <<"dummy">>], given)
    IN /\ made = DummyMade(input.dummy)
       /\ \A k \in DOMAIN made \ DOMAIN input.dummy : made[k] = DummyMade(<<>>)[k]
       /\ \A k \in {"ReferenceHorizontalAccuracy", "ReferenceVerticalAccuracy"} :
            made[k] # <<>> <=> k \in DOMAIN input.dummy
       /\ SkyhookMade(Heard("skyhook")) = SkyhookMade(input.skyhook)
       /\ GeoclueMade(Heard("geoclue")) = <<>>
            <=> DOMAIN input.geoclue # {"name", "path"}
       /\ exposed = <<>> <=> input.left # {}
       /\ input.left = {} => DummyMade(ByKey(exposed[1])) = made

(***************************************************************************)
(* A service is changed only if it was said to set and not to get, in the  *)
(* property that was named and no other, and only what was said to be      *)
(* "true" is turned on (the state excepted, which is announced as [get]    *)
(* and falls through; daemon.cpp 294-331 and 343-477).                     *)
(***************************************************************************)
CliSetsWhatItNames ==
  input.kind = "command" /\ input.property # "state" =>
    \A s \in Switches :
      LET set == CliSet(input.given, input.service, input.property, input.text)
      IN set[s] # input.service[s]
           => /\ s = input.property /\ (set[s] => input.text = "true")
              /\ "set" \in input.given /\ "get" \notin input.given

(***************************************************************************)
(* The entries of two cells are equal exactly when the cells have the same *)
(* type and agree on what is known of them, so that none is taken for      *)
(* another, and nothing that is unknown is told.  A cell that changes from *)
(* one type to another between the reading of its type and the access to   *)
(* its details is told as neither, and one whose details change while they *)
(* are read is told in parts of both (ichnaea_reporter.cpp 333-407,        *)
(* radio_cell.cpp 23-105, cached_radio_cell.cpp 51-79 and 196-218).        *)
(***************************************************************************)
CellsAreToldApart ==
  input.kind = "cells" =>
    LET a == input.a
        b == input.b
        Taken(old) == [f \in Details(a.type) |-> IF f \in old THEN a.details[f] ELSE b.details[f]]
    IN /\ ToldApart(a, b)
       /\ SameCell(a, b) => CellEntry(a) = CellEntry(b)
       /\ EntryOf(a.type, b, b.details, b.details) \in {CellEntry(b), Ended, {}}
       /\ a.type = b.type =>
            \A checked \in SUBSET Details(a.type) : \A got \in SUBSET checked :
              ToldInParts(a, b, Taken(checked), Taken(got))

(***************************************************************************)
(* A network that asked to be left out by its name is in no report, even   *)
(* if it said so along with values that are refused; the others are there, *)
(* in order and under the address they told last                           *)
(* (cached_wireless_network.cpp 155-226, ichnaea_reporter.cpp 309-331).    *)
(***************************************************************************)
MarkedNetworksAreLeftOut ==
  input.kind = "surroundings" =>
    LET dict == [k \in input.dict.keys |-> input.dict.raw[k]]
        LastTold(k) == IF k \in input.dict.keys THEN input.dict.raw[k] ELSE input.first[k]
        item == Item(<<Changed(input.first, dict), input.second>>, <<>>)
        entries == (CHOOSE e \in item : e[1] = "wifi")[2]
        keys == [i \in DOMAIN entries |-> {e[2] : e \in {x \in entries[i] : x[1] = "key"}}]
    IN /\ keys = (IF LastTold("Ssid") = "open" THEN <<{LastTold("HwAddress")}>> ELSE <<>>)
                   \o (IF input.second.Ssid = "open" THEN <<{input.second.HwAddress}>> ELSE <<>>)
       /\ \A i \in DOMAIN entries : \A e \in entries[i] : e[1] = "frequency" => IsValid(e[2])

(***************************************************************************)
(* What the driver left in a field that it did not flag changes nothing    *)
(* that is signalled, and what it flagged does; a position that is given   *)
(* to the driver as reference is understood as that position, whatever was *)
(* in memory (android_hardware_abstraction_layer.cpp 185-226, 512-531).    *)
(***************************************************************************)
LocationsAreFlagged ==
  input.kind = "location" =>
    /\ FlagsDecide(input.a, input.field, input.b[input.field])
    /\ \A horizontal \in {<<>>, <<input.a.accuracy>>} :
         InjectedIsUnderstood([latitude |-> input.a.latitude, longitude |-> input.a.longitude,
                               horizontal |-> horizontal, altitude |-> <<>>], input.b)

(***************************************************************************)
(* A provider whose process is gone is never selected and takes no other   *)
(* one's place; the others are selected as if it were not there, hear of   *)
(* the reference location, and answer as their implementations do.  The    *)
(* choice of the user is stored even if a provider cannot be told, and     *)
(* everyone hears of it if all are there (engine.cpp 108-116, 156-185 and  *)
(* 223-237, providers/remote/provider.cpp 293-384 and 528-692).            *)
(***************************************************************************)
AbsenceIsTolerated ==
  input.kind = "asking" =>
    LET there == Present(input.order, input.providers)
        IsThere(p) == p \in there
    IN /\ AbsentAreSkipped(input.order, input.providers)
       /\ Selected(input.order, AnswersYes(input.order, input.providers, "matches"), input.running)
            = Selected(SelectSeq(input.order, IsThere),
                       {p \in there : input.providers[p].answers["matches"] = "yes"},
                       input.running)

(***************************************************************************)
(* An update arrives at the client as what it was measured as, and only    *)
(* from the provider that enabling this kind starts, across six listeners  *)
(* that are connected for each kind apart (proxy_provider.cpp 28-82,       *)
(* session/implementation.cpp 28-82, session/skeleton.cpp 47-66 and        *)
(* 280-347, session/stub.cpp 96-106 and 223-278).                          *)
(***************************************************************************)
UpdatesArriveWhereStarted ==
  input.kind = "route" =>
    ReachesWhatStarts([p \in Candidates |-> [remote |-> p \in input.remote]],
                      input.selection, input.source)

(***************************************************************************)
(* The time since the system booted is right, and the time at which an     *)
(* access point was seen, whichever sources fail, as long as the kernel    *)
(* tells when it booted and the wall clock, if nothing else is left, was   *)
(* not set; a time of an access point is never too early                   *)
(* (time_since_boot.cpp 73-140, cached_wireless_network.cpp 58-89).        *)
(***************************************************************************)
BootTimeIsKept ==
  input.kind = "clocks" => TimesAreKept(input, input.stamp)

(***************************************************************************)
(* The hosts of the GPS are those of the system's file if it is there, of  *)
(* /etc if not, in the order of their numbers, or the default ones if that *)
(* file is broken.  The server of the time is read behind a broken line    *)
(* only if the preferred file has one, and it is that of /etc, not of the  *)
(* preferred file, if both are intact: the stream of that one has been     *)
(* read to its end (android_hardware_abstraction_layer.cpp 56-71,          *)
(* 616-683).                                                               *)
(***************************************************************************)
SystemFileIsPreferred ==
  input.kind = "gpsconf" =>
    LET config == DefaultConfiguration(input.system, input.etc)
        preferred == IF input.system # Missing THEN input.system ELSE input.etc
        IsIntact(file) == file # Missing /\ ~file.broken /\ file.newline
    IN /\ config.xtra = (IF preferred = Missing THEN <<>>
                         ELSE IF preferred.broken THEN DefaultHosts
                         ELSE HostsIn(preferred.settings))
       /\ config.ntp = "behind" => preferred.broken
       /\ IsIntact(input.system) /\ IsIntact(input.etc)
            => config.ntp = ServerIn(input.etc.settings)

(***************************************************************************)
(* What was written for a state is read as that state, in the settings, on *)
(* the bus and on the command line, and what no state is written as is     *)
(* refused (engine.cpp 252-296, wifi_and_cell_reporting_state.cpp,         *)
(* satellite_based_positioning_state.cpp, service/state.cpp, daemon.cpp    *)
(* 479-524).                                                               *)
(***************************************************************************)
TextsAreRead ==
  input.kind = "texts" =>
    LET texts == input.table.texts
        states == input.table.states
        written == {texts[v] : v \in DOMAIN texts \ {"unknown"}}
    IN /\ \A v \in DOMAIN texts \ {"unknown"} : Parsed(states, texts[v]) = v
       /\ \A t \in Tables : \A v \in DOMAIN t.texts :
            Parsed(states, t.texts[v]) # Refused <=> t.texts[v] \in written

-----------------------------------------------------------------------------
(***************************************************************************)
(* Messages arrive as they were sent, criteria are merged into what means  *)
(* both, one provider of those that run is preferred, strengths are within *)
(* their bounds, options reach the provider they name, the command line    *)
(* client sets the property it names, reports and locations tell what is   *)
(* known and may be told, providers that are gone are no hindrance,        *)
(* updates arrive as what they are, and clocks, files and texts are read   *)
(* as they were meant (codec.h, criteria.cpp,                              *)
(* default_provider_selection_policy.cpp, bounded_integer.h, daemon.cpp,   *)
(* ichnaea_reporter.cpp, android_hardware_abstraction_layer.cpp,           *)
(* providers/remote/provider.cpp, time_since_boot.cpp).                    *)
(***************************************************************************)
ContentsAreSound ==
  /\ MessagesArriveWhole
  /\ CriteriaAreMerged
  /\ RunningIsPreferred
  /\ StrengthsAreValid
  /\ OptionsReachTheirProvider
  /\ ProvidersAreMadeAsTold
  /\ CliSetsWhatItNames
  /\ FeaturesAreToldApart
  /\ CellsAreToldApart
  /\ MarkedNetworksAreLeftOut
  /\ LocationsAreFlagged
  /\ AbsenceIsTolerated
  /\ UpdatesArriveWhereStarted
  /\ BootTimeIsKept
  /\ SystemFileIsPreferred
  /\ TextsAreRead
=============================================================================
