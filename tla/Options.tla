------------------------------ MODULE Options ------------------------------
(***************************************************************************)
(* What is said on a command line: the options of providers, which reach   *)
(* them in the daemon or in a process of their own (daemon.cpp 136-165,    *)
(* provider_daemon.cpp 60-104), what the providers are made of then        *)
(* (dummy, skyhook and geoclue create_instance), and the commands of the   *)
(* client (daemon.cpp 294-477).                                            *)
(***************************************************************************)
EXTENDS Integers, SequencesExt

\* Texts are numbers: that of the number they are read as, ...
Empty == 0
Illegible == -1

\* Options: "--<provider>::<key>=<value>", names as sequences of letters.

\* key.find(part) != npos
Within(part, text) == part \in SubSeqs(text)

\* erase() throws std::out_of_range behind the end.
Thrown == <<"out_of_range">>

\* text.erase(text.find_first_of(letters), count), from the first of the
\* letters on
Erased(text, letters, count) ==
  LET at == SelectInSeq(text, LAMBDA letter : letter \in letters)
  IN IF at = 0 THEN Thrown
     ELSE SubSeq(text, 1, at - 1) \o SubSeq(text, at + count, Len(text))

\* Mutant: all that comes before the separator is dropped.
KeyFor_Bare(provider, name) ==
  SubSeq(name, SelectInSeq(name, LAMBDA letter : letter = ":") + 2, Len(name))

\* What is left of the name of an option that contains the provider's.
KeyFor(provider, name) ==
  Erased(Erased(Erased(name, {"-"}, 2), Range(provider), Len(provider)), {":"}, 2)

\* What may throw is a sequence of at most one value.
\* The options of a provider, by keys: put() replaces what a key had.
OptionsFor(provider, given) ==
  LET Meant(option) == Within(provider, option.name)
      meant == SelectSeq(given, Meant)
  IN IF \E i \in DOMAIN meant : KeyFor(provider, meant[i].name) = Thrown THEN <<>>
     ELSE <<FoldLeft(LAMBDA told, o : (KeyFor(provider, o.name) :> o.value) @@ told, <<>>, meant)>>

\* ProviderDaemon: the options of one provider; named has the texts of
\* --provider, --service-name and --service-path.
ExposedWith(named, given) ==
  IF {"provider", "service-name", "service-path"} \subseteq DOMAIN named
    THEN OptionsFor(named["provider"], given) ELSE <<>>

\* What a provider is told, by keys of one word.
ByKey(options) == [k \in {key[1] : key \in DOMAIN options} |-> options[<<k>>]]

\* Configuration::get with a default: taken as well if the text is no number.
Got(told, key, default) ==
  IF key \in DOMAIN told /\ told[key] # Illegible THEN told[key] ELSE default

-----------------------------------------------------------------------------
(* create_instance, with what a provider was told by its keys. *)

DummyDefaults ==
  [UpdatePeriodInMs |-> 500, ReferenceLocationLat |-> 51, ReferenceLocationLon |-> 7,
   ReferenceVelocity |-> 9, ReferenceHeading |-> 127]

\* The altitude of dummy::Configuration, which says -2, and accuracies, of
\* which it says nothing.
DummyExtras ==
  [ReferenceLocationAlt |-> <<-2>>, ReferenceHorizontalAccuracy |-> <<>>,
   ReferenceVerticalAccuracy |-> <<>>]

\* Mutant: the accuracies are always set.
DummyMade_Known(told) ==
  [k \in DOMAIN DummyDefaults |-> Got(told, k, DummyDefaults[k])]
    @@ [k \in DOMAIN DummyExtras |-> <<Got(told, k, 0)>>]

DummyMade(told) ==
  [k \in DOMAIN DummyDefaults |-> Got(told, k, DummyDefaults[k])]
    @@ [k \in DOMAIN DummyExtras |->
          IF k \in DOMAIN told THEN <<Got(told, k, 0)>> ELSE DummyExtras[k]]

SkyhookDefaults == [username |-> Empty, realm |-> Empty, period |-> 500]
SkyhookMade(told) ==
  [k \in DOMAIN SkyhookDefaults |->
     IF k = "period" THEN Got(told, k, SkyhookDefaults[k])
     ELSE IF k \in DOMAIN told THEN told[k] ELSE SkyhookDefaults[k]]

\* A bus name and a path are texts of any kind, and needed.
GeoclueMade(told) ==
  IF {"name", "path"} \subseteq DOMAIN told
    THEN <<[name |-> told["name"], path |-> told["path"]]>> ELSE <<>>

-----------------------------------------------------------------------------
(* Daemon::Cli *)

Switches == {"is_online", "does_report_wifi_and_cell_ids", "does_satellite_based_positioning"}
CliProperty == Switches \union {"state", "visible_space_vehicles", "unknown"}

\* Mutant: what is got and set at once is set.
Command_Both(given) ==
  CASE "set" \in given -> "set"
    [] given \intersect {"set", "get"} = {"get"} -> "get"
    [] given = {"test"} -> "test"
    [] given = {} -> "unknown"

\* Configuration::from_command_line_args
Command(given) ==
  CASE {"get", "set"} \subseteq given -> "thrown"
    [] given \intersect {"get", "set"} = {"get"} -> "get"
    [] given \intersect {"get", "set"} = {"set"} -> "set"
    [] given = {"test"} -> "test"
    [] given = {} -> "unknown"

\* Reading a bool with std::boolalpha makes it false if it is neither.
ReadFlag(text) == text = "true"

\* A case that ends without break goes on with the next one.
\* Mutant: a break is missing.
Cases_Fall(property) ==
  CASE property = "state" -> {"is_online"}
    [] property = "does_report_wifi_and_cell_ids" ->
         {property, "does_satellite_based_positioning"}
    [] OTHER -> {property} \intersect Switches

Cases(property) ==
  IF property = "state" THEN {"is_online"} ELSE {property} \intersect Switches

\* main
CliSet(given, service, property, text) ==
  [s \in Switches |->
     IF Command(given) = "set" /\ s \in Cases(property)
       THEN ReadFlag(text) ELSE service[s]]
=============================================================================
