----------------------------- MODULE Delegation -----------------------------
(***************************************************************************)
(* Calls and updates that are handed on.  The engine asks its providers    *)
(* and tells them of changes; for a remote provider a call goes from its   *)
(* Stub over the bus to the Skeleton in another process and from there to  *)
(* the implementation, or throws if that process is gone                   *)
(* (providers/remote/provider.cpp).  An update takes the way back, through *)
(* the wrapper of the engine, the proxy and the session to the client.     *)
(***************************************************************************)
EXTENDS SequencesExt

\* Provider: remote, reached (is its process there?), and what its
\* implementation answers.
Query == {"matches", "requires", "supports"}
Threw == "threw"

-----------------------------------------------------------------------------
(* Questions. *)

\* The answer the implementation gives.
ForwardedQuery(p, q) == p.answers[q]

\* Mutant: the handler of one call was made from that of another.
HandledQuery_Copied(p, q) == ForwardedQuery(p, IF q = "requires" THEN "supports" ELSE q)

\* The handlers of MatchesCriteria, Supports and Requires.
HandledQuery(p, q) == ForwardedQuery(p, q)

\* Stub: transact_method, and throw_if_error_or_return of its result.
StubQuery(p, q) == IF p.reached THEN HandledQuery(p, q) ELSE Threw

\* StateTrackingProvider
Answer(p, q) == IF p.remote THEN StubQuery(p, q) ELSE p.answers[q]

\* Mutant: the first provider that throws ends the enumeration.
Enumerated_UpToFirst(order, providers, q) ==
  {i \in DOMAIN order : \A j \in 1 .. i : Answer(providers[order[j]], q) # Threw}

\* for_each_provider: those whose turn was not ended by an exception.
Enumerated(order, providers, q) ==
  {i \in DOMAIN order : Answer(providers[order[i]], q) # Threw}

AnswersYes(order, providers, q) ==
  {order[i] : i \in {j \in Enumerated(order, providers, q) :
                       Answer(providers[order[j]], q) = "yes"}}

-----------------------------------------------------------------------------
(* Changes that providers are told of. *)

\* The slots of a signal are called in the order in which they were
\* connected, until one throws.
Served(slots, throwing) ==
  {slots[i] : i \in {j \in DOMAIN slots : \A k \in 1 .. j : slots[k] \notin throwing}}

\* throw_if_error
Unreached(providers) ==
  {p \in DOMAIN providers : providers[p].remote /\ ~providers[p].reached}

\* Mutant: the setting is stored after the providers were told.
ReportingSlots_Last(order) == order \o <<"settings", "harvester">>

\* wifi_and_cell_id_reporting_state: the slot of the engine's constructor,
\* those of add_provider, and what the service does after the assignment.
ReportingSlots(order) == <<"settings">> \o order \o <<"harvester">>

\* A Stub calls at once and throws if there is no reply.
ToldOfReporting(order, providers) ==
  Served(ReportingSlots(order), Unreached(providers))

\* Mutant: the call of a Stub is made at once here as well.
ToldOfReference_AtOnce(order, providers) ==
  Served(order, Unreached(providers))

\* A Stub posts the call, and its failure is logged.
ToldOfReference(order, providers) ==
  {p \in Range(order) : providers[p].remote => providers[p].reached}

Present(order, providers) ==
  {p \in Range(order) : providers[p].remote => providers[p].reached}

(***************************************************************************)
(* A provider whose process is gone takes no other one's place: the others *)
(* are asked and answer as their implementations do, and hear of the       *)
(* reference location.  The choice of the user is stored even if a         *)
(* provider cannot be told, and everyone hears of it if all are there      *)
(* (engine.cpp 108-116, 156-185 and 223-237, providers/remote/provider.cpp *)
(* 293-384 and 528-692).                                                   *)
(***************************************************************************)
AbsentAreSkipped(order, providers) ==
  LET there == Present(order, providers)
      told == ToldOfReporting(order, providers)
  IN /\ \A q \in Query :
          AnswersYes(order, providers, q) = {p \in there : providers[p].answers[q] = "yes"}
     /\ ToldOfReference(order, providers) = there
     /\ "settings" \in told
     /\ there = Range(order) => there \union {"harvester"} \subseteq told

-----------------------------------------------------------------------------
(* Updates, and the calls that start and stop them, by kind. *)

Kinds == {"position", "heading", "velocity"}

\* The signal of each kind that a listener is connected to, by the kind of
\* the signal it raises (or the property it sets, or the call it makes).
SkeletonConnections ==     \* remote::Provider::Skeleton
  [position |-> "position", heading |-> "heading", velocity |-> "velocity"]
StubConnections ==         \* remote::Provider::Stub
  [position |-> "position", heading |-> "heading", velocity |-> "velocity"]
TrackedConnections ==      \* StateTrackingProvider
  [position |-> "position", heading |-> "heading", velocity |-> "velocity"]
ImplementationConnections ==   \* session::Implementation
  [position |-> "position", heading |-> "heading", velocity |-> "velocity"]
SessionConnections ==      \* session::Skeleton: the listeners of the properties
  [position |-> "position", heading |-> "heading", velocity |-> "velocity"]
\* Mutant: headings are sent as positions, as they are started.
Calls_Copied ==
  [position |-> "UpdatePosition", heading |-> "UpdatePosition", velocity |-> "UpdateVelocity"]
Calls ==                   \* session::Skeleton: the calls they make
  [position |-> "UpdatePosition", heading |-> "UpdateHeading", velocity |-> "UpdateVelocity"]
Handlers ==                \* session::Stub, at the client
  [UpdatePosition |-> "position", UpdateHeading |-> "heading", UpdateVelocity |-> "velocity"]
Sets ==                    \* the property a handler sets
  [position |-> "position", heading |-> "heading", velocity |-> "velocity"]

\* The kind an update of a provider has in the engine ...
InEngine(p, kind) ==
  TrackedConnections[IF p.remote THEN StubConnections[SkeletonConnections[kind]] ELSE kind]
\* ... and the property of the client that an update of a session sets.
AtClient(kind) == Sets[Handlers[Calls[SessionConnections[ImplementationConnections[kind]]]]]

\* Mutant: the listener for velocities is connected to another provider.
ProxyConnections_Crossed(selection) ==
  {<<selection["position"], "position">>, <<selection["heading"], "heading">>,
   <<selection["heading"], "velocity">>}

\* ProxyProvider: the providers and their signals it is connected to.
ProxyConnections(selection) ==
  {<<selection["position"], "position">>, <<selection["heading"], "heading">>,
   <<selection["velocity"], "velocity">>}

\* The properties of the client that an update of provider p sets.
Reached(providers, selection, p, kind) ==
  {AtClient(c[2]) : c \in {d \in ProxyConnections(selection) :
                             d[1] = p /\ d[2] = InEngine(providers[p], kind)}}

\* session::Implementation: a status that is enabled starts, by kind.
StatusSlots ==
  [position |-> "position", velocity |-> "velocity", heading |-> "heading"]
\* The provider that is started, and what is started of it.
StartedOf(selection, kind) == <<selection[StatusSlots[kind]], StatusSlots[kind]>>

(***************************************************************************)
(* An update arrives at the client as what it was measured as, and only    *)
(* from the provider that enabling this kind starts, across six listeners  *)
(* that are connected for each kind apart (proxy_provider.cpp 28-82,       *)
(* session/implementation.cpp 28-82, session/skeleton.cpp 47-66 and        *)
(* 280-347, session/stub.cpp 96-106 and 223-278).                          *)
(***************************************************************************)
ReachesWhatStarts(providers, selection, source) ==
  \A kind \in Kinds :
    Reached(providers, selection, source, kind)
      = {k \in {kind} : StartedOf(selection, k) = <<source, k>>}
=============================================================================
