------------------------------- MODULE Engine -------------------------------
(***************************************************************************)
(* The positioning engine and the parts of the service wired to it:        *)
(* engine.cpp, the Controller and StateTrackingProvider of each provider,  *)
(* and the property mirror of service/implementation.cpp.                  *)
(*                                                                         *)
(* All of it runs on the one thread that dispatches the incoming bus, and  *)
(* all of it is synchronous: setting a property calls its slots before the *)
(* setter returns, a slot sets further properties, and the slots of an     *)
(* outer emission go on with the value they were called with.  `todo' is   *)
(* that thread's stack of calls still to make, innermost first; a step     *)
(* executes its head and pushes the calls it makes.  A property emits only *)
(* when its value changes, and assigns before it emits (libproperties,     *)
(* external; emissions may nest, as engine.cpp 208-217 requires).          *)
(*                                                                         *)
(* Providers are numbered in the order of Engine::providers (a std::map    *)
(* keyed by pointer: some fixed order), features in the order position,    *)
(* heading, velocity.                                                      *)
(***************************************************************************)
EXTENDS Counting, Sequences

CONSTANTS
  NProviders,   \* number of providers known to the engine
  NFeatures,    \* number of features of a provider (3 in the code)
  Satellite,    \* the providers with Requirements::satellites
  RemoteProviders, \* the providers that wrap a Stub: its daemon may be gone
  Sessions,     \* the client sessions, live or not
  Selected,     \* [Sessions -> the providers fused for the session, in the
                \* order of FusionProvider::providers]
  Restarts,     \* may the daemon crash and come up again?
  MaxStarts     \* bound: a session starts nothing while an implementation
                \* has been started this often without being stopped

Providers == 1 .. NProviders
Features == 1 .. NFeatures

ASSUME EngineAssumption ==
  /\ NProviders \in Nat \ {0}
  /\ NFeatures \in Nat \ {0}
  /\ Satellite \subseteq Providers
  /\ RemoteProviders \subseteq Providers
  /\ Selected \in [Sessions -> Seq(Providers)]
  /\ Restarts \in BOOLEAN
  /\ MaxStarts \in Nat \ {0}

VARIABLES
  counter,          \* [Providers -> [Features -> Int]]: Controller of the wrapper
  tracked,          \* [Providers -> TrackedState]: StateTrackingProvider::state_
  implCounter,      \* like counter: Controller of the wrapped implementation
  hardware,         \* [Providers -> [Features -> BOOLEAN]]: is the source running?
  engine_state,     \* Engine::Configuration::engine_state
  satellite_state,  \* ...::satellite_based_positioning_state
  settings,         \* the engine state persisted in the Settings
  is_online,        \* the service's writable property
  does_satellite,   \* ...::does_satellite_based_positioning
  service_state,    \* the service's state property
  claims,           \* [Sessions -> SUBSET Features]: *_status is enabled
  requested,        \* the last value a client gave is_online
  todo              \* calls the dispatching thread has still to make

providerVars == <<counter, tracked, implCounter, hardware>>
configVars == <<engine_state, satellite_state, settings>>
serviceVars == <<is_online, does_satellite, service_state>>
clientVars == <<claims, requested>>
vars == <<providerVars, configVars, serviceVars, clientVars, todo>>

Status == {"off", "on", "active"}
TrackedState == {"active", "enabled"}
OnOff == {"on", "off"}
ServiceState == {"disabled", "enabled", "active"}

-----------------------------------------------------------------------------
(* Calls.  p and f are 0 where the call has no provider or feature. *)

Call(op, p, f, v) == [op |-> op, p |-> p, f |-> f, v |-> v]

ProviderOps == {"enable", "enable_if_on", "disable", "disable_satellite", "mark_disabled"}
FeatureOps == {"start", "stop", "stop_if_counted", "impl_start", "impl_stop"}

Calls ==
  [op : FeatureOps, p : Providers, f : Features, v : {"-"}]
  \union [op : ProviderOps, p : Providers, f : {0}, v : {"-"}]
  \union [op : {"track"}, p : Providers, f : {0}, v : TrackedState]
  \union [op : {"set_engine_state", "engine_slot", "persist", "service_slot"},
          p : {0}, f : {0}, v : Status]
  \union [op : {"set_satellite_state", "satellite_slot", "satellite_mirror",
                "set_is_online", "set_does_satellite"},
          p : {0}, f : {0}, v : OnOff]
  \union [op : {"set_service_state"}, p : {0}, f : {0}, v : ServiceState]
  \union [op : {"session_stop"}, p : {0}, f : Features, v : Sessions]

TypeOK ==
  /\ counter \in [Providers -> [Features -> Int]]
  /\ tracked \in [Providers -> TrackedState]
  /\ implCounter \in [Providers -> [Features -> Int]]
  /\ hardware \in [Providers -> [Features -> BOOLEAN]]
  /\ engine_state \in Status
  /\ satellite_state \in OnOff
  /\ settings \in Status
  /\ is_online \in BOOLEAN
  /\ does_satellite \in BOOLEAN
  /\ service_state \in ServiceState
  /\ claims \in [Sessions -> SUBSET Features]
  /\ requested \in BOOLEAN
  /\ todo \in Seq(Calls)

Idle == todo = <<>>
Calling(op) == todo # <<>> /\ Head(todo).op = op
This == Head(todo)

\* The running call makes these calls, in this order, and returns.
ReturnAfter(calls) == todo' = calls \o Tail(todo)
Return == ReturnAfter(<<>>)

ForEachProvider(op) == [p \in Providers |-> Call(op, p, 0, "-")]
ForEachFeature(op, p) == [f \in Features |-> Call(op, p, f, "-")]

-----------------------------------------------------------------------------
(* Provider::Controller of the wrapper (provider.cpp 31-131). *)

StartUpdates ==
  LET p == This.p  f == This.f IN
  /\ Calling("start")
  /\ counter' = [counter EXCEPT ![p][f] = Incremented(@)]
  /\ IF counter[p][f] = 0
       THEN ReturnAfter(<<Call("track", p, 0, "active"), Call("impl_start", p, f, "-")>>)
       ELSE Return
  /\ UNCHANGED <<tracked, implCounter, hardware, configVars, serviceVars, clientVars>>

\* Mutant: every stop, not only the last, stops the provider.
StopUpdates_Every ==
  LET p == This.p  f == This.f IN
  /\ Calling("stop")
  /\ counter' = [counter EXCEPT ![p][f] = Decremented(@)]
  /\ IF counter[p][f] > 0
       THEN ReturnAfter(<<Call("track", p, 0, "enabled"), Call("impl_stop", p, f, "-")>>)
       ELSE Return
  /\ UNCHANGED <<tracked, implCounter, hardware, configVars, serviceVars, clientVars>>

StopUpdates ==
  LET p == This.p  f == This.f IN
  /\ Calling("stop")
  /\ counter' = [counter EXCEPT ![p][f] = Decremented(@)]
  /\ IF counter[p][f] = 1
       THEN ReturnAfter(<<Call("track", p, 0, "enabled"), Call("impl_stop", p, f, "-")>>)
       ELSE Return
  /\ UNCHANGED <<tracked, implCounter, hardware, configVars, serviceVars, clientVars>>

\* Mutant: the engine's on-slot forgets the satellite option.
EnableProvider_AnyOption ==
  /\ \/ Calling("enable")
     \/ Calling("enable_if_on") /\ This.p \in Satellite /\ engine_state = "on"
  /\ counter' = [counter EXCEPT ![This.p] = [f \in Features |-> 0]]
  /\ Return
  /\ UNCHANGED <<tracked, implCounter, hardware, configVars, serviceVars, clientVars>>

EnableProvider ==
  LET p == This.p IN
  /\ \/ Calling("enable") /\ ~(p \in Satellite /\ satellite_state = "off")
     \/ Calling("enable_if_on") /\ p \in Satellite /\ engine_state = "on"
  /\ counter' = [counter EXCEPT ![p] = [f \in Features |-> 0]]
  /\ Return
  /\ UNCHANGED <<tracked, implCounter, hardware, configVars, serviceVars, clientVars>>

SkipEnable ==
  /\ \/ Calling("enable") /\ This.p \in Satellite /\ satellite_state = "off"
     \/ Calling("enable_if_on") /\ ~(This.p \in Satellite /\ engine_state = "on")
  /\ Return
  /\ UNCHANGED <<providerVars, configVars, serviceVars, clientVars>>

\* The slots' loops ask a provider what it requires, unless it is to be disabled
\* with the engine.
Asks(p) ==
  /\ Calling("enable") \/ Calling("enable_if_on") \/ Calling("disable_satellite")
  /\ This.p = p

\* A Stub throws when its daemon does not answer: for_each_provider catches that
\* and goes on with the next provider, and this one stays as it is.
RequiresUnanswered ==
  /\ \E p \in RemoteProviders : Asks(p)
  /\ Return
  /\ UNCHANGED <<providerVars, configVars, serviceVars, clientVars>>

\* Mutant: disable() stops the updates and leaves the counters alone.
DisableProvider_NoMark ==
  /\ \/ Calling("disable")
     \/ Calling("disable_satellite") /\ This.p \in Satellite
  /\ ReturnAfter(ForEachFeature("stop_if_counted", This.p))
  /\ UNCHANGED <<providerVars, configVars, serviceVars, clientVars>>

DisableProvider ==
  /\ \/ Calling("disable")
     \/ Calling("disable_satellite") /\ This.p \in Satellite
  /\ ReturnAfter(Append(ForEachFeature("stop_if_counted", This.p),
                        Call("mark_disabled", This.p, 0, "-")))
  /\ UNCHANGED <<providerVars, configVars, serviceVars, clientVars>>

\* The satellite slot's loop passes over a provider that needs no satellites.
SkipDisable ==
  /\ Calling("disable_satellite")
  /\ This.p \notin Satellite
  /\ Return
  /\ UNCHANGED <<providerVars, configVars, serviceVars, clientVars>>

\* Mutant: disable() tests `>= 0'.
StopIfCounted_FromZero ==
  LET p == This.p  f == This.f IN
  /\ Calling("stop_if_counted")
  /\ IF counter[p][f] >= 0
       THEN ReturnAfter(<<Call("track", p, 0, "enabled"), Call("impl_stop", p, f, "-")>>)
       ELSE Return
  /\ UNCHANGED <<providerVars, configVars, serviceVars, clientVars>>

StopIfCounted ==
  LET p == This.p  f == This.f IN
  /\ Calling("stop_if_counted")
  /\ IF counter[p][f] > 0
       THEN ReturnAfter(<<Call("track", p, 0, "enabled"), Call("impl_stop", p, f, "-")>>)
       ELSE Return
  /\ UNCHANGED <<providerVars, configVars, serviceVars, clientVars>>

MarkDisabled ==
  /\ Calling("mark_disabled")
  /\ counter' = [counter EXCEPT ![This.p] = [f \in Features |-> -1]]
  /\ Return
  /\ UNCHANGED <<tracked, implCounter, hardware, configVars, serviceVars, clientVars>>

-----------------------------------------------------------------------------
(* The wrapped implementation: its own Controller, never enabled or disabled *)
(* by the engine, in front of the source of the updates.                     *)

ImplStart ==
  LET p == This.p  f == This.f IN
  /\ Calling("impl_start")
  /\ implCounter' = [implCounter EXCEPT ![p][f] = Incremented(@)]
  /\ hardware' = [hardware EXCEPT ![p][f] = @ \/ implCounter[p][f] = 0]
  /\ Return
  /\ UNCHANGED <<counter, tracked, configVars, serviceVars, clientVars>>

ImplStop ==
  LET p == This.p  f == This.f IN
  /\ Calling("impl_stop")
  /\ implCounter' = [implCounter EXCEPT ![p][f] = Decremented(@)]
  /\ hardware' = [hardware EXCEPT ![p][f] = @ /\ implCounter[p][f] # 1]
  /\ Return
  /\ UNCHANGED <<counter, tracked, configVars, serviceVars, clientVars>>

-----------------------------------------------------------------------------
(* StateTrackingProvider::state_ and the engine's slot on it: the loop of  *)
(* engine.cpp 213-214 assigns, so only the last provider counts.           *)

is_any_active(t) == t[NProviders] = "active"

\* Mutant: the engine looks at the states before the one that changes.
TrackState_Before ==
  LET p == This.p  v == This.v IN
  /\ Calling("track")
  /\ tracked' = [tracked EXCEPT ![p] = v]
  /\ IF tracked[p] = v THEN Return
     ELSE LET s == IF is_any_active(tracked) THEN "active" ELSE "on"
          IN  ReturnAfter(<<Call("set_engine_state", 0, 0, s)>>)
  /\ UNCHANGED <<counter, implCounter, hardware, configVars, serviceVars, clientVars>>

TrackState ==
  LET p == This.p  v == This.v IN
  /\ Calling("track")
  /\ tracked' = [tracked EXCEPT ![p] = v]
  /\ IF tracked[p] = v THEN Return
     ELSE LET s == IF is_any_active(tracked') THEN "active" ELSE "on"
          IN  ReturnAfter(<<Call("set_engine_state", 0, 0, s)>>)
  /\ UNCHANGED <<counter, implCounter, hardware, configVars, serviceVars, clientVars>>

-----------------------------------------------------------------------------
(* Engine::Configuration and the slots connected to it. *)

SetEngineState ==
  LET v == This.v IN
  /\ Calling("set_engine_state")
  /\ engine_state' = v
  /\ IF engine_state = v THEN Return
     ELSE ReturnAfter(<<Call("engine_slot", 0, 0, v), Call("persist", 0, 0, v),
                        Call("service_slot", 0, 0, v)>>)
  /\ UNCHANGED <<satellite_state, settings, providerVars, serviceVars, clientVars>>

EngineSlot ==
  /\ Calling("engine_slot")
  /\ ReturnAfter(CASE This.v = "on" -> ForEachProvider("enable")
                   [] This.v = "off" -> ForEachProvider("disable")
                   [] This.v = "active" -> <<>>)
  /\ UNCHANGED <<providerVars, configVars, serviceVars, clientVars>>

\* Mutant: the state is left to the destructor to persist.
PersistEngineState_AtExit ==
  /\ Calling("persist")
  /\ Return
  /\ UNCHANGED <<providerVars, configVars, serviceVars, clientVars>>

PersistEngineState ==
  /\ Calling("persist")
  /\ settings' = This.v
  /\ Return
  /\ UNCHANGED <<engine_state, satellite_state, providerVars, serviceVars, clientVars>>

SetSatelliteState ==
  LET v == This.v IN
  /\ Calling("set_satellite_state")
  /\ satellite_state' = v
  /\ IF satellite_state = v THEN Return
     ELSE ReturnAfter(<<Call("satellite_slot", 0, 0, v), Call("satellite_mirror", 0, 0, v)>>)
  /\ UNCHANGED <<engine_state, settings, providerVars, serviceVars, clientVars>>

SatelliteSlot ==
  /\ Calling("satellite_slot")
  /\ ReturnAfter(ForEachProvider(IF This.v = "on" THEN "enable_if_on" ELSE "disable_satellite"))
  /\ UNCHANGED <<providerVars, configVars, serviceVars, clientVars>>

-----------------------------------------------------------------------------
(* The service's properties and the slots that mirror the engine's. *)

\* Mutant: the property is written and nobody is connected to it.
SetIsOnline_Unconnected ==
  /\ Calling("set_is_online")
  /\ is_online' = (This.v = "on")
  /\ Return
  /\ UNCHANGED <<does_satellite, service_state, providerVars, configVars, clientVars>>

SetIsOnline ==
  LET v == This.v IN
  /\ Calling("set_is_online")
  /\ is_online' = (v = "on")
  /\ IF is_online = is_online' THEN Return
     ELSE ReturnAfter(<<Call("set_engine_state", 0, 0, v)>>)
  /\ UNCHANGED <<does_satellite, service_state, providerVars, configVars, clientVars>>

SetDoesSatellite ==
  LET v == This.v IN
  /\ Calling("set_does_satellite")
  /\ does_satellite' = (v = "on")
  /\ IF does_satellite = does_satellite' THEN Return
     ELSE ReturnAfter(<<Call("set_satellite_state", 0, 0, v)>>)
  /\ UNCHANGED <<is_online, service_state, providerVars, configVars, clientVars>>

SatelliteMirror ==
  /\ Calling("satellite_mirror")
  /\ ReturnAfter(<<Call("set_does_satellite", 0, 0, This.v)>>)
  /\ UNCHANGED <<providerVars, configVars, serviceVars, clientVars>>

\* Mutant: the status of the engine is taken for that of the service.
ServiceStateFor_Same(s) == s

ServiceStateFor(s) ==
  CASE s = "off" -> "disabled" [] s = "on" -> "enabled" [] s = "active" -> "active"

\* Mutant: only an idle engine counts as online.
OnOffFor_OnlyOn(s) == IF s = "on" THEN "on" ELSE "off"

OnOffFor(s) == IF s = "off" THEN "off" ELSE "on"

\* Mutant: the state property is set in the constructor only.
MirrorOf_OnlineOnly(s) == <<Call("set_is_online", 0, 0, OnOffFor(s))>>

MirrorOf(s) ==
  <<Call("set_is_online", 0, 0, OnOffFor(s)),
    Call("set_service_state", 0, 0, ServiceStateFor(s))>>

ServiceSlot ==
  /\ Calling("service_slot")
  /\ ReturnAfter(MirrorOf(This.v))
  /\ UNCHANGED <<providerVars, configVars, serviceVars, clientVars>>

SetServiceState ==
  /\ Calling("set_service_state")
  /\ service_state' = This.v
  /\ Return
  /\ UNCHANGED <<is_online, does_satellite, providerVars, configVars, clientVars>>

-----------------------------------------------------------------------------
(* Requests.  The bus dispatches one at a time: a request is taken only    *)
(* when the calls made for the previous one have returned.                 *)

ClientSetsOnline(v) ==
  /\ Idle
  /\ requested' = (v = "on")
  /\ todo' = <<Call("set_is_online", 0, 0, v)>>
  /\ UNCHANGED <<claims, providerVars, configVars, serviceVars>>

ClientSetsSatellite(v) ==
  /\ Idle
  /\ todo' = <<Call("set_does_satellite", 0, 0, v)>>
  /\ UNCHANGED <<providerVars, configVars, serviceVars, clientVars>>

\* The calls FusionProvider makes for a session.
Fused(s, op, f) == [k \in DOMAIN Selected[s] |-> Call(op, Selected[s][k], f, "-")]

SessionStart(s, f) ==
  /\ Idle
  /\ f \notin claims[s]
  /\ \A p \in Providers : implCounter[p][f] < MaxStarts
  /\ claims' = [claims EXCEPT ![s] = @ \union {f}]
  /\ todo' = Fused(s, "start", f)
  /\ UNCHANGED <<requested, providerVars, configVars, serviceVars>>

SessionStop(s, f) ==
  /\ Idle
  /\ f \in claims[s]
  /\ todo' = <<Call("session_stop", 0, f, s)>>
  /\ UNCHANGED <<clientVars, providerVars, configVars, serviceVars>>

\* ~Implementation stops every feature.
SessionDestroyed(s) ==
  /\ Idle
  /\ claims[s] # {}
  /\ todo' = [f \in Features |-> Call("session_stop", 0, f, s)]
  /\ UNCHANGED <<clientVars, providerVars, configVars, serviceVars>>

\* A feature that was not started only takes the session's own counter below
\* zero and goes no further.
StopSession ==
  LET s == This.v  f == This.f IN
  /\ Calling("session_stop")
  /\ claims' = [claims EXCEPT ![s] = @ \ {f}]
  /\ ReturnAfter(IF f \in claims[s] THEN Fused(s, "stop", f) ELSE <<>>)
  /\ UNCHANGED <<requested, providerVars, configVars, serviceVars>>

-----------------------------------------------------------------------------
(* Start of the daemon with what the settings hold.  Satellite use is not  *)
(* persisted; the service's properties start as false and disabled, and    *)
(* its constructor sets them from the engine with all slots connected.     *)

Booted(s) ==
  Append(MirrorOf(s), Call("set_does_satellite", 0, 0, "on"))

FreshCounters(s) == [p \in Providers |-> [f \in Features |-> IF s = "off" THEN -1 ELSE 0]]
NoneRunning == [p \in Providers |-> [f \in Features |-> FALSE]]

Init ==
  /\ settings = "on"
  /\ engine_state = settings
  /\ satellite_state = "on"
  /\ counter = FreshCounters(settings)
  /\ tracked = [p \in Providers |-> "enabled"]
  /\ implCounter = [p \in Providers |-> [f \in Features |-> 0]]
  /\ hardware = NoneRunning
  /\ is_online = FALSE
  /\ does_satellite = FALSE
  /\ service_state = "disabled"
  /\ claims = [s \in Sessions |-> {}]
  /\ requested = TRUE
  /\ todo = Booted(settings)

\* A crash at any point.  Sessions and the in-process providers are gone.  A
\* request it interrupts was served as far as it was persisted.
Restart ==
  /\ Restarts
  /\ engine_state' = settings
  /\ satellite_state' = "on"
  /\ counter' = FreshCounters(settings)
  /\ tracked' = [p \in Providers |-> "enabled"]
  /\ implCounter' = [p \in Providers |-> [f \in Features |-> 0]]
  /\ hardware' = NoneRunning
  /\ is_online' = FALSE
  /\ does_satellite' = FALSE
  /\ service_state' = "disabled"
  /\ claims' = [s \in Sessions |-> {}]
  /\ requested' = IF Idle THEN requested ELSE settings # "off"
  /\ todo' = Booted(settings)
  /\ UNCHANGED settings

-----------------------------------------------------------------------------
\* The head of the stack is executed, and whoever it asks answers.
Proceed ==
  \/ StartUpdates \/ StopUpdates
  \/ EnableProvider \/ SkipEnable \/ DisableProvider \/ SkipDisable
  \/ StopIfCounted \/ MarkDisabled
  \/ ImplStart \/ ImplStop
  \/ TrackState
  \/ SetEngineState \/ EngineSlot \/ PersistEngineState
  \/ SetSatelliteState \/ SatelliteSlot \/ SatelliteMirror
  \/ SetIsOnline \/ SetDoesSatellite \/ ServiceSlot \/ SetServiceState
  \/ StopSession

\* The dispatching thread goes on with the request it is at.
Dispatch == Proceed \/ RequiresUnanswered

Request ==
  \/ \E v \in OnOff : ClientSetsOnline(v) \/ ClientSetsSatellite(v)
  \/ \E s \in Sessions :
       \/ \E f \in Features : SessionStart(s, f) \/ SessionStop(s, f)
       \/ SessionDestroyed(s)

Next == Dispatch \/ Request \/ Restart

Spec == Init /\ [][Next]_vars

\* The bus thread keeps running; clients and crashes are not forced to come.
FairSpec == Spec /\ WF_vars(Dispatch)
=============================================================================
