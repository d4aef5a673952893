-------------------------- MODULE EngineInvariant ---------------------------
(***************************************************************************)
(* Why the engine keeps its promises: the inductive invariant behind the   *)
(* properties of EngineProperties.  Those speak of the moments between two *)
(* requests; the invariant says what the calls still to make will repair   *)
(* by then.  It does so position by position of `todo', whose tail no step *)
(* touches: a step only replaces the head by the calls it makes.           *)
(***************************************************************************)
EXTENDS EngineProperties

Positions == 1 .. Len(todo)

-----------------------------------------------------------------------------
(* Which call may be waiting above which. *)

\* Calls that are made while a provider reports its state: none of them
\* switches anything off.
SwitchesOn(c) ==
  \/ c.op \in {"track", "enable"}
  \/ c.op \in {"set_engine_state", "engine_slot", "persist", "service_slot"} /\ c.v # "off"
  \/ c.op = "set_is_online" /\ c.v = "on"
  \/ c.op = "set_service_state" /\ c.v # "disabled"

\* Calls that are made as soon as they are pushed.
Immediate == {"track", "set_engine_state", "engine_slot", "set_is_online",
              "set_satellite_state", "satellite_slot"}

Elsewhere(c, d) == c.p # d.p \/ c.f # d.f

\* May c be made, with all that it leads to, before d?
MayPrecede(c, d) ==
  /\ d.op \notin Immediate
  /\ d.op = "enable" => c.op = "enable"
  /\ d.op = "enable_if_on" => c.op = "enable_if_on"
  /\ d.op = "persist" /\ d.v # "off" =>
       SwitchesOn(c) /\ c.op \in {"engine_slot", "enable"}
  /\ d.op = "service_slot" /\ d.v # "off" =>
       SwitchesOn(c) /\ c.op \in {"engine_slot", "enable", "persist"}
  /\ d.op \in {"impl_start", "impl_stop"} => SwitchesOn(c)
  /\ d.op = "stop_if_counted" =>
       \/ SwitchesOn(c)
       \/ c.op \in {"stop_if_counted", "impl_stop"} /\ Elsewhere(c, d)
  /\ d.op = "mark_disabled" => SwitchesOn(c) \/ c.op \in {"stop_if_counted", "impl_stop"}
  /\ d.op \in {"disable", "disable_satellite"} =>
       SwitchesOn(c) \/ c.op \in {"stop_if_counted", "impl_stop", "mark_disabled",
                                  "disable", "disable_satellite"}

Nested == \A i, j \in Positions : i < j => MayPrecede(todo[i], todo[j])

\* What is written is written before the service is told, and what disable()
\* stops it marks as disabled afterwards.
Framed ==
  \A i \in Positions :
    /\ todo[i].op = "persist" =>
         /\ i + 1 \in Positions
         /\ todo[i + 1].op = "service_slot"
         /\ todo[i + 1].v = todo[i].v
    /\ todo[i].op = "stop_if_counted" =>
         \E j \in Positions : i < j /\ todo[j].op = "mark_disabled" /\ todo[j].p = todo[i].p

-----------------------------------------------------------------------------
(* What the waiting calls of the engine's slots know of its state. *)

IsCurrent(c) ==
  /\ c.op = "engine_slot" => engine_state = c.v
  /\ c.op \in {"persist", "service_slot"} /\ c.v # "off" => engine_state = c.v
  /\ c.op = "enable" => engine_state = "on"
  /\ c.op = "satellite_slot" => satellite_state = c.v
  /\ c.op = "enable_if_on" => satellite_state = "on"

SlotsAreCurrent == \A i \in Positions : IsCurrent(todo[i])

-----------------------------------------------------------------------------
(* Engine and service agree, or the next call to mirror the engine's state *)
(* makes them agree.                                                       *)

Mirroring == {"service_slot", "set_is_online", "set_service_state"}

\* The first waiting call that mirrors the engine's state is at i.
FirstMirror(i) ==
  /\ i \in Positions
  /\ todo[i].op \in Mirroring
  /\ \A k \in Positions : k < i => todo[k].op \notin Mirroring

Agreed == is_online <=> engine_state # "off"

AgreesSoon ==
  \/ Agreed
  \/ \E i \in Positions :
       /\ FirstMirror(i)
       /\ todo[i].op # "set_service_state"
       /\ engine_state # "off" <=> todo[i].v # "off"
  \/ Calling("set_engine_state") /\ (is_online <=> This.v # "off")

ShownSoon ==
  \/ service_state = "disabled" <=> engine_state = "off"
  \/ \E i \in Positions : todo[i].op \in {"service_slot", "set_service_state"}

-----------------------------------------------------------------------------
(* The calls that write is_online leave it as the client asked, and as the *)
(* service state about to be shown says.                                   *)

SetsOnline(c) == c.op \in {"service_slot", "set_is_online"}

\* Where is_online is known, and what it is there.
Known(i) == i = Len(todo) + 1 \/ (i \in Positions /\ todo[i].op = "set_service_state")
KnownOnline(i) == IF i = Len(todo) + 1 THEN requested ELSE todo[i].v # "disabled"

\* j holds the last call before i that writes is_online.
LastWrite(j, i) ==
  /\ j \in Positions
  /\ j < i
  /\ SetsOnline(todo[j])
  /\ \A k \in Positions : j < k /\ k < i => ~SetsOnline(todo[k])

OnlineIsKnown ==
  \A i \in 1 .. Len(todo) + 1 :
    Known(i) =>
      /\ \A j \in Positions : LastWrite(j, i) => (KnownOnline(i) <=> todo[j].v # "off")
      /\ (\A k \in Positions : k < i => ~SetsOnline(todo[k])) =>
           /\ is_online <=> KnownOnline(i)
           /\ Calling("set_engine_state") => (KnownOnline(i) <=> This.v # "off")

-----------------------------------------------------------------------------
(* The settings hold the engine's state, or it is about to be written; or  *)
(* a stale "off" was written and the engine is about to be switched off.   *)

AboutToSwitchOff ==
  /\ todo # <<>>
  /\ This.op \in {"service_slot", "set_is_online", "set_engine_state"}
  /\ This.v = "off"
  /\ settings = "off"
  /\ engine_state # "off"
  /\ This.op # "set_engine_state" => is_online

PersistedSoon ==
  \/ settings = engine_state
  \/ \E i \in Positions :
       /\ todo[i].op = "persist"
       /\ todo[i].v = engine_state
       /\ \A k \in Positions : k < i => todo[k].op # "persist"
  \/ AboutToSwitchOff

-----------------------------------------------------------------------------
(* While the engine is off, or satellites are, a provider refuses or is    *)
(* about to be disabled.                                                   *)

Refuses(p) == \A f \in Features : counter[p][f] < 0

Disables(c, p) ==
  \/ c.op \in {"disable", "mark_disabled"} /\ c.p = p
  \/ c.op = "engine_slot" /\ c.v = "off"

OffRefusesSoon ==
  engine_state = "off" =>
    \A p \in Providers :
      \/ Refuses(p)
      \/ \E i, j \in Positions :
           i < j /\ Disables(todo[i], p) /\ FirstMirror(j) /\ todo[j].op = "service_slot"

\* A provider that reports its state was not refusing.
TracksWhileOn ==
  Calling("track") =>
    \/ engine_state # "off"
    \/ \E j \in Positions : FirstMirror(j) /\ todo[j].op = "service_slot"

DisablesSatellite(c, p) ==
  \/ c.op \in {"disable", "disable_satellite", "mark_disabled"} /\ c.p = p
  \/ c.op = "satellite_slot" /\ c.v = "off"

RefusesSoon(p) ==
  satellite_state = "off" =>
    Refuses(p) \/ \E i \in Positions : DisablesSatellite(todo[i], p)

SatelliteRefusesSoon == \A p \in Satellite \ RemoteProviders : RefusesSoon(p)

-----------------------------------------------------------------------------
(* The engine is active because its last provider is. *)

ActiveIsTracked ==
  ~Restarts =>
    /\ Calling("set_engine_state") /\ This.v = "active" => is_any_active(tracked)
    /\ engine_state = "active" => is_any_active(tracked) \/ Calling("set_engine_state")

-----------------------------------------------------------------------------
(* The implementation's controller counts what the wrapper's has started.  *)

Waiting(op, p, f) == \E i \in Positions : todo[i].op = op /\ todo[i].p = p /\ todo[i].f = f

BalancedFor(p, f) ==
  /\ Waiting("impl_stop", p, f) => implCounter[p][f] > 0
  /\ counter[p][f] > 0 =>
       \/ implCounter[p][f] > 0 /\ ~Waiting("impl_stop", p, f)
       \/ Waiting("impl_start", p, f)
       \/ ~Waiting("stop_if_counted", p, f) /\ Waiting("mark_disabled", p, 0)

Balanced == \A p \in Providers, f \in Features : BalancedFor(p, f)

-----------------------------------------------------------------------------
\* The stack is well formed.
StackInv == Nested /\ Framed

\* What the calls do to the engine's and the service's state.
StateInv ==
  /\ SlotsAreCurrent
  /\ AgreesSoon
  /\ ShownSoon
  /\ OnlineIsKnown
  /\ PersistedSoon
  /\ OffRefusesSoon
  /\ TracksWhileOn

(***************************************************************************)
(* In the middle of a request engine, service, settings and providers may  *)
(* disagree only in ways that the calls still waiting repair, however the  *)
(* slots of engine.cpp 52-111 and 208-217 and of service/implementation.cpp*)
(* 69-122 call each other and wherever a crash interrupts them.            *)
(***************************************************************************)
EngineInv ==
  /\ TypeOK
  /\ StackInv
  /\ StateInv
  /\ SatelliteRefusesSoon
  /\ ActiveIsTracked
  /\ ImplementationBalanced
  /\ Balanced
=============================================================================
