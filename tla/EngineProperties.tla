-------------------------- MODULE EngineProperties --------------------------
(***************************************************************************)
(* What the engine and the service promise between requests, although the  *)
(* slots that serve one request set the properties that called them.       *)
(***************************************************************************)
EXTENDS Engine

(***************************************************************************)
(* The last client to write is_online wins: when its request is served,    *)
(* the service shows the value written and the engine is off exactly if it *)
(* is FALSE, although disabling a running provider switches the engine on  *)
(* again in between (engine.cpp 208-217), and although the daemon may have *)
(* crashed since (engine.cpp 96-111).                                      *)
(***************************************************************************)
LastRequestWins ==
  Idle => /\ is_online = requested
          /\ engine_state = "off" <=> ~requested

(***************************************************************************)
(* A served "off" leaves every provider refusing starts (engine.cpp 87-88, *)
(* provider.h 89-92), also the ones the nested "on" enabled meanwhile.     *)
(***************************************************************************)
OffRefusesAll ==
  Idle /\ engine_state = "off" =>
    \A p \in Providers, f \in Features : counter[p][f] < 0

(***************************************************************************)
(* A request that has been served is in force, for the service, the engine *)
(* and every provider.                                                     *)
(***************************************************************************)
ServedRequestHolds == LastRequestWins /\ OffRefusesAll

(***************************************************************************)
(* While satellite based positioning is off no satellite provider of the   *)
(* service's own process accepts a start, whichever way the engine was     *)
(* switched since (engine.cpp 66-67 and 81-83), and although the loop that *)
(* disables them also asks providers whose daemon is gone (engine.cpp 57   *)
(* and 223-237).  Of those RemoteDaemons says what holds.                  *)
(***************************************************************************)
SatelliteOffRefuses ==
  Idle /\ satellite_state = "off" =>
    \A p \in Satellite \ RemoteProviders, f \in Features : counter[p][f] < 0

(***************************************************************************)
(* What is persisted is the engine state in force: the outer emission's    *)
(* write, which comes after those of the emissions nested in it, does not  *)
(* leave a stale value in the settings (engine.cpp 108-111).               *)
(***************************************************************************)
PersistedIsCurrent == Idle => settings = engine_state

(***************************************************************************)
(* The service is shown as disabled exactly while the engine is off        *)
(* (service/implementation.cpp 98-116), also after a restart.              *)
(***************************************************************************)
DisabledShownIffOff == Idle => (service_state = "disabled" <=> engine_state = "off")

(***************************************************************************)
(* Between requests settings, engine and service agree on the state.       *)
(***************************************************************************)
StatesAgree == PersistedIsCurrent /\ DisabledShownIffOff

(***************************************************************************)
(* The engine claims to be navigating only if some provider delivers       *)
(* updates (engine.h 63, engine.cpp 208-217), unless it has just come up   *)
(* with what a crash left in the settings.                                 *)
(***************************************************************************)
ActiveMeansDelivering ==
  ~Restarts /\ Idle /\ engine_state = "active" => \E p \in Providers : tracked[p] = "active"

(***************************************************************************)
(* The controller of the wrapped implementation, which the engine never    *)
(* disables or enables, stays balanced: no stale stop reaches it, and its  *)
(* source of updates runs exactly while it is counted (provider.cpp 52-72, *)
(* state_tracking_provider.h 112-146).                                     *)
(***************************************************************************)
ImplementationBalanced ==
  \A p \in Providers, f \in Features :
    /\ implCounter[p][f] >= 0
    /\ hardware[p][f] <=> implCounter[p][f] > 0

(***************************************************************************)
(* A session whose start a provider has counted is served: the source      *)
(* behind the provider runs, whatever other sessions and the engine did    *)
(* (provider.h 106-109).                                                   *)
(***************************************************************************)
CountedIsServed ==
  Idle => \A p \in Providers, f \in Features : counter[p][f] > 0 => hardware[p][f]

(***************************************************************************)
(* The two controllers of a provider, its own and that of what it wraps,   *)
(* serve what they have counted.                                           *)
(***************************************************************************)
StartsAreServed == ImplementationBalanced /\ CountedIsServed

(***************************************************************************)
(* A request to switch the service on or off takes effect: the slots that  *)
(* call each other through the properties of engine and service come to an *)
(* end, with the engine in the state asked for, unless another request has *)
(* replaced it or the daemon never stops crashing.                         *)
(***************************************************************************)
RequestsTakeEffect ==
  []<><<Restart>>_vars \/
  \A v \in BOOLEAN :
    (requested = v) ~> \/ requested # v
                       \/ Idle /\ (engine_state # "off") = v

(***************************************************************************)
(* "switching_the_engine_off_results_in_providers_being_disabled_and_      *)
(* updates_being_stopped" (tests/engine_test.cpp 144): no source of        *)
(* updates runs while the engine is off.                                   *)
(***************************************************************************)
OffStopsUpdates ==
  Idle /\ engine_state = "off" =>
    \A p \in Providers, f \in Features : ~hardware[p][f]

-----------------------------------------------------------------------------
\* For TLC: every session is served by all providers.
AllSelected == [s \in Sessions |-> [p \in Providers |-> p]]
=============================================================================
