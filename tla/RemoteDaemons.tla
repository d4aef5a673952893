---------------------------- MODULE RemoteDaemons ---------------------------
(***************************************************************************)
(* The engine with providers that live in daemons of their own: what the   *)
(* wrapped implementation's controller starts and stops in Engine are the  *)
(* updates of a Stub, which posts a call (providers/remote/provider.cpp    *)
(* 386-481) that RemoteProvider takes to the daemon.  The engine gets its  *)
(* providers when all of them are loaded (daemon.cpp 178-240); these are   *)
(* the behaviours in which every daemon has come up by then.               *)
(*                                                                         *)
(* A crash of the service takes the Stubs with it and is left out here.    *)
(***************************************************************************)
EXTENDS EngineInvariant, FiniteSets

CONSTANTS
  NRemotes,     \* remote providers, in the order in which they are loaded
  ProviderOf,   \* [1 .. NRemotes -> Providers]: which provider wraps the Stub
  Crashes,      \* may a remote daemon crash and come up again?
  MaxTasks      \* bound: calls posted and not yet made

VARIABLES
  phase, valid,           \* loading of the Stubs
  stub,                   \* [1 .. NRemotes -> [Features -> Nat]]: Controller of the Stub
  tasks, call,            \* the calls posted, and the one under way
  up, crashed,            \* the daemons
  remoteCounter, source   \* the controller and the source in a daemon

Remote == INSTANCE RemoteProperties WITH counter <- stub, hardware <- source

Remotes == 1 .. NRemotes

ASSUME DaemonsAssumption ==
  /\ NRemotes \in Nat \ {0}
  /\ ProviderOf \in [Remotes -> Providers]
  /\ \A r, q \in Remotes : ProviderOf[r] = ProviderOf[q] => r = q
  /\ Crashes \in BOOLEAN
  /\ MaxTasks \in Nat \ {0}
  /\ RemoteProviders = {ProviderOf[r] : r \in Remotes}
  /\ ~Restarts

stubsVars == <<phase, valid, stub, tasks, call, up, crashed, remoteCounter, source>>
daemonsVars == <<vars, stubsVars>>

Loaded == \A r \in Remotes : phase[r] = "ready"

DaemonsInit == Init /\ Remote!Init

\* The engine's calls to a Stub whose daemon is gone are not answered.
EngineNext ==
  IF \E r \in Remotes \ up : Asks(ProviderOf[r])
    THEN RequiresUnanswered
    ELSE Proceed \/ Request

\* A step of the engine that starts and stops nothing in a Stub.
EngineAlone ==
  /\ Loaded
  /\ EngineNext
  /\ \A r \in Remotes : hardware'[ProviderOf[r]] = hardware[ProviderOf[r]]
  /\ UNCHANGED stubsVars

\* The controller of a Stub has counted the first start, or the last stop.
EngineStarts(r, f) ==
  /\ Loaded
  /\ EngineNext
  /\ ~hardware[ProviderOf[r]][f] /\ hardware'[ProviderOf[r]][f]
  /\ Remote!StartUpdates(r, f)

EngineStops(r, f) ==
  /\ Loaded
  /\ EngineNext
  /\ hardware[ProviderOf[r]][f] /\ ~hardware'[ProviderOf[r]][f]
  /\ Remote!StopUpdates(r, f)

\* Loading, the task thread and the daemons take no notice of the engine.
RemoteAlone ==
  /\ \/ Remote!RunTask
     \/ \E r \in Remotes :
          Remote!Load(r) \/ Remote!Handle(r) \/ Remote!CallFails(r)
            \/ Remote!ComesUp(r) \/ Remote!Crash(r)
  /\ UNCHANGED vars

DaemonsNext ==
  \/ EngineAlone
  \/ \E r \in Remotes, f \in Features : EngineStarts(r, f) \/ EngineStops(r, f)
  \/ RemoteAlone

DaemonsSpec == DaemonsInit /\ [][DaemonsNext]_daemonsVars

-----------------------------------------------------------------------------
\* The Stub's controller and that of the wrapped implementation are one.
StubsFollow ==
  \A r \in Remotes, f \in Features :
    stub[r][f] = IF hardware[ProviderOf[r]][f] THEN 1 ELSE 0

(***************************************************************************)
(* While satellite based positioning is off no provider that needs         *)
(* satellites accepts a start, be it in the service's process or in a      *)
(* daemon, unless that daemon has crashed: then the engine gets no answer  *)
(* when it asks what the provider requires, and leaves it as it is         *)
(* (engine.cpp 57, 66-67, 81-83 and 223-237, providers/remote/provider.cpp *)
(* 311-315).                                                               *)
(***************************************************************************)
Reachable(p) == \A r \in Remotes : ProviderOf[r] = p => r \notin crashed

SatelliteOffReachesAll ==
  Idle /\ satellite_state = "off" =>
    \A p \in Satellite, f \in Features : Reachable(p) => counter[p][f] < 0

\* What holds of it in the middle of a request.
SatelliteOffReachesSoon == \A p \in Satellite : Reachable(p) => RefusesSoon(p)

(***************************************************************************)
(* A start that the engine's controller of a provider has counted for a    *)
(* session runs the source in the remote daemon, once the request has been *)
(* served and the posted calls have been made, unless that daemon has      *)
(* crashed; and no source runs there that the wrapped controller does not  *)
(* count: two controllers, a queue shared with other Stubs and a bus lie   *)
(* between them (provider.cpp 52-72, providers/remote/provider.cpp         *)
(* 386-481).                                                               *)
(***************************************************************************)
StartsReachDaemons ==
  \A r \in Remotes, f \in Features :
    ~Remote!Pending(r, f) =>
      /\ Idle /\ r \notin crashed /\ counter[ProviderOf[r]][f] > 0 => source[r][f]
      /\ source[r][f] => implCounter[ProviderOf[r]][f] > 0

-----------------------------------------------------------------------------
\* For TLC: the last providers are remote.
LastRemote == [r \in Remotes |-> NProviders - NRemotes + r]
=============================================================================
