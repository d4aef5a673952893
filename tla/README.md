# Location service: TLA+ models, model checks and proofs

This directory holds the formal models of the location service in this
repository: TLA+ modules translated from the C++ source, TLC configurations that
check them on small instances, and TLAPS proofs that hold for every instance.
`PROJECT.json` maps every definition to the source lines it stands for, and
lists runs, mutants, hazards, findings and theorems.

Run a model:  `tlc -workers 2 -config engine_restart.cfg EngineSwitch.tla`.
Run a proof:  `tlapm EngineProofs.tla`.
Source paths below are relative to the repository root.

## 1. The system

A daemon offers position, heading and velocity updates to clients on D-Bus.

    client           service daemon                                provider daemon
    ------           -----------------------------------------     ---------------
    session::Stub -> session::Skeleton -> session::Implementation
                                             | starts/stops
                                          FusionProvider/ProxyProvider
                                             | starts/stops
    service::Stub -> service::Implementation Engine
                       | mirrors properties   | enables/disables
                       +--------------------> StateTrackingProvider
                                              | Controller -> Provider -> Controller
                                              |                  or remote::Stub  -> remote::Skeleton
                     Settings <-- persists ---+                                        |
                     Harvester <- updates, connectivity                             Provider

Threads: the incoming D-Bus connection dispatches all client requests on one
thread; `Runtime::task` (one thread) performs the calls of all remote provider
stubs and the outgoing connection's events; the loading of providers at start-up
runs on a thread of `std::async` the caller waits for; hardware providers report
from threads of their own.

### 1.1 Components

| Component | State | Operations | Hard behaviour | What makes it correct |
|---|---|---|---|---|
| `Provider::Controller` (`provider.cpp` 31-139) | one atomic counter per feature, -1 = disabled | start/stop per feature, enable, disable | check and increment are two atomic accesses; `disable` visits the features one by one; observers are not told of `disable` and `enable`; `enable` zeroes counters in use | the counter never exceeds the observers; hardware runs iff counted, but where `enable` found it running; disabled refuses |
| Engine (`engine.cpp`, `state_tracking_provider.h`) | engine state, satellite state, providers and their tracked state | set a property, add/remove provider, slots | slots set the properties that called them, emissions nest; a remote provider may not answer | the last request wins; off and satellite-off refuse starts wherever the engine gets an answer; what is persisted is what is in force |
| Service implementation (`service/implementation.cpp`) | mirrored properties | property slots, sessions, updates | mirrors in both directions through signals | shown state agrees with the engine |
| Service skeleton and session store (`service/skeleton.cpp`) | index of object paths, session store, watchers of client names | create session (with permission prompt), properties, owner changed | the prompt blocks the dispatch; a client may die during it; store survives clients only through watchers | one owner per session; sessions of dead clients end; calls are answered |
| Sessions (`session/*.cpp`) | status per feature on both sides | start/stop per feature, updates | two copies of the status; a failed update is swallowed | client's and service's status agree |
| Proxy and fusion providers | last position, connections | forwarding | fan-out of starts and stops over providers | every start has its stop at the same providers |
| Remote providers (`providers/remote/*`) | stub controller, task queue, remote controller | load, start/stop, updates | asynchronous calls, crash and restart of the remote daemon, registration race | stub and remote agree once calls are made |
| Daemon start-up (`daemon.cpp`, `provider_factory.cpp`) | command line, provider list | parse, load providers one by one | failure or silence of one provider | the service starts with the others |
| Update policies (`time_based_update_policy.cpp`, `default_provider_selection_policy.cpp`, `fusion_provider.h`, `newer_or_more_accurate…`) | last update per feature | verify an update, choose providers | times of different clocks; reads and writes without a common lock | a stale update does not replace a better one |
| Harvester and reporters (`service/harvester.cpp`, `service/ichnaea_reporter.cpp`, `demultiplexing_reporter.cpp`) | running flag, connections, submission thread | start, stop, report position with cells and WiFis | two threads set the property while the service is constructed; report after stop; a joinable thread | nothing is harvested without consent, at most one late report, no thread is replaced |
| Connectivity manager (`connectivity/ofono_nm_connectivity_manager.cpp`, `cached_radio_cell.cpp`) | cached modems, cells, access points, state | signals of oFono and NetworkManager | signals of several objects in any order, timers, changes shown half-way, calls without an answer | cache agrees with the bus objects it was told of |
| Dummy, Skyhook, GPS, Geoclue providers | worker state per provider | start/stop | worker threads; `stop` racing the worker | updates flow iff started |
| Runtime (`runtime.cpp`) | io_service, worker threads | start, stop, run | exceptions of tasks | a throwing task does not end the thread |
| Settings (`settings.cpp`, `boost_ptree_settings.cpp`) | property tree, sync | get, set, sync | killed between truncation and write | persisted value survives a restart |
| Permission managers | trust store answers | check | prompt blocks | denied clients get no session |
| Value types, codec, criteria, units, WGS84 | none | encode, decode, merge | values left open | what is sent arrives; merging means both |
| Command line client and options | none | parse, get and set a property | a switch that falls through, unreadable values, names cut by letters | the named property is set, options reach the named provider |

### 1.2 Which parts are modelled

Every component above has a model. `PROJECT.json` gives each a status: `modelled`
when every operation of it that changes state is an action, `partly` with what is
left out. `hazards` lists the places where this code is hard to test, each with the
properties that are about it.

## 2. Modules

The core, one module per component:

| Module | Models | State | Steps |
|---|---|---|---|
| `UpdateSwitch` | what `provider.h` promises of a controller (abstract) | who uses a channel, which channel is open | request, release, close, open |
| `Controller` | `Provider::Controller`, one step per atomic access or provider call | counters, running hardware, claims of the observers, program counter of each thread | `CallStart`/`Increment`/`StartInstance`, `CallStop`/`Decrement`/`StopInstance`, `CallDisable` to `DisableStore`, `CallEnable`/`EnableStore` |
| `Counting` | the arithmetic of the controller when calls are serialised | - | `Incremented`, `Decremented` |
| `PowerSwitch` | what switching the service on and off promises (abstract) | who is served, what was asked for, what every place shows | ask, serve, crash |
| `Engine` | engine, wrapped providers (some of which may not answer what they require), configuration properties, settings, service properties, sessions' starts and stops | counters of wrapper and implementation, tracked states, properties, persisted state, stack of calls | one step per executed call of the dispatching thread; client requests; crash |
| `EngineSwitch` | `Engine` with the history that relates it to `PowerSwitch` | `before`: what was asked for when the request was taken | those of `Engine` |
| `SessionService` | service skeleton, session store, session skeleton, implementation and stub | client side (alive, waiting, stubs, wanted), service side (inbox, prompt, index, store) | client calls, timeout, drop, death; dispatch; answer of the prompt; restart |
| `RemoteProvider` | loading of remote stubs, shared task queue, remote skeleton | loading phase, stub and remote counters, tasks, call in flight, daemons up | load steps, start/stop, run a task, handle, fail, come up, crash |
| `RemoteDaemons` | `Engine` with providers that live in daemons of their own | those of `Engine` and `RemoteProvider` | steps of one, and steps of the engine that start or stop a stub; what a gone daemon is asked throws |

The connectivity manager:

| Module | Models | State | Steps |
|---|---|---|---|
| `RadioStack` | modems and cells of oFono in the manager's caches, `CachedRadioCell` with its validity timer | what oFono would answer, signals under way, dispatcher queue, cached modems and cells | changes at oFono, set-up, handlers and the heuristics at their end, tasks, timer expiry, invalidation |
| `NetworkStack` | devices and access points of NetworkManager in the caches, the primary connection | NetworkManager's objects, signals, queue, the device being visited, caches, wiring | changes at NetworkManager, set-up and its repetition, handlers, unanswered calls |
| `Connectivity` | the two together | both | a behaviour moves one of them: they share no state |

The rest. `Updates` to `RuntimePool` have a specification of their own each and are
composed in `Periphery`; `JsonObjects` and `Values` stand beside it:

| Module | Models |
|---|---|
| `Updates` | a position from the provider through policy, engine and fusion provider to a session, one step per unlocked access |
| `Harvesting` | the reporting switch, the harvester's flag and the worker threads of the reporters |
| `SntpClient` | the SNTP client, its timer, its socket, and what becomes of the time stamps in 32 bits |
| `Drivers` | the worker threads of the dummy, Skyhook and Geoclue providers |
| `Gps` | the hardware abstraction layer of the GPS: modes, call-backs, vehicles, the test of the time to the first fix |
| `Persistence` | settings written in place by a daemon that may be killed, and damaged files |
| `RuntimePool` | the thread pool, its strand, exceptions and its end |
| `JsonObjects` | the reference-counted handles a report is built with, one step per call of the wrapper and per reference put by json-c |
| `Values` | functions, checked on enumerated inputs; it extends the following six |
| `Messages` | the arguments of messages, written and read one after the other |
| `Criteria` | criteria and their merging |
| `Reports` | cells, wireless networks, report entries, GPS locations and vehicles as values |
| `Delegation` | calls through proxies, stubs and skeletons by kind of update; providers that throw |
| `Environment` | time since boot, `gps.conf`, typed settings, tables of texts |
| `Options` | options of the daemons and which provider their names mean, defaults of the providers made from them, the command line client |

`ControllerProperties`, `EngineProperties`, `SessionProperties`, `RemoteProperties`,
`RadioProperties`, `NetworkProperties` and `UpdateProperties` state the properties
of a component; those of the parts of `Periphery` stand in the part and are gathered
in `Periphery`. The inductive invariant of the engine is in `EngineInvariant`, those
of the connectivity manager end `RadioProperties` and `NetworkProperties`, and the
parts of `Periphery` and `JsonObjects` end with theirs. `MCPeriphery` sets up a run:
`Periphery` beside the other two; what the other runs need (`ObserverSymmetry`,
`AllSelected`, `LastRemote`, `OneRadio`, `Symmetry`) is defined in their module. The proofs are in `ControllerProofs`, `EngineProofs`,
`SessionProofs`, `RemoteProofs`, `ConnectivityProofs`, `PeripheryProofs`,
`JsonProofs` and `ValuesProofs`.

Definitions named `X_Something` before a definition `X` are variants of `X` with
a plausible mistake. They are used by no specification; each shows that some
property of a run fails when the code makes that mistake (`mutants` in
`PROJECT.json`).

Correspondence worth knowing:

* **Controller.** `pc` is the position of a thread between two atomic accesses
  (`counter < 0`, `++counter == 1`, `instance.start...()`). `claims` is what a
  caller believes to have started: `start_*_updates()` returns nothing, so a
  caller whose start was refused claims it all the same. `disable()` and `enable()`
  may be called in any state, as the daemon does: it enables providers that are
  enabled and running (`engine.cpp` 85). `forgotten` is the history of that: the
  features that ran when `enable()` zeroed their counter, until their instance is
  started or stopped again. What the controller
  guarantees depends on who calls it, so `callers` is chosen in the initial state
  and never changes: `"threads"` interleave freely; `"observers"` do so too, and
  nobody disables or enables the provider; `"serial"` callers enter one at a time
  (`MayEnter`), as when one bus thread makes all calls; `"cooperative"` callers
  are serial and forget a claim when the controller does, in `disable()` and in
  `enable()`. The last are the callers `provider.h` seems to expect, and with them
  the counters implement `UpdateSwitch`: who is granted, what is open. The switch
  says nothing of the hardware, which `enable()` may leave on. Each property names the callers it is about.
* **Engine.** `todo` is the call stack of the dispatching thread. Setting a
  property whose value changes pushes the calls of its slots, in connection
  order; the slots of an outer emission remain below those of a nested one and
  keep the value they were called with. This is the depth-first emission of the
  properties library (outside the repository; `engine.cpp` 208-217 relies on it).
  Each provider has two controllers, the wrapper's and the one of the wrapped
  implementation. `is_any_active` looks at the last provider only because the
  loop of `engine.cpp` 213-214 assigns instead of accumulating. `requested` is
  the last value a client wrote to `is_online`. Both slots ask a provider what it
  requires; a Stub whose daemon is gone throws then, `for_each_provider` swallows
  it and the provider stays as it is (`RequiresUnanswered`, possible for
  `RemoteProviders` at any such question).
* **EngineSwitch.** What the properties show in the middle of a request is not yet
  what the client asked for, and an atomic switch has no middle. The refinement
  mapping therefore shows, until `todo` is empty, what was asked for before
  (`before`, a history variable: written, never read), and then what engine,
  settings, `is_online` and `state` show. A crash in a request may leave the old
  state or the new one in the settings; that it leaves no third one is what
  `PowerSwitch!Crash` says.
* **RemoteDaemons.** `hardware[p]` of `Engine` is what the wrapped controller of
  provider `p` has started. If `p` is remote that controller is the Stub's own,
  and its start is a call posted to the task thread: a step of the engine that
  sets `hardware[p][f]` is `Remote!StartUpdates`, one that clears it
  `Remote!StopUpdates`. Everything else either side does alone. The daemon gets
  its engine when loading has ended (`Loaded`). A question to a daemon that is not
  up is not answered, one to a daemon that is gets its answer (`EngineNext`).
* **JsonObjects.** A call of the wrapper says which references json-c has to put
  (`putting`); they are put one by one, members of a freed object included, before
  the next call. `borrowed` records that `get` lent a reference.
* **SessionService.** `inbox` is the queue of the incoming connection, `prompt`
  the permission check that blocks its dispatch. A client that goes leaves a
  "lost" message only if a `ServiceWatcher` for its name exists at that moment.
  A call is given up (`TimesOut`) only while a prompt is open: nothing else in the
  service takes seconds. The call stays in the inbox and is handled late, and its
  reply is dropped (`Awaits`). `Started` keeps the code's confusion of heading
  and position (`session/skeleton.cpp` 174). `restarted` records that the service
  came up a second time: sessions are not persisted and their paths are handed
  out again, so what is promised about sessions is promised for one life of the
  service.
* **RemoteProvider.** Stubs are loaded one after another because the future of
  `std::async` waits in its destructor. All stubs post to one queue (`tasks`) of
  one thread (`call` is the call it waits for). `crashed` records the daemons
  that have crashed: a stub does not notice, so what relates it to its daemon is
  promised until then, and `UnwantedIsOff` beyond.
* **RadioStack, NetworkStack.** The bus thread handles signals in the order in
  which they were sent; work it posts is done later by the dispatcher, which also
  runs expired timers; the set-up runs on a third thread. What the buses hold may
  change at any time, also between a signal and its handling. A handler of a cell
  assigns and tells of the change first; the heuristics that invalidate the cell are
  a step of their own (`due`, `RunHeuristics`), and readers, timers and the other
  thread come in between. Any call to NetworkManager may get no answer (`faults`):
  what a device is, what its access points are, what the properties of an access
  point, the state or the primary connection are, and which devices there are.
  `seen` and `missed` are histories of what the manager was not told, or not when it
  asked. NetworkManager does
  not use an object path again (`former`), oFono does.
* **Updates.** `at` is how far the delivery of a provider's update has come:
  the policy reads, decides and stores, the engine assigns and announces, the
  fusion provider selects and stores, all without a lock. `remote` are the
  providers that share the task thread: they deliver one at a time (`MayDeliver`),
  and their positions are stamped anew on arrival, since the signal carries no
  time. The clock is not set back. Only the policy's overload for positions is
  modelled, the one the engine calls.
* **Chosen once.** `callers`, `stack`, `part`, `remote`, `patient`, `kind`,
  `used`, `resumes`, `prompt` of `Gps` and `problematic` are chosen in the initial state:
  a run covers all the choices, and a property can name the ones it is about.
* **Drivers, Harvesting.** `patient` callers make a call when the effect of the
  last one has been seen. The others meet the race, which is in the model: a
  `stop` before the worker's first store is lost, a joinable thread is assigned.
  Nothing in the Geoclue provider makes a bus that was stopped run again; whether
  `Bus::run` does so by itself is up to a library outside the repository, and
  `resumes` leaves it open.
* **Gps.** The test of the time to the first fix looks at its flag and begins to wait
  in two steps (`CheckFix`, `Block`), since the driver's thread sets the flag and
  notifies without the lock: a notification in between is missed and the wait ends
  with its timeout, which looks at the flag again.
* **Options.** A provider is meant by every option whose name contains its own, and a
  name is cut at the first of some letters, not at a text (`find_first_of`). Of two
  values under one key the last one counts; a name without a separator throws.
* **SntpClient** computes in scaled-down widths: a second has 10 ticks, a
  fraction 16 values and an unsigned number 64, in place of 1000, 2^32 and 2^32.

Composition. `Engine` contains the serialised controller through `Counting`
(twice per provider); `RemoteProvider` contains it through `Counting` in stub
and remote. That calls into a controller are serialised is what `Serialised`
assumes; `Engine` realises it with one dispatching thread. `Engine` is itself the
composition of engine, service implementation, settings, wrapped providers and
the fan-out of `FusionProvider`/`ProxyProvider`; `Updates` that of provider,
policy, engine, fusion provider and session. `RemoteDaemons` puts `Engine` and
`RemoteProvider` together: engine, wrapped controllers, Stubs, queue, bus and
daemons in one behaviour. The parts of `Connectivity` and of `Periphery` do not read
each other's state; a behaviour moves one of them, so that the runs explore the sum
and not the product of their states. `Values` stands apart because it computes with
bits, which the provers cannot handle, and `JsonObjects` because its proof stands on
its own; `MCPeriphery` lets a behaviour move one of the three.

## 3. Runs

| Run | Properties | Instance | Distinct states |
|---|---|---|---|
| `controller` | `NeverOvercounted`, `CountExact`, `RunningIffCounted`, `NoLeak`, refinement `ImplementsSwitch` | 2 observers, 2 features, all four kinds of callers | 195 thousand |
| `controller_stale` | `EnabledAcceptsStarts` (violated) | 2 observers, 1 feature | - |
| `engine_restart` | `ServedRequestHolds`, `SatelliteOffRefuses`, `StatesAgree`, `RequestsTakeEffect`, refinement `ImplementsPowerSwitch` | 2 providers (one satellite, the other one may not answer), 2 features, 1 session, crashes | 498 thousand |
| `engine_remote` | `EngineInv`, `SatelliteOffReachesAll`, `ActiveMeansDelivering`, `StartsAreServed`, `StartsReachDaemons` | 2 providers (both satellite, one remote), 1 feature, 2 sessions, 3 tasks, crashes of the remote daemon | 316 thousand |
| `engine_offleak` | `OffStopsUpdates` (violated) | 2 providers, 1 feature, 1 session | - |
| `sessions` | `StatusAgrees`, `OrphansAreIdle`, `OnlyOwnerSwitches`, `DeadClientsAreReleased`, `CallsReturn` | 2 clients, position, 2 sessions per life, 1 call given up, restarts | 219 thousand |
| `session_heading` | `EnabledDelivered` (violated) | 2 clients, all features, 1 session | - |
| `remotes` | `InStep`, `UnwantedIsOff`, `StartsArrive`, `LoadingEnds` | 2 remotes, 1 feature, 3 tasks, crashes | 20 thousand |
| `connectivity` | `ConnectivityInv`, `CellCacheIsSound`, `ValidUmtsIsComplete`, `WifisAreInAir`, `ConnectionIsCurrent`, `StaleCellsExpire`, `DevicesGetCached` | 1 modem with 2 technologies and 2 cells; 1 WiFi and 1 modem device, 1 access point; 2 signals, 2 tasks, 1 unanswered call | 812 thousand |
| `connectivity_unwired` | `InitialisedLater` (violated) | the same | - |
| `periphery` | `PeripheryInv` and one property per part, each a conjunction of named ones: `UpdatesAreSound`, `HarvestingIsSafe`, `GpsIsSafe`, `DriversAreSafe`, `SettingsAreSafe`, `PoolIsSafe`; beside them `ObjectsAreFreedOnce` and `ContentsAreSound` | below | 1.36 million |
| `sntp_seconds` | `UncertaintyCoversError` (violated) | the instance of `SntpClient` below | - |

`EngineInv`, `ConnectivityInv` and `PeripheryInv` are the inductive invariants of
section 5, type correctness included. The types of `Controller`, `SessionService` and
`RemoteProvider` are proved.

Why these bounds are enough:

* `controller`: two observers are a first and a last one on the same counter,
  and one observer between check and increment while the other moves; a second
  feature lets `disable()` be between two features. Each property of this
  run has a theorem (section 5), for which the number of observers and features
  does not matter at all. The observers are interchangeable and a symmetry set;
  every property of the run is a safety property.
* `engine_*`: two providers are needed for "the last of them counts" and for
  nested emissions between two disables; two features for one running while the
  other stops; two sessions for shared counters. `MaxStarts = 2` bounds how often
  an implementation may be started without being stopped (the leak of
  `engine_offleak` could otherwise repeat for ever); at 2 the leak has happened
  and been repeated once. Crashes of the service and two sessions are checked
  apart because sessions do not survive a crash. In `engine_restart` any of the
  engine's questions to the second provider may get no answer, and the first one
  needs satellites; in `engine_remote` both do, so that the satellite option meets a
  daemon that is gone. The remote provider there decides whether the engine is
  active; with three tasks
  a start, a stop and a start can wait while the daemon crashes under the first of
  them. A second remote would meet the first only in the queue, which `remotes`
  has. The safety properties of both runs are proved for any number of providers,
  remote ones, features, sessions and tasks.
* `sessions`: `MaxSessions` bounds the sessions created in one life of the
  service. With two, one client has two sessions or two clients one each, and a
  client can come in while the other's prompt is open. `MaxLate = 1` lets one
  call of a client be given up while it makes another. The handlers of the three
  features are independent except for the one that is wrong, so one feature is
  enough to see what happens to a session; `session_heading` takes all three. The
  safety properties of the run are proved for every number of clients and sessions.
* `remotes`: `MaxTasks = 3` holds start, stop and start of one feature, or calls
  of both remotes in turn, with one more in flight. The invariants are proved for
  every length of the queue.
* `connectivity`: one modem can be registered, taken away and come again under
  the same path while two signals and two tasks about it wait, and change its
  technology and cell in between; a second modem would meet it only in the queue.
  Every call to NetworkManager may fail, one of them in a behaviour: two failures
  would have to meet in one device, which the first has given up already.
* `periphery`: two providers with two accuracies, two units of time, a delay of one
  and three updates (one overtakes another and a third follows); the policy's limit
  is below the delay, so that a late update can be significantly older, and the
  cutoff of the selector is above the limit; one reporter
  and every interleaving of constructor, bus and report; delays of the network of
  0, 1, 3 and 45 ticks and clocks 0, 4 and 30 ticks apart, so that sums pass the end
  of a second and products of fractions that of an unsigned number;
  five calls on a driver (start, stop, start, stop, start); vehicles below, at
  and above the width of the masks, two trials, four call-backs; two settings,
  four changes and two faults (the daemon is killed, a write fails); two workers and four tasks. The two providers are a
  symmetry set. Beside them the inputs of the functions in `Values`, enumerated (130
  thousand), and three handles on three objects of JSON with two members each: six
  calls build a container in a container, copy its handle and take it apart again
  from either end, and three objects are the shortest chain in which a freed object
  frees one that frees another (85 thousand).

Every safety property of the passing runs except `ContentsAreSound` also has a
theorem that does not depend on these numbers.

Deadlock is checked for `controller` and `engine_restart`. It is not checked for the
others, which may rightly come to rest: when every client is gone, when a remote
could not be loaded (`remotes`, `engine_remote`), when the signals are handled, or
when a part has made its bounded number of calls, nothing more happens.

## 4. Fairness

* `EngineSwitch`: `WF(Dispatch)`, the bus thread goes on with the calls of the
  request it serves. Clients and crashes are free not to come. `RequestsTakeEffect`
  is about a daemon that eventually stops crashing.
* `SessionService`: `WF(Dispatch)` likewise. Nobody makes the user answer a
  permission prompt, and the prompt blocks the dispatch: both liveness
  properties therefore assume `[]<>(prompt = NoClient)`. `TimesOut` has no
  fairness: calls return although no timeout comes to their help.
* `RemoteProvider`: the loading thread and the task thread run (`WF(Load)`,
  `WF(RunTask)`), a daemon that is up dispatches its calls (`WF(Handle)`), and
  the bus answers for one that is not (`WF(CallFails)`). A remote daemon that is
  up and hangs is outside these assumptions; it blocks the task thread and with
  it all remote providers (listed as a hazard).
* `Connectivity`: a timer that runs expires and its handler is run
  (`WF(TimerExpires)`, `WF(Invalidate)`, per modem: each has a timer of its own);
  on the network side the bus thread handles its signals, the visit of a device
  goes on and the dispatcher runs its tasks (`WF` each). oFono and NetworkManager
  need not do anything.

No strong fairness is used. The parts of `Periphery` have safety properties only.

## 5. Proofs

Every theorem holds for all values of the constants its assumptions allow. Every
safety property of the passing runs has one, `ContentsAreSound` alone excepted. TLC
checks the inductive invariants on the small instances too.

**`ControllerProofs`**, from `ControllerAssumption` alone, for any finite set of
observers and any number of features:

| Theorem | Statement |
|---|---|
| `Typing` | `Spec => []TypeOK` |
| `NoPhantomObserver` | `Spec => []NeverOvercounted` |
| `CounterIsExact` | `Spec => []CountExact` |
| `SerialInvariant` | `Spec => [](Serialised => SerialInv)` |
| `RunningMatchesCounter` | `Spec => []RunningIffCounted` |
| `NoHardwareLeak` | `Spec => []NoLeak` |
| `DisabledStaysOff` | `Spec => []DisabledRefusesStarts` |
| `ControllerImplementsSwitch` | `Spec => ImplementsSwitch` |

`NeverOvercounted` compares a counter with the cardinality of `Counted(f)`, the
observers that hold a claim whose decrement is to come or that have incremented
already. A step changes `Counted(f)` by at most one observer (`CountedPlusOne`,
`CountedMinusOne`, `CountedLoses`, from the finite-set theorems), and `StepCounts`,
`ObserverCountsExactly` and `StepCountsExactly` say which. The invariant needs
`NotYetClaimed` (an observer between check and increment holds no claim yet), the
exact one also `Holding` (one that decrements still has its claim) with an engine
that stays outside (`StillClaimed`). Because `disable()` and `enable()` write
absolute values while observers are half-way, only `<=` survives the engine.

`RunningIffCounted` is not inductive: it speaks of quiet states only. `SerialInv`
adds that at most one thread is inside (`OneInside`), what the counter is at each
label of the thread inside (`InsideCounts`), and how far `disable()` and
`enable()` have come: features already stopped run only if an `enable()` forgot them (`StoppedByDisable`),
features already stored are negative (`MarkedDisabled`), every other feature matches
its counter, is the one being started or stopped, or was found running by an
`enable()` and forgotten (`Matched`).
`CallersFixed` says that no step changes the kind of callers, so the case
"serialised" can be fixed once, and `StepsAlone` that a serialised step is taken
by the only thread inside or by one that enters an empty controller. `NoLeak`
follows with `NoPhantomObserver`: a running feature that was not forgotten has a
positive counter, so `Counted` is not empty, and between calls a counted observer holds a claim.

What `enable()` forgets is the exception in both: the code does leave the hardware of
such a feature running, uncounted and perhaps for nobody, until a start and its stop
reach it, and the theorems say that nothing else leaves it so. `DisabledStaysOff` is
proved only: what a disabled controller refuses is, for the cooperative callers, part
of what the run checks with `ImplementsSwitch`.

The refinement needs, for cooperative callers, that a counter which is not marked
equals its observers and that a marked feature has no claim (`Tallied`, in
`CooperativeInv`): then a decrement that leaves others does not close the feature,
a stale stop does not exist, and each step of the controller is a request, a
release, a closing, an opening, or nothing for the switch (`ObserverSwitches`,
`EngineSwitches`, `SwitchStep`).

**`EngineProofs`**, from `EngineAssumption` alone, for any number of providers and
features, any satellite providers, any sessions with any selection of providers
(also the same one twice), with and without restarts:

| Theorem | Statement |
|---|---|
| `EngineIsInvariant` | `Spec => []EngineInv` |
| `EngineTypes` | `Spec => []TypeOK` |
| `RequestsHold` | `Spec => []ServedRequestHolds` |
| `StatesComeToAgree` | `Spec => []StatesAgree` |
| `SatellitesRefuse` | `Spec => []SatelliteOffRefuses` |
| `SatelliteOffReaches` | `DaemonsSpec => []SatelliteOffReachesAll` |
| `ActiveDelivers` | `Spec => []ActiveMeansDelivering` |
| `StartsServed` | `Spec => []StartsAreServed` |
| `UnmovedSwitchIsStill` | `SwitchSpec => []UnmovedSwitchStays` |
| `EngineImplementsSwitch` | `SwitchSpec => ImplementsPowerSwitch` |
| `StartsReach` | `DaemonsSpec => []StartsReachDaemons` |

The properties speak of the moments between two requests. In between, engine,
service, settings and providers disagree in many ways, and the invariant
(`EngineInvariant`) says of each disagreement which call in `todo` will repair it.
It does so by position. Every step but a crash takes the head of `todo` and puts
the calls it makes in its place (`Replacing`, `DispatchReplaces`): what is said of
a call further down stays true as long as no call above it interferes. Which calls
may wait above which is `Nested`; that a written state is shown next, and that what
`disable()` stops it marks later, is `Framed`. Both are kept by every step
(`StackDispatch`), and with them the rest, each conjunct by a lemma about one
replaced head (`...Step`) and one over all kinds of calls (`...Dispatch`):

* a slot that waits knows the engine's current state, unless it was told "off"
  (`SlotsAreCurrent`): the nested emissions of `engine.cpp` 208-217 can overtake
  only an "off";
* engine and service agree, or the first waiting call that mirrors the state makes
  them agree (`AgreesSoon`, `ShownSoon`);
* what the last waiting write of `is_online` will leave there is what the client
  asked for (`OnlineIsKnown`), so the nested "on" of a request for "off" is undone;
* the settings hold the state, or it will be written, or a stale "off" was written
  and the engine is about to be switched off again (`PersistedSoon`);
* while the engine is off, or satellites are, a provider refuses or will be
  disabled before the request ends (`OffRefusesSoon`, `SatelliteRefusesSoon`), for
  satellites a provider of this process, since a remote one may not answer;
* the engine is active because the provider that counts is, unless a crash has left
  it so (`ActiveIsTracked`);
* the counter of the wrapped implementation is positive if the wrapper's is, or the
  call that makes it so waits (`Balanced`).

An empty `todo` leaves none of these excuses, and the properties follow
(`IdleFacts`). A crash empties it anywhere: a restarted daemon is a fresh one with
whatever the settings hold (`FreshInv`, `RestartFresh`).

The refinement of `PowerSwitch` takes more than that invariant, because of the crash.
When the last call of a request has been made, `IdleFacts` say that every view shows
what was asked for, which is the abstract `Serve`; the calls before it are stutters,
for `shown` is still what it was. A crash in a request that changes the switch may
leave either state behind and both are allowed. In one that leaves the switch as it
is - a second "on", satellites, a session - nothing else may ever have been in the
settings, not even for one step between a nested "on" and the "off" that follows it.
That is `UnmovedSwitchStays`: while the service is on and stays on, no waiting call
switches anything off (`StaysOnDispatch`); while it is off and stays off, none
switches on, for which every provider has to refuse, so that no emission reports one
as running (`RefusedMoves`, `StaysOffDispatch`). With it `SwitchRefines` maps every
step to one of the switch or to none.

`StartsReach` composes two components by their theorems. A step of `DaemonsNext` is a
step of the engine or leaves it alone, and a step of the remotes or leaves them alone
(`DaemonsAreParts`), so `EngineInv` holds of the whole, and so do `InStep` and
`UnwantedIsOff`, which `RemoteProofs` proves and `EngineProofs` cites through an
instance. What is new is the seam: a step of the engine moves the source of one
feature of one provider (`OneSourceMoves`), so a Stub counts one exactly while the
wrapped implementation runs (`StubsFollow`, `FollowsStep`). From the session's start
to the source in the daemon the theorem then follows link by link.

`SatelliteOffReaches` says of the same composition what the engine alone cannot: the
satellite option reaches the remote providers, too. Its invariant is that of the
engine for one provider (`RefusesSoon`), for each whose daemon has not crashed
(`SatelliteOffReachesSoon`); a question that throws is about a daemon that is not up,
and one that the engine has loaded is up unless it has crashed.

**`ConnectivityProofs`**, from `RadioAssumption` and `NetworkAssumption` (paths name
one thing, and a device is of one type; no cell has the number of what is no cell),
for any number of modems, cells, devices and access points and any length of the
queues:

| Theorem | Statement |
|---|---|
| `ConnectivityIsInvariant` | `ConnectivitySpec => []ConnectivityInv` |
| `ConnectivityTypes` | `ConnectivitySpec => []ConnectivityTypeOK` |
| `CellsAreSound` | `ConnectivitySpec => []CellCacheIsSound` |
| `ValidCellsAreComplete` | `ConnectivitySpec => []ValidUmtsIsComplete` |
| `AccessPointsAreRight` | `ConnectivitySpec => []WifisAreInAir` |
| `ConnectionIsRight` | `ConnectivitySpec => []ConnectionIsCurrent` |

For the radio stack the point is that a path may be used again. Whatever a cell
shows (`CellsAreSeen`), a signal on its way says (`SignalsAreSeen`) and oFono would
answer (`AnswersAreSeen`) the modem had since it was last heard to go, unless the
signal that it went is still on its way, behind the one in question (`GoesAfter`).
Signals are handled in order, so that one clears the cell before anything of the
modem's next life is believed; there is one lemma per kind of step. A 3G cell may be
shown valid and incomplete until its handler has come to the heuristics (`due`); no
timer and no task in between makes it so afterwards.

For the network stack the invariant says what the signals and tasks under way will
repair: an access point that is gone has its "removed" on the way, one in the air is
cached, in the visit that is going on, or announced (`AccessPointsComeRight`);
likewise devices (`DevicesComeRight`) and the primary connection, where the last
change in the signals, or if there is none in the tasks, is the current one
(`PrimaryComesRight`). What was not told, or not answered when it was asked for, is
in `missed` and promised nothing. `AddedFirst` is needed for the last: a device is
cached before a task looks up whether the primary connection uses it, since both
come through the same two queues. `SilentBefore` and `Lifecycle` say that nothing is
told before the manager listens, and nothing that was not there.

**`PeripheryProofs`**, from the assumptions of `Updates` and `Periphery`, for any
values of the constants they allow:

| Theorem | Statement |
|---|---|
| `PeripheryIsInvariant` | `PeripherySpec => []PeripheryInv` |
| `UpdatesStaySound` | `PeripherySpec => []UpdatesAreSound` |
| `HarvestingStaysSafe` | `PeripherySpec => []HarvestingIsSafe` |
| `GpsStaysSafe` | `PeripherySpec => []GpsIsSafe` |
| `DriversStaySafe` | `PeripherySpec => []DriversAreSafe` |
| `SettingsStaySafe` | `PeripherySpec => []SettingsAreSafe` |
| `PoolStaysSafe` | `PeripherySpec => []PoolIsSafe` |

A step moves one part (`PartsMoveAlone`), so the invariant is kept part by part,
each with lemmas about its initial states, its steps and what its invariant means:

* Updates: the four theorems below.
* Harvesting: for patient clients, the reporters' threads are those of the flag,
  except between the exchange and the call of the reporters (`WorkersFollow`), and
  how far the user's value has come depends on where its setter is
  (`SwitchFollows`); for all clients, a report that began before the flag was
  cleared is the last (`LateOnce`).
* The reference time: once the timer has fired, the packets meet a closed socket
  and no operation is left waiting (`TimerInv`, `SocketInv`). That a sample is true to
  a second needs arithmetic on quotients: a time stamp is less than a second behind
  the time it is of and at most a unit ahead (`StampsAreTrue`), and what is measured
  is half a sum of two differences of stamps (`SampleIsTrue`). The seconds have to
  fit their number, which NTP's do until 2036 (`SntpAssumption`).
* Drivers: for each, what its flags say of its thread (`DummyInStep`,
  `SkyhookInStep`, `GeoclueInStep`); for Skyhook also that, with callers that wait, a
  thread that was asked to stop is alive to do it (`SkyhookServes`), and for Geoclue
  that no stop is forgotten (`GeoclueServes`). That Geoclue's worker runs when wanted
  is for a bus that can be run again; for one that cannot, at most one late update
  and the join before every start are what remains.
* GPS: the modes of the driver and the flags of a vehicle are kept step by step; a
  prompt driver reports a position only while a trial waits for it
  (`PromptInStep`), so a trial's fix is its own. `GpsAssumption` asks for one trial
  at least; the code makes three.
* Settings: a value is in the file or about to be written (`SurvivesInv`), and
  nothing that can be read again says "on" after an opt-out (`OptOutInv`), wherever
  a write is torn. Only the process dies: the file is never synced, and nothing is
  said about a failure of the power. What is absent or unreadable is no value (`SettingsAssumption`).
* Pool: the strand holds what was posted and has not begun, in order
  (`StrandInv`); a thread is busy or has nothing in hand, and after `stop()` all
  have left (`OwnerInv`).

The theorems about `Updates`, for any providers, accuracies, delays and limits:

| Theorem | Statement |
|---|---|
| `UpdatesAreTyped` | `Spec => []TypeOK` |
| `ReferenceKeepsUp` | `Spec => []ReferenceLagIsBounded` |
| `ReferenceIsMeasured` | `Spec => []ReferenceWasMeasured` |
| `OneThreadKeepsInStep` | `Spec => [](ReferenceIsVerified /\ SessionLagIsBounded /\ SessionIsUpToDate)` |

Together these are the conjuncts of `UpdatesAreSound`. The invariant says of each
delivery, by how far it has come, what the update it carries may be (`Carried`),
that it is no older than the longest delay (`OnTime`), that nothing is decided
before the policy is asked (`Waiting`) and what a returned decision was worth
(`Returned`); and that positions come from providers (`Origin`) and not from the
future (`NotAhead`). The bound on the lag is the sum of its causes: a delivery is
late by the longest delay, and the policy keeps an older position up to its limit.
With a single delivering thread a second invariant (`OneByOne`, `EngineInStep`,
`SessionInStep`) relates policy, engine and session step by step.

**`ValuesProofs`**, for functions that need neither bits nor recursion, which TLC
checks in `Values` on enumerated arguments:

| Theorem | Statement | For any |
|---|---|---|
| `MergedCriteriaMeanBoth` | `MergedMeansBoth(m, a, b)` | criteria with any accuracies |
| `UpdatesArrive` | `UpdateArrives(u)` | update with values of any kind |
| `StrengthsKeepOrder` | `KeepsOrder(weakest, strongest, low, high)` | bounds and numbers |
| `CellsTold` | `ToldApart(a, b)` | cells with details of any size that do not change meanwhile |
| `CellsToldInParts` | `ToldInParts(a, b, checked, got)` | cells whose details change while they are read |
| `FlagsDecideWhatIsTold` | `FlagsDecide(location, field, value)` | locations of the driver |
| `InjectedPositionsAreUnderstood` | `InjectedIsUnderstood(position, memory)` | position, and what was in memory |
| `AbsentProvidersAreSkipped` | `AbsentAreSkipped(order, providers)` | providers in any order |
| `UpdatesReachWhatStarts` | `ReachesWhatStarts(providers, selection, source)` | selection among any providers |
| `TimesSinceBootAreKept` | `TimesAreKept(e, stamp)` | `/proc/stat` whose lines agree, and any clocks |

A message is a concatenation that is read from its head: what comes first is read
whatever follows (`OptionalArrives`), which is used from the last optional value to the
first. An entry of a cell is a set of pairs; it tells its cell because no two details of
a type have one key (`KeysDiffer`). The message of criteria and the map of vehicles are
folded over sequences of any length, as is the choice of a provider: these would need
induction over data. `CellsToldInParts` is about a cell that changes between the look
at a detail and its being taken; one that becomes of another type just then is left
out, since its details share their memory.

**`JsonProofs`**, from `ObjectsAssumption`, for any number of handles and objects:
`EveryObjectIsFreedOnce` (`JsonSpec => []ObjectsAreFreedOnce`). References are counted by
place: a call changes one handle or one slot, and `TallyMoves` says what this does to
the number of places that refer to an object; freeing a container empties both of its
slots (`ContainerEmptied`). So what is counted stays what refers to an object plus what
is still to be put (`CountedStep`). That nothing remains when the last handle is gone
is not a matter of counting, since objects in a ring keep each other alive: among any
objects one is held by none of them (`NoCycles`), because a container gets only what
does not lead back to it (`AcyclicWhenHeld`), and what is freed holds nothing
(`FreeIsEmpty`). An assignment puts before it gets; what it is about to get survives
since two handles point at it (`GetterHolds`).

**`RemoteProofs`**, for any number of remote providers and features and any length
of the queue: `RemotesAreTyped` (`[]TypeOK`), `StubAndSourceInStep` (`[]InStep`)
and `UnwantedSourcesAreOff` (`[]UnwantedIsOff`). The calls of a feature of a
remote, the one in flight and those in the queue, alternate between start and
stop, and the last of them agrees with the controller of the Stub (`InTurn`). The
controller in the daemon is -1, 0 or 1, and the source runs exactly at 1
(`Source`); a source that runs is stopped before it is started (`RunningStops`),
one that does not is started before it is stopped unless its daemon has crashed
(`IdleStarts`). The value -1 arises when a stop reaches a daemon that came up
again. A daemon that nothing was asked of has nothing running (`Unasked`).

**`SessionProofs`**, from `SessionAssumption` and `"heading" \notin Features`, for
any number of clients, sessions and calls given up:

| Theorem | Statement |
|---|---|
| `SessionsAreTyped` | `Spec => []TypeOK` |
| `StubsShowTheirSessions` | `Spec => []StatusAgrees` |
| `LeftoverSessionsAreIdle` | `Spec => []OrphansAreIdle` |
| `OwnersAloneSwitch` | `Spec => OnlyOwnerSwitches` |

Typing needs a count: sessions made, asked for and being decided on do not pass
the bound (`Counted`). The rest holds in one life of the service (`Kept`). The
inbox is read as sets of places, one for each operation on a feature of a path, and
a dispatch moves every place by one (`FirstIsTaken`, `RestKeeps`). A path that was
not handed out is in no message (`Fresh`); switches come from the owner of the
session (`Owned`); a Stub has its session (`Held`); the report that an owner is gone
stands behind all of its switches (`Reported`); and the last switch on its way, or
the session itself if there is none, agrees with the Stub (`Shown`). The three
properties follow by looking at a settled client, at a client that is gone with
nothing pending, and at the first message. The assumption about heading is needed:
with it the theorems are false, as `session_heading` shows.

Only model-checked:

* liveness: `RequestsTakeEffect`, `StaleCellsExpire`, `DevicesGetCached`,
  `StartsArrive`, `LoadingEnds`, `DeadClientsAreReleased` and `CallsReturn` depend
  on fairness and `ENABLED`, which the installed provers do not handle;
* `ContentsAreSound`: some of its functions compute with bits (flags of features, the
  header of a packet) or fold sequences (criteria and maps of vehicles as messages, the
  choice of a provider, the networks of a report), others look up constant tables. What
  `ValuesProofs` states of the rest is what the property says of enumerated inputs.

## 6. Where the code does not do what a text says

Five runs state what a comment or test of the repository says, and TLC finds them
violated by what the code does; `PROJECT.json` quotes the lines.

* `controller_stale`: an observer starts a feature, the provider is enabled although
  it is enabled and running, which zeroes the counter, and the observer's stop takes
  it to -1, the disabling value: the enabled feature refuses every start (and its
  hardware keeps running).
* `engine_offleak`: disabling the first running provider makes the engine "on" in
  the middle of "off", which zeroes the counters of the others: their updates are
  not stopped when their turn comes, and their hardware keeps running.
* `session_heading`: enabling heading enables position.
* `connectivity_unwired`: a WiFi device is cached before its access points are
  asked for; when that fails, the set-up made later skips the cached device.
* `sntp_seconds`: the fraction of a second is multiplied in 32 bits and divided by
  the largest value of 32 bits, so the time injected into the GPS is wrong by up to
  a second, more than its uncertainty says.

What the models contain besides, and the properties are stated around:

* `enable()` of a running feature, as the engine makes it when it goes from "active"
  to "on" (`engine.cpp` 85), leaves the hardware on with a counter of 0: the query
  `are_..._updates_running()` denies it, and a stop does not reach it.
* A remote provider whose daemon is gone when the engine asks it what it requires
  stays as it is: enabled, if the satellite option was being switched off.
* A cell that has changed is shown before its heuristics have invalidated it.
* A device NetworkManager does not answer about is not asked about again.
* With threads interleaved, check and increment (and decrement and stop) are two
  steps, so a disabled feature may be started and a provider stopped under a new
  observer; `DisabledRefusesStarts` and `RunningIffCounted` are about serialised
  calls.
* Only the last provider decides between "on" and "active", and a provider has one
  tracked state for three features, so a provider may deliver while the engine is
  "on"; after a crash while active the service shows "active". The satellite state
  is never persisted (`engine.cpp` 101).
* After a restart of the service an old Stub may address the session of another
  client, and nobody looks at the sender. A remote daemon that restarts is not told
  to start again.
* A client may create several sessions, and a client that dies while its
  permission check runs leaves a session nobody removes (`OrphansAreIdle`).
* A registration of a remote between check and watcher is missed, and its loading
  times out. What a provider throws while it is made stays in a future nobody reads
  (`daemon.cpp` 197).
* An exception of an emission leaves the harvester as it was although the user's
  choice is stored (`service/implementation.cpp` 85).
* Updates of a shared provider reach every session connected to it, also one whose
  own status is disabled (`session/implementation.cpp` 38).
* Positions of remote providers are stamped with the time of their arrival.
* The visible space vehicles of the engine only accumulate (`engine.cpp` 190).

Disagreements met while reading that are values or layout rather than behaviour,
and that have a definition in `Values` or its parts but no run of their own:

* `Criteria::satisfies` starts from `false` and only conjoins: nothing satisfies
  anything (`criteria.cpp` 23). It is not modelled; `Meets` is the relation its
  documentation gives, by which `MergedMeansBoth` says what merging is for.
* The overloads of the update policy for headings and velocities use a flag that no
  branch has set when two updates are close (`time_based_update_policy.cpp` 76, 99);
  nobody calls them, and they are not modelled.
* `start_heading_updates` and `start_velocity_updates` of the GPS provider do
  nothing although it claims both features.
* Azimuth and elevation of a vehicle are swapped
  (`android_hardware_abstraction_layer.cpp` 265), and vehicles that differ in their
  signal alone are equal (`space_vehicle.h` 71).
* The configuration of the extra data reads `gps.conf` to its end, so the SNTP
  client that is given the same stream finds nothing in the system's file and takes
  the one in `/etc`, although a comment prefers the former
  (`android_hardware_abstraction_layer.cpp` 666-669); a missing file does not throw,
  so the defaults are not used.
* `json::Object::get` wraps a reference it does not own, so a put of the result
  frees it once too often, as does an assignment to itself; its calls do not throw
  what their comments say.
* The time of the boot is computed once and does not follow the clock.
* The destructor of the remote Skeleton leaves some handlers installed
  (`providers/remote/provider.cpp` 644).
* A property of the command line client falls through to the next one
  (`daemon.cpp` 362).

## 7. Not modelled

* Units and coordinates, arithmetic on WGS84, the wording of logs and
  announcements, and values that are passed on unread.
* Of the connectivity manager: the announcements of its changes to clients and the
  flags it mirrors (airplane mode, roaming) without deciding anything on them.
* Of the GPS: what the extra data contains and its transfer over HTTP, the status
  of the chipset and of SUPL, and the Android layer below.
* The decision of the trust store: a permission check answers yes or no, or stays
  unanswered.
* A remote daemon that is up and does not answer: it stops the task thread. One that
  outlives a crash of the service: `RemoteDaemons` crashes the daemons only.
* The loss of what was written and not synced when the power fails.
* A cell that changes its type while its details are read, which then are read from
  memory of another type.
* Objects of JSON after `get` has lent a reference, as only tests do; a container put
  into itself or a handle assigned to itself, which nobody does.
* The wiring of the production daemon uses a reporter that does nothing and a dummy
  connectivity manager (`daemon.cpp` 242-253). `Harvesting` and the connectivity
  modules model the classes the repository has, which the tests wire together.
* Adding a provider while sessions run: the daemon adds all of them at start-up.

## 8. State and plan

Every component of section 1 has a model, its hazards have properties, and every
safety property of the passing runs except `ContentsAreSound` has a theorem; of that one
the parts listed under `ValuesProofs` have. Two
abstract specifications are implemented (`UpdateSwitch`, `PowerSwitch`), and the
engine and the remote daemons are composed.

Left, in this order:

1. A remote daemon that outlives a crash of the service: what runs there was started
   by Stubs that no longer exist.
2. `Updates` behind `RemoteDaemons`: the positions that a source sends while its stop
   is on the way.

Liveness stays with TLC.
