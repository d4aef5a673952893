------------------------------ MODULE Periphery ------------------------------
(***************************************************************************)
(* What surrounds the core of the daemon, in one specification: the way of *)
(* the updates, harvesting, the reference time, the drivers, the GPS, the  *)
(* settings and the threads of the Runtime.  None of these reads the state *)
(* of another, so a behaviour is one of a single part, and the others stay *)
(* as they begin.                                                          *)
(***************************************************************************)
EXTENDS UpdateProperties, TLC

CONSTANTS
  Reporters,
  Starts, Delays, Offsets, Second, Fraction, Range, Since1900,
  Offered, MaxCalls,
  Capabilities, Prns, Width, Trials, MaxCallbacks,
  Absent, Unreadable, MaxSets, MaxFaults,
  Workers, NoTask, MaxTasks

VARIABLE part   \* the part that moves; chosen once

VARIABLES
  hPatient, hWanted, hReporting, hRunning, hWorker, hDoing, hValue, hReport,
  hSets, hFailed, hKilled, hLate

Harvest ==
  INSTANCE Harvesting WITH
    patient <- hPatient, wanted <- hWanted, reporting <- hReporting,
    running <- hRunning, worker <- hWorker, doing <- hDoing, value <- hValue,
    report <- hReport, sets <- hSets, failed <- hFailed, killed <- hKilled,
    late <- hLate

harvestVars ==
  <<hPatient, hWanted, hReporting, hRunning, hWorker, hDoing, hValue, hReport,
    hSets, hFailed, hKilled, hLate>>

VARIABLES sStep, sWaits, sTimer, sPast, sSocket, sSample

Sntp ==
  INSTANCE SntpClient WITH
    step <- sStep, waits <- sWaits, timer <- sTimer, past <- sPast,
    socket <- sSocket, sample <- sSample

sntpVars == <<sStep, sWaits, sTimer, sPast, sSocket, sSample>>

VARIABLES
  dKind, dPatient, dUsed, dResumes, dWanted, dState, dRequested, dWorker, dCall,
  dCalls, dWifi, dKilled, dLate

Driver ==
  INSTANCE Drivers WITH
    Features <- Offered,
    kind <- dKind, patient <- dPatient, used <- dUsed, resumes <- dResumes,
    wanted <- dWanted, state <- dState, requested <- dRequested, worker <- dWorker, call <- dCall,
    calls <- dCalls, wifi <- dWifi, killed <- dKilled, late <- dLate

driverVars ==
  <<dKind, dPatient, dUsed, dResumes, dWanted, dState, dRequested, dWorker, dCall,
    dCalls, dWifi, dKilled, dLate>>

VARIABLES
  gPrompt, gCapabilities, gModes, gDriverModes, gDispatched, gPositioning, gDriver,
  gCallbacks, gInjected, gVehicles, gInfo, gTest, gTrial, gFix, gOwn

Hal ==
  INSTANCE Gps WITH
    prompt <- gPrompt, capabilities <- gCapabilities, modes <- gModes,
    driverModes <- gDriverModes, dispatched <- gDispatched,
    positioning <- gPositioning, driver <- gDriver, callbacks <- gCallbacks,
    injected <- gInjected, vehicles <- gVehicles, info <- gInfo, test <- gTest,
    trial <- gTrial, fix <- gFix, own <- gOwn

halVars ==
  <<gPrompt, gCapabilities, gModes, gDriverModes, gDispatched, gPositioning, gDriver,
    gCallbacks, gInjected, gVehicles, gInfo, gTest, gTrial, gFix, gOwn>>

VARIABLES
  pPhase, pMemory, pTree, pFile, pPending, pWriting, pSets, pFaults, pAsked,
  pUnsure, pStale

Settings ==
  INSTANCE Persistence WITH
    phase <- pPhase, memory <- pMemory, tree <- pTree, file <- pFile,
    pending <- pPending, writing <- pWriting, sets <- pSets, faults <- pFaults,
    asked <- pAsked, unsure <- pUnsure, stale <- pStale

settingsVars ==
  <<pPhase, pMemory, pTree, pFile, pPending, pWriting, pSets, pFaults, pAsked,
    pUnsure, pStale>>

VARIABLES rOwner, rStopped, rWorker, rRuns, rStrand, rHandlers, rPosted, rBegun

Pool ==
  INSTANCE RuntimePool WITH
    owner <- rOwner, stopped <- rStopped, worker <- rWorker, runs <- rRuns,
    strand <- rStrand, handlers <- rHandlers, posted <- rPosted, begun <- rBegun

poolVars == <<rOwner, rStopped, rWorker, rRuns, rStrand, rHandlers, rPosted, rBegun>>

peripheryVars ==
  <<part, vars, harvestVars, sntpVars, driverVars, halVars, settingsVars, poolVars>>

-----------------------------------------------------------------------------
ASSUME HarvestAssumption == MaxSets \in Nat

\* The times of a request are of the era of NTP that began in 1900: the seconds
\* fit into their number.
ASSUME SntpAssumption ==
  /\ Starts \subseteq Nat /\ Delays \subseteq Nat /\ Offsets \subseteq Nat
  /\ Second \in Nat \ {0} /\ Fraction \in Nat \ {0, 1}
  /\ Range \in Nat \ {0} /\ Since1900 \in Nat
  /\ \A s \in Sntp!Sample :
       /\ s.start \div Second + Since1900 < Range
       /\ Sntp!ServerSends(s) \div Second + Since1900 < Range

ASSUME DriverAssumption == MaxCalls \in Nat

ASSUME GpsAssumption ==
  Prns \subseteq Nat /\ Width \in Nat /\ Trials \in Nat \ {0} /\ MaxCallbacks \in Nat

ASSUME SettingsAssumption ==
  /\ Absent \notin {"off", "on", "active", "cut", "state", "reporting"}
  /\ Unreadable \notin [Settings!Keys -> Settings!Texts]
  /\ MaxFaults \in Nat

ASSUME PoolAssumption == MaxTasks \in Nat /\ NoTask \notin Pool!Task

-----------------------------------------------------------------------------
\* Providers of updates are told apart by being remote or not.
Symmetry == Permutations(Providers)

Parts ==
  {"updates", "harvest", "sntp", "drivers", "gps", "settings", "pool"}

\* A part that does not move begins in one of its initial states.
PeripheryInit ==
  /\ part \in Parts
  /\ Init /\ (part # "updates" => remote = {})
  /\ Harvest!Init /\ (part # "harvest" => hPatient /\ ~hReporting)
  /\ Sntp!Init
  /\ part # "sntp" => sSample = (CHOOSE s \in Sntp!Sample : TRUE)
  /\ Driver!Init
  /\ part # "drivers" => dKind = "dummy" /\ dPatient /\ dUsed = Offered
  /\ Hal!Init /\ (part # "gps" => gPrompt /\ gDispatched)
  /\ Settings!Init /\ Pool!Init

PeripheryNext ==
  \/ /\ part = "updates" /\ Next
     /\ UNCHANGED <<part, harvestVars, sntpVars, driverVars, halVars, settingsVars, poolVars>>
  \/ /\ part = "harvest" /\ Harvest!Next
     /\ UNCHANGED <<part, vars, sntpVars, driverVars, halVars, settingsVars, poolVars>>
  \/ /\ part = "sntp" /\ Sntp!Next
     /\ UNCHANGED <<part, vars, harvestVars, driverVars, halVars, settingsVars, poolVars>>
  \/ /\ part = "drivers" /\ Driver!Next
     /\ UNCHANGED <<part, vars, harvestVars, sntpVars, halVars, settingsVars, poolVars>>
  \/ /\ part = "gps" /\ Hal!Next
     /\ UNCHANGED <<part, vars, harvestVars, sntpVars, driverVars, settingsVars, poolVars>>
  \/ /\ part = "settings" /\ Settings!Next
     /\ UNCHANGED <<part, vars, harvestVars, sntpVars, driverVars, halVars, poolVars>>
  \/ /\ part = "pool" /\ Pool!Next
     /\ UNCHANGED <<part, vars, harvestVars, sntpVars, driverVars, halVars, settingsVars>>

PeripherySpec == PeripheryInit /\ [][PeripheryNext]_peripheryVars

-----------------------------------------------------------------------------
(***************************************************************************)
(* The inductive invariant: the states of a part are typed, and where a    *)
(* step of one thread has left it half-way, what the others find is what   *)
(* the last step is about to put right (harvester.cpp 38-79,               *)
(* sntp_client.cpp 99-150, skyhook/provider.cpp 69-157,                    *)
(* runtime_tests.cpp 93-157, boost_ptree_settings.cpp 28-51, runtime.cpp   *)
(* 26-109).                                                                *)
(***************************************************************************)
PeripheryInv ==
  /\ part \in Parts
  /\ part = "updates" => TypeOK
  /\ part = "harvest" => Harvest!HarvestInv
  /\ part = "sntp" => Sntp!SntpInv
  /\ part = "drivers" => Driver!DriverInv
  /\ part = "gps" => Hal!GpsInv
  /\ part = "settings" => Settings!SettingsInv
  /\ part = "pool" => Pool!PoolInv

(***************************************************************************)
(* The engine's reference keeps up with what its policy has seen, comes    *)
(* from a provider and is what the listeners were told; a session keeps up *)
(* with what its FusionProvider was offered and has what was selected      *)
(* (time_based_update_policy.cpp 39-122, fusion_provider.cpp 36-55).       *)
(***************************************************************************)
UpdatesAreSound ==
  part = "updates" =>
    /\ ReferenceLagIsBounded
    /\ ReferenceWasMeasured
    /\ ReferenceIsVerified
    /\ SessionLagIsBounded
    /\ SessionIsUpToDate

(***************************************************************************)
(* Harvesting follows the switch of the user, never assigns a thread that  *)
(* is joinable, and reports at most what was under way once it is off      *)
(* (harvester.cpp 38-79, ichnaea_reporter.cpp 223-246).                    *)
(***************************************************************************)
HarvestingIsSafe ==
  part = "harvest" =>
    /\ Harvest!HarvestFollowsSwitch
    /\ Harvest!NoJoinableIsAssigned
    /\ Harvest!AtMostOneLateReport

(***************************************************************************)
(* What the GPS works with: waits for the time server end, the sample is   *)
(* true to a second, the driver has the modes of the layer, the flags of a *)
(* vehicle are its own, and a trial has a fix of its own and loses none    *)
(* (sntp_client.cpp 99-217, android_hardware_abstraction_layer.cpp         *)
(* 235-272 and 485-510, runtime_tests.cpp 93-157).                         *)
(***************************************************************************)
GpsIsSafe ==
  /\ part = "sntp" => Sntp!WaitEnds /\ Sntp!SampleIsTrueToASecond
  /\ part = "gps" =>
       /\ Hal!DriverModesFollow
       /\ Hal!FlagsAreOwn
       /\ Hal!TrialHasOwnFix
       /\ Hal!NoFixIsLost

(***************************************************************************)
(* The workers of dummy, skyhook and geoclue run exactly while they are    *)
(* wanted, no stop is lost, no joinable thread is replaced and at most one *)
(* update comes late, for callers that wait for the effect of their calls  *)
(* (dummy/provider.cpp, skyhook/provider.cpp, geoclue/provider.cpp).       *)
(***************************************************************************)
DriversAreSafe ==
  part = "drivers" =>
    /\ Driver!RunsIffWanted
    /\ Driver!StopIsServed
    /\ Driver!NoJoinableIsReplaced
    /\ Driver!AtMostOneLateUpdate

(***************************************************************************)
(* States that were stored survive restarts of the daemon and its being    *)
(* killed, and no damage this does to the file undoes an opt-out           *)
(* (boost_ptree_settings.cpp 28-51, engine.cpp 96-116).                    *)
(***************************************************************************)
SettingsAreSafe ==
  part = "settings" => Settings!SettingsSurvive /\ Settings!OptOutHolds

(***************************************************************************)
(* The pool of threads loses none to an exception, keeps the order of the  *)
(* dispatcher and runs nothing once it is stopped (runtime.cpp 26-109).    *)
(***************************************************************************)
PoolIsSafe ==
  part = "pool" =>
    /\ Pool!PoolIsComplete
    /\ Pool!DispatchIsOrdered
    /\ Pool!NothingRunsAfterStop
=============================================================================
