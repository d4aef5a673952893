-------------------------------- MODULE Gps --------------------------------
(***************************************************************************)
(* The hardware abstraction layer of the GPS provider                      *)
(* (android_hardware_abstraction_layer.cpp): what the driver calls back,   *)
(* one call after the other on its thread, and what is passed on to it;    *)
(* and the test that measures the time to the first fix                    *)
(* (runtime_tests.cpp).  The driver itself is external.                    *)
(***************************************************************************)
EXTENDS Naturals

CONSTANTS
  Capabilities,   \* bits the chipset may announce
  Prns,           \* numbers of space vehicles
  Width,          \* 32: the masks have a bit for so many vehicles
  Trials,         \* unsigned int trials
  MaxCallbacks    \* bound: how often the driver calls back

VARIABLES
  prompt,       \* does the driver keep silent once it is stopped? chosen once
  capabilities, \* impl.capabilities
  modes,        \* impl.assistance_mode and impl.position_mode
  driverModes,  \* what the driver has been told
  dispatched,   \* what the last call of the driver for a mode returned
  positioning,  \* is the driver started?
  driver,       \* what the thread of the driver is doing
  callbacks,    \* how often it has called
  injected,     \* has a time been injected since it was last asked for?
  vehicles,     \* the set that space_vehicle_updates is called with
  info,         \* the status it was made of, with one mask for the three
  test,         \* how far the test is
  trial,        \* the trials it has begun
  fix,          \* State::fix_received
  own           \* has the driver reported a position in this trial? (history)

halVars == <<capabilities, modes, driverModes, dispatched>>
driverVars == <<driver, callbacks, injected, vehicles, info>>
testVars == <<test, trial, fix, own>>
vars == <<prompt, halVars, positioning, driverVars, testVars>>

AssistanceModes == {"standalone", "mobile_station_based", "mobile_station_assisted"}
PositionModes == {"periodic", "single_shot"}
Modes == [assistance : AssistanceModes, position : PositionModes]
Test ==
  {"mode", "aiding", "reset", "start", "check", "block", "wait", "stop", "passed", "thrown"}
Driver == {"idle", "position", "notify", "vehicles", "time", "xtra"}
Vehicle == [prn : Prns, flag : BOOLEAN, azimuth : {"turn", "height"}, elevation : {"turn", "height"}]
Info ==
  [prns : SUBSET Prns, mask : SUBSET (0 .. Width - 1), azimuth : {"turn"}, elevation : {"height"}]
NoInfo == [prns |-> {}, mask |-> {}, azimuth |-> "turn", elevation |-> "height"]

TypeOK ==
  /\ prompt \in BOOLEAN /\ dispatched \in BOOLEAN /\ positioning \in BOOLEAN
  /\ injected \in BOOLEAN /\ fix \in BOOLEAN /\ own \in BOOLEAN
  /\ capabilities \subseteq Capabilities
  /\ modes \in Modes /\ driverModes \in Modes
  /\ driver \in Driver /\ callbacks \in 0 .. MaxCallbacks
  /\ vehicles \subseteq Vehicle /\ info \in Info
  /\ test \in Test /\ trial \in 0 .. Trials

\* Impl::Impl tells the driver the modes it has chosen, which may refuse.
Init ==
  /\ prompt \in BOOLEAN
  /\ capabilities = {}
  /\ modes = [assistance |-> "mobile_station_based", position |-> "periodic"]
  /\ \/ driverModes = modes /\ dispatched = TRUE
     \/ /\ driverModes = [assistance |-> "standalone", position |-> "periodic"]
        /\ dispatched = FALSE
  /\ positioning = FALSE
  /\ driver = "idle" /\ callbacks = 0 /\ injected = FALSE
  /\ vehicles = {} /\ info = NoInfo
  /\ test = "mode" /\ trial = 0 /\ fix = FALSE /\ own = FALSE

-----------------------------------------------------------------------------
(* Modes. *)

AssistanceCapability ==
  [standalone |-> {}, mobile_station_based |-> {"msb"},
   mobile_station_assisted |-> {"msa"}]
PositionCapability == [periodic |-> {"scheduling"}, single_shot |-> {"single_shot"}]

\* is_capable_of
IsCapableOf(needed) == needed \subseteq capabilities

\* Mutant: the driver is told before the new mode is stored.
Dispatched_Early(new) == modes

\* dispatch_updated_modes_to_driver sends both modes as they are stored.
Dispatched(new) == new

\* A mode the chipset can do is stored, and both modes are sent to the driver,
\* which may refuse.
SetMode(new) ==
  /\ modes' = new
  /\ \/ driverModes' = Dispatched(new) /\ dispatched' = TRUE
     \/ UNCHANGED driverModes /\ dispatched' = FALSE
  /\ UNCHANGED capabilities

SetAssistanceMode(m) ==
  IF IsCapableOf(AssistanceCapability[m])
    THEN SetMode([modes EXCEPT !.assistance = m])
    ELSE UNCHANGED halVars

\* Another user of the layer sets a mode.
SetPositionMode(m) ==
  /\ IsCapableOf(PositionCapability[m])
  /\ SetMode([modes EXCEPT !.position = m])
  /\ UNCHANGED <<prompt, positioning, driverVars, testVars>>

-----------------------------------------------------------------------------
(* The driver calls back. *)

Callback(next) ==
  /\ driver = "idle" /\ callbacks < MaxCallbacks
  /\ callbacks' = callbacks + 1
  /\ driver' = next

OnSetCapabilities(c) ==
  /\ Callback("idle")
  /\ capabilities' = c
  /\ UNCHANGED <<prompt, modes, driverModes, dispatched, positioning, injected,
                 vehicles, info, testVars>>

\* on_location_update with a position; its signal calls the test.
OnLocationUpdate ==
  /\ Callback("position")
  /\ positioning \/ (~prompt /\ trial > 0)
  /\ UNCHANGED <<prompt, halVars, positioning, injected, vehicles, info, testVars>>

\* State::on_position_updated: the flag is set without the lock, ...
FixReceived ==
  /\ driver = "position"
  /\ driver' = "notify"
  /\ fix' = TRUE
  /\ own' = (own \/ (positioning /\ test \in {"check", "block", "wait"}))
  /\ UNCHANGED <<prompt, halVars, positioning, callbacks, injected, vehicles,
                 info, test, trial>>

\* ... then who waits by now is notified; one that has looked at the flag and
\* not yet begun to wait is not.
NotifyAll ==
  /\ driver = "notify"
  /\ driver' = "idle"
  /\ test' = IF test = "wait" THEN "check" ELSE test
  /\ UNCHANGED <<prompt, halVars, positioning, callbacks, injected, vehicles,
                 info, trial, fix, own>>

\* Mutant: the numbers are used as they are.
Bit_Prn(prn) == prn

\* "PRN is in the range of [1, 32]": the shift of a greater one is undefined.
Bit(prn) == prn - 1

Flag(prn, mask) == IF Bit(prn) < Width THEN {Bit(prn) \in mask} ELSE BOOLEAN

\* on_sv_status_update: a number below 1 is skipped, and each of the angles is
\* stored as the other.
OnSvStatusUpdate(i) ==
  /\ Callback("vehicles")
  /\ info' = i
  /\ \E flag \in [i.prns \ {0} -> BOOLEAN] :
       /\ \A n \in i.prns \ {0} : flag[n] \in Flag(n, i.mask)
       /\ vehicles' = {[prn |-> n, flag |-> flag[n], azimuth |-> i.elevation, elevation |-> i.azimuth] :
                       n \in i.prns \ {0}}
  /\ UNCHANGED <<prompt, halVars, positioning, injected, testVars>>

\* space_vehicle_updates()(svs)
VehiclesShown ==
  /\ driver = "vehicles"
  /\ driver' = "idle" /\ vehicles' = {} /\ info' = NoInfo
  /\ UNCHANGED <<prompt, halVars, positioning, callbacks, injected, testVars>>

\* on_request_utc_time and on_xtra_download_request keep the thread of the
\* driver until the servers have answered or time is up.
OnRequest(what) ==
  /\ Callback(what)
  /\ injected' = IF what = "time" THEN FALSE ELSE injected
  /\ UNCHANGED <<prompt, halVars, positioning, vehicles, info, testVars>>

\* inject_reference_time and inject_xtra_data, if there is something: sample()
\* throws when time is up, and so does the downloader.
Answer ==
  /\ driver \in {"time", "xtra"}
  /\ driver' = "idle"
  /\ \E answered \in BOOLEAN :
       injected' = IF driver = "time"
                     THEN answered /\ IsCapableOf({"on_demand_time"}) ELSE injected
  /\ UNCHANGED <<prompt, halVars, positioning, callbacks, vehicles, info, testVars>>

-----------------------------------------------------------------------------
(* snr_and_ttff *)

Go(from, to) == test = from /\ test' = to

SetStandalone ==
  /\ Go("mode", "aiding")
  /\ SetAssistanceMode("standalone")
  /\ UNCHANGED <<prompt, positioning, driverVars, trial, fix, own>>

\* delete_all_aiding_data()
DeleteAidingData ==
  /\ Go("aiding", "reset")
  /\ trial' = trial + 1
  /\ UNCHANGED <<prompt, halVars, positioning, driverVars, fix, own>>

\* Mutant: the flag keeps the fix of the last trial.
AfterReset_Kept == fix

AfterReset == FALSE

Reset ==
  /\ Go("reset", "start")
  /\ fix' = AfterReset /\ own' = FALSE
  /\ UNCHANGED <<prompt, halVars, positioning, driverVars, trial>>

StartPositioning ==
  /\ Go("start", "check")
  /\ positioning' = TRUE
  /\ UNCHANGED <<prompt, halVars, driverVars, trial, fix, own>>

\* wait_for: the predicate is looked at, ...
CheckFix ==
  /\ Go("check", IF fix THEN "stop" ELSE "block")
  /\ UNCHANGED <<prompt, halVars, positioning, driverVars, trial, fix, own>>

\* ... then the thread waits.
Block ==
  /\ Go("block", "wait")
  /\ UNCHANGED <<prompt, halVars, positioning, driverVars, trial, fix, own>>

\* Mutant: when time is up nobody looks at the flag again.
AfterTimeout_Blind == "thrown"

\* wait_for returns the predicate; expect() throws if it is false.
AfterTimeout == IF fix THEN "stop" ELSE "thrown"

WaitTimesOut ==
  /\ Go("wait", AfterTimeout)
  /\ UNCHANGED <<prompt, halVars, positioning, driverVars, trial, fix, own>>

\* stop_positioning(); a prompt driver returns when its thread is through.
StopPositioning ==
  /\ Go("stop", IF trial = Trials THEN "passed" ELSE "aiding")
  /\ prompt => driver \notin {"position", "notify"}
  /\ positioning' = FALSE
  /\ UNCHANGED <<prompt, halVars, driverVars, trial, fix, own>>

-----------------------------------------------------------------------------
Next ==
  \/ \E m \in PositionModes : SetPositionMode(m)
  \/ \E c \in SUBSET Capabilities : OnSetCapabilities(c)
  \/ OnLocationUpdate \/ FixReceived \/ NotifyAll \/ VehiclesShown
  \/ \E i \in Info : OnSvStatusUpdate(i)
  \/ \E what \in {"time", "xtra"} : OnRequest(what)
  \/ Answer
  \/ SetStandalone \/ DeleteAidingData \/ Reset \/ StartPositioning
  \/ CheckFix \/ Block \/ WaitTimesOut \/ StopPositioning

-----------------------------------------------------------------------------
(***************************************************************************)
(* The driver has the modes of the layer unless its last call refused      *)
(* them: a mode that was refused goes with the next one that is set        *)
(* (android_hardware_abstraction_layer.cpp 481-512 and 594-624).           *)
(***************************************************************************)
DriverModesFollow == dispatched => driverModes = modes

(***************************************************************************)
(* The flags of a vehicle are those of its own bits, for every number the  *)
(* masks can hold, the last one included.                                  *)
(***************************************************************************)
FlagsAreOwn ==
  \A n \in info.prns :
    n \in 1 .. Width =>
      \E v \in vehicles : v.prn = n /\ v.flag = ((n - 1) \in info.mask)

(***************************************************************************)
(* If the driver keeps silent when it is stopped, a trial that ends has    *)
(* waited for a position of its own, although the flag is set without the  *)
(* lock and the notification may miss the waiting thread.                  *)
(***************************************************************************)
TrialHasOwnFix == prompt /\ test = "stop" => own

(***************************************************************************)
(* The test gives up only if no position has come in the trial: one whose  *)
(* notification was missed is found when time is up.                       *)
(***************************************************************************)
NoFixIsLost == test = "thrown" => ~own

-----------------------------------------------------------------------------
(* Why this holds: the inductive invariant. *)

\* A driver that is prompt reports a position only while a trial waits for it.
PromptInStep ==
  /\ driver \in {"position", "notify"} => positioning
  /\ positioning => test \in {"check", "block", "wait", "stop", "thrown"}
  /\ test \in {"start", "check", "block", "wait"} => (fix => own)

\* There is a trial to come.
TrialsInv == test \in {"mode", "aiding"} => trial < Trials

GpsInv ==
  /\ TypeOK
  /\ TrialsInv
  /\ DriverModesFollow
  /\ FlagsAreOwn
  /\ prompt => PromptInStep
  /\ TrialHasOwnFix
  /\ own => fix
  /\ NoFixIsLost
=============================================================================
