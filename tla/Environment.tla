---------------------------- MODULE Environment -----------------------------
(***************************************************************************)
(* What is read from outside: the time since the system booted             *)
(* (time_since_boot.cpp, cached_wireless_network.cpp 58-89), the           *)
(* configuration of the GPS (android_hardware_abstraction_layer.cpp 56-71, *)
(* 616-698) and the texts in which states are kept and set.                *)
(***************************************************************************)
EXTENDS Integers, SequencesExt

-----------------------------------------------------------------------------
(* Clocks.  In an environment e the system booted at e.booted, has been up *)
(* for e.up, and its wall clock has been set forward by e.set since the    *)
(* boot time was first asked for, at e.first after booting.                *)

Failed == -1    \* an exception; times are natural numbers

WallClock(e) == e.booted + e.up + e.set

\* Mutant: the first line that has a value is taken.
BootTime_First(lines, otherwise) == IF lines = <<>> THEN otherwise ELSE Head(lines).value

\* boot_time: the line "btime" of /proc/stat, which both callers keep.
BootTime(lines, otherwise) ==
  LET found == {i \in DOMAIN lines : lines[i].name = "btime"}
  IN IF found = {} THEN otherwise ELSE lines[Min(found)].value

\* from_proc_stat
FromProcStat(e) ==
  LET booted == BootTime(e.stat, Failed)
  IN IF booted = Failed THEN Failed ELSE WallClock(e) - booted

\* Mutant: the wall clock is asked before the clock of the kernel.
TimeSinceBoot_WallFirst(e) ==
  IF e.alarm = "works" THEN e.up
  ELSE IF FromProcStat(e) # Failed THEN FromProcStat(e)
  ELSE IF e.boottime = "works" THEN e.up ELSE Failed

\* time_since_boot: the alarm of the hardware if the build has it, the clock
\* of the kernel, the wall clock.
TimeSinceBoot(e) ==
  IF e.alarm = "works" \/ e.boottime = "works" THEN e.up ELSE FromProcStat(e)

\* translate_time_stamp: NetworkManager tells seconds since boot.
LastSeen(e, stamp) == BootTime(e.stat, e.booted + e.first) + stamp

(***************************************************************************)
(* The time since the system booted is right, and the time at which an     *)
(* access point was seen, whichever sources fail, as long as the kernel    *)
(* tells when it booted and the wall clock, if nothing else is left, was   *)
(* not set; a time of an access point is never too early                   *)
(* (time_since_boot.cpp 73-140, cached_wireless_network.cpp 58-89).        *)
(***************************************************************************)
TimesAreKept(e, stamp) ==
  LET told == \E i \in DOMAIN e.stat : e.stat[i].name = "btime"
      left == e.alarm = "works" \/ e.boottime = "works"
      since == TimeSinceBoot(e)
  IN /\ left \/ (told /\ e.set = 0) => since = e.up
     /\ since = Failed <=> ~left /\ ~told
     /\ LastSeen(e, stamp) - (e.booted + stamp) = IF told THEN 0 ELSE e.first

-----------------------------------------------------------------------------
(* gps.conf.  A file is Missing, or it has settings and may be broken      *)
(* after them, with more settings behind, and may end in a newline.        *)

Missing == [missing |-> TRUE]
NoSettings == <<>>

\* What read_ini finds in a stream that is read for the first time; it
\* throws at a broken line, and a stream that did not open is empty.
FirstRead(file) ==
  IF file = Missing THEN [throws |-> FALSE, settings |-> NoSettings]
                    ELSE [throws |-> file.broken, settings |-> file.settings]

\* The second time nothing is left, but what is behind a broken line.
SecondRead(file) ==
  [throws |-> FALSE,
   settings |-> IF file # Missing /\ file.broken THEN file.rest ELSE NoSettings]

\* A stream that was read to its end has failed, unless the last line had no
\* newline.
HasFailed(file) == file = Missing \/ (~file.broken /\ file.newline)

XtraKeys == <<"XTRA_SERVER_1", "XTRA_SERVER_2", "XTRA_SERVER_3">>
DefaultHosts == <<"xtra1", "xtra2", "xtra3">>

\* GpsXtraDownloader::Configuration::from_gps_conf_ini_file
HostsIn(settings) ==
  LET keys == SelectSeq(XtraKeys, LAMBDA k : k \in DOMAIN settings)
  IN [i \in DOMAIN keys |-> settings[keys[i]]]

XtraHosts(read) == IF read.throws THEN DefaultHosts ELSE HostsIn(read.settings)

\* SntpReferenceTimeSource::Configuration::from_gps_conf_ini_file
DefaultServer == "pool"
ServerIn(settings) ==
  IF "NTP_SERVER" \in DOMAIN settings THEN settings["NTP_SERVER"] ELSE DefaultServer

NtpServer(read) == IF read.throws THEN DefaultServer ELSE ServerIn(read.settings)

\* Mutant: the file that everyone has is preferred.
DefaultConfiguration_Vanilla(system, etc) ==
  [xtra |-> XtraHosts(FirstRead(IF etc # Missing THEN etc ELSE system)),
   ntp |-> NtpServer(FirstRead(system))]

\* create_default_instance: each of the two chooses between the streams of
\* both files, the time server after the hosts were read.
DefaultConfiguration(system, etc) ==
  [xtra |-> XtraHosts(FirstRead(IF system # Missing THEN system ELSE etc)),
   ntp |-> NtpServer(CASE ~HasFailed(system) -> SecondRead(system)
                       [] system = Missing -> SecondRead(etc)
                       [] OTHER -> FirstRead(etc))]

-----------------------------------------------------------------------------
(* Texts of states: what operator<< writes for a value, and the value that *)
(* operator>> makes of a text.                                             *)

Refused == "refused"   \* an exception

EngineTexts ==
  [off |-> "Engine::Status::off", on |-> "Engine::Status::on",
   active |-> "Engine::Status::active"]
\* Mutant: a state that is only passed through is not read.
EngineStates_NotActive ==
  <<<<"Engine::Status::off", "off">>, <<"Engine::Status::on", "on">>>>
EngineStates ==
  <<<<"Engine::Status::off", "off">>, <<"Engine::Status::on", "on">>,
    <<"Engine::Status::active", "active">>>>

ReportingTexts ==
  [off |-> "WifiAndCellIdReportingState::off", on |-> "WifiAndCellIdReportingState::on"]
ReportingStates ==
  <<<<"WifiAndCellIdReportingState::off", "off">>, <<"WifiAndCellIdReportingState::on", "on">>>>

SatelliteTexts ==
  [off |-> "SatelliteBasedPositioningState::off", on |-> "SatelliteBasedPositioningState::on"]
SatelliteStates ==
  <<<<"SatelliteBasedPositioningState::off", "off">>,
    <<"SatelliteBasedPositioningState::on", "on">>>>

ServiceTexts == [disabled |-> "disabled", enabled |-> "enabled", active |-> "active"]
ServiceStates == <<<<"disabled", "disabled">>, <<"enabled", "enabled">>, <<"active", "active">>>>

PropertyTexts ==
  [state |-> "state", is_online |-> "is_online",
   does_satellite_based_positioning |-> "does_satellite_based_positioning",
   does_report_wifi_and_cell_ids |-> "does_report_wifi_and_cell_ids",
   visible_space_vehicles |-> "visible_space_vehicles", unknown |-> "unknown"]
PropertyNames ==
  <<<<"state", "state">>, <<"is_online", "is_online">>,
    <<"does_satellite_based_positioning", "does_satellite_based_positioning">>,
    <<"does_report_wifi_and_cell_ids", "does_report_wifi_and_cell_ids">>,
    <<"visible_space_vehicles", "visible_space_vehicles">>>>

\* A text that is in no table is refused.
Parsed(table, text) ==
  LET found == SelectSeq(table, LAMBDA e : e[1] = text)
  IN IF found = <<>> THEN Refused ELSE Head(found)[2]

Tables ==
  {[texts |-> EngineTexts, states |-> EngineStates],
   [texts |-> ReportingTexts, states |-> ReportingStates],
   [texts |-> SatelliteTexts, states |-> SatelliteStates],
   [texts |-> ServiceTexts, states |-> ServiceStates],
   [texts |-> PropertyTexts, states |-> PropertyNames]}
=============================================================================
