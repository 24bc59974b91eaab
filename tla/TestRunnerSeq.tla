---------------------------- MODULE TestRunnerSeq ----------------------------
(***************************************************************************)
(* DeviceTestRunner of scripts/device-testing/device_test_runner.py: the   *)
(* sequential runner.  main discovers Android devices (adb) and, on macOS, *)
(* iOS devices (ios-deploy), exits 1 when none is found, runs the seven    *)
(* scenarios (scenario outer, device inner) and writes the report.         *)
(*                                                                         *)
(* The scenarios are placeholders except ble_discovery, which compares a   *)
(* fixed peer count with --min-peers, and battery_performance, which reads *)
(* the level through adb, sleeps test_duration seconds and reads it again. *)
(* The environment drains batteries.  A device may have gone when adb     *)
(* reads its battery: adb then prints no "level:" line and                 *)
(* _parse_battery_level falls back to 100.                                 *)
(***************************************************************************)
EXTENDS Integers, Sequences, FiniteSets, Functions

CONSTANTS
  AndroidDevs,    \* devices `adb devices` lists, in its order (a sequence)
  IOSDevs,        \* devices `ios-deploy -c` lists, in its order
  OnDarwin,       \* sys.platform == "darwin"
  DurationArgs,   \* values of --duration (minutes) to try
  MinPeersArgs,   \* values of --min-peers to try
  Threshold,      \* --battery-threshold, percent per hour
  StartLevel,     \* battery level of every device at the start
  MaxDrain        \* bound on the battery a device loses during the run

ASSUME /\ OnDarwin \in BOOLEAN
       /\ DurationArgs \subseteq Int /\ MinPeersArgs \subseteq Int
       /\ StartLevel \in 0..100 /\ MaxDrain \in 0..StartLevel

Devs == Range(AndroidDevs) \cup Range(IOSDevs)
Platform(d) == IF d \in Range(AndroidDevs) THEN "android" ELSE "ios"

\* run_tests' test_scenarios, in order.
Scenarios == <<"ble_discovery", "peer_connection", "game_session",
               "background_operation", "battery_performance",
               "thermal_performance", "network_resilience">>

PeersFound == 3    \* test_ble_discovery's placeholder

VARIABLES
  phase,      \* where main is
  devices,    \* DeviceTestRunner.devices
  s, i,       \* the scenario and the device run_tests is at
  bpc,        \* test_battery_performance: "idle" or sleeping ("wait")
  initial,    \* its local initial_battery
  phys,       \* each device's real battery level (environment)
  results,    \* DeviceTestRunner.results
  minutes,    \* config.test_duration_minutes (from --duration)
  minPeers    \* config.min_peers_required (from --min-peers)

vars == <<phase, devices, s, i, bpc, initial, phys, results,
          minutes, minPeers>>
env  == <<phys>>
args == <<minutes, minPeers>>

Dev  == devices[i]
Test == Scenarios[s]

\* `adb shell dumpsys battery` then _parse_battery_level: the "level:" line,
\* or 100 when there is none (the device is gone and adb prints nothing).
Readings(d) == {phys[d], 100}

\* test_duration = min(60, self.config.test_duration_minutes * 60)
TestDuration == IF 60 < minutes * 60 THEN 60 ELSE minutes * 60

\* Fault: background_operation on iOS returns "WARN", a status the summary
\* does not count.
Verdict_typo ==
  [ble_discovery        |-> [android |-> IF PeersFound >= minPeers
                                           THEN "PASS" ELSE "FAIL",
                             ios     |-> "SKIP"],
   peer_connection      |-> [android |-> "PASS", ios |-> "PASS"],
   game_session         |-> [android |-> "PASS", ios |-> "PASS"],
   background_operation |-> [android |-> "PASS", ios |-> "WARN"],
   battery_performance  |-> [android |-> "SKIP", ios |-> "SKIP"],
   thermal_performance  |-> [android |-> "PASS", ios |-> "SKIP"],
   network_resilience   |-> [android |-> "PASS", ios |-> "PASS"]]

\* The status each scenario returns when it does not read the battery.
Verdict ==
  [ble_discovery        |-> [android |-> IF PeersFound >= minPeers
                                           THEN "PASS" ELSE "FAIL",
                             ios     |-> "SKIP"],
   peer_connection      |-> [android |-> "PASS", ios |-> "PASS"],
   game_session         |-> [android |-> "PASS", ios |-> "PASS"],
   background_operation |-> [android |-> "PASS", ios |-> "WARNING"],
   battery_performance  |-> [android |-> "SKIP", ios |-> "SKIP"],
   thermal_performance  |-> [android |-> "PASS", ios |-> "SKIP"],
   network_resilience   |-> [android |-> "PASS", ios |-> "PASS"]]

\* self.results.append(result)
Record(status) ==
  results' = Append(results, [test |-> Test, dev |-> Dev, status |-> status])

\* Fault: the device index is not reset when the next scenario starts.
Advance_noReset ==
  IF i < Len(devices) THEN i' = i + 1 /\ UNCHANGED <<s, phase>>
  ELSE IF s < Len(Scenarios) THEN s' = s + 1 /\ UNCHANGED <<i, phase>>
  ELSE phase' = "report" /\ UNCHANGED <<s, i>>

\* The two for loops of run_tests move to the next (scenario, device).
Advance ==
  IF i < Len(devices) THEN i' = i + 1 /\ UNCHANGED <<s, phase>>
  ELSE IF s < Len(Scenarios) THEN i' = 1 /\ s' = s + 1 /\ UNCHANGED phase
  ELSE phase' = "report" /\ UNCHANGED <<s, i>>

-----------------------------------------------------------------------------
(* main                                                                    *)

\* _discover_android_devices: nothing when adb is missing; otherwise each
\* listed device whose getprop queries parse (int(sdk) may raise).
DiscoverAndroid ==
  /\ phase = "discover"
  /\ \E adbFound \in BOOLEAN, ok \in SUBSET Range(AndroidDevs) :
       devices' = IF adbFound THEN SelectSeq(AndroidDevs, LAMBDA d : d \in ok)
                              ELSE <<>>
  /\ phase' = "discover_ios"
  /\ UNCHANGED <<s, i, bpc, initial, env, results, args>>

\* _discover_ios_devices, on macOS only: every listed device, or none when
\* ios-deploy is missing (_get_ios_device_info cannot fail).
DiscoverIOS ==
  /\ phase = "discover_ios"
  /\ \E found \in IF OnDarwin THEN BOOLEAN ELSE {FALSE} :
       devices' = devices \o (IF found THEN IOSDevs ELSE <<>>)
  /\ phase' = "check"
  /\ UNCHANGED <<s, i, bpc, initial, env, results, args>>

\* if not runner.devices: sys.exit(1)
CheckDevices ==
  /\ phase = "check"
  /\ phase' = IF devices = <<>> THEN "no_devices" ELSE "run"
  /\ UNCHANGED <<devices, s, i, bpc, initial, env, results, args>>

\* One scenario on one device, for every scenario but the Android battery
\* test: the result is appended and logged.
RunScenario ==
  /\ phase = "run" /\ bpc = "idle"
  /\ ~(Test = "battery_performance" /\ Platform(Dev) = "android")
  /\ Record(Verdict[Test][Platform(Dev)])
  /\ Advance
  /\ UNCHANGED <<devices, bpc, initial, env, args>>

\* test_battery_performance, up to the sleep: reset the stats, read the
\* initial level, compute test_duration; time.sleep raises ValueError on a
\* negative duration and the exception leaves run_tests and main.
BatteryBegin ==
  /\ phase = "run" /\ bpc = "idle"
  /\ Test = "battery_performance" /\ Platform(Dev) = "android"
  /\ initial' \in Readings(Dev)
  /\ IF TestDuration < 0 THEN phase' = "crashed" /\ UNCHANGED bpc
                         ELSE bpc' = "wait" /\ UNCHANGED phase
  /\ UNCHANGED <<devices, s, i, env, results, args>>

\* test_battery_performance, after the sleep: read the final level,
\* drain_per_hour = (drain / test_duration) * 3600 (ZeroDivisionError when
\* test_duration is 0), PASS when it is at most the threshold.
BatteryFinish ==
  /\ phase = "run" /\ bpc = "wait"
  /\ \E final \in Readings(Dev) :
     LET drain == initial - final
     IN IF TestDuration = 0
          THEN phase' = "crashed" /\ UNCHANGED <<bpc, results, s, i>>
          ELSE /\ Record(IF drain * 3600 <= Threshold * TestDuration
                           THEN "PASS" ELSE "FAIL")
               /\ bpc' = "idle"
               /\ Advance
  /\ UNCHANGED <<devices, initial, env, args>>

\* generate_report: the JSON and HTML reports (with _generate_summary).
GenerateReport ==
  /\ phase = "report"
  /\ phase' = "reported"
  /\ UNCHANGED <<devices, s, i, bpc, initial, env, results, args>>

-----------------------------------------------------------------------------
(* The environment.                                                        *)

BatteryDrain(d) ==
  /\ phys[d] > StartLevel - MaxDrain
  /\ phys' = [phys EXCEPT ![d] = @ - 1]
  /\ UNCHANGED <<phase, devices, s, i, bpc, initial, results, args>>

-----------------------------------------------------------------------------
Init ==
  /\ phase = "discover"
  /\ devices = <<>>
  /\ s = 1 /\ i = 1
  /\ bpc = "idle"
  /\ initial = 0
  /\ phys = [d \in Devs |-> StartLevel]
  /\ results = <<>>
  /\ minutes \in DurationArgs
  /\ minPeers \in MinPeersArgs

Program ==
  \/ DiscoverAndroid \/ DiscoverIOS \/ CheckDevices
  \/ RunScenario \/ BatteryBegin \/ BatteryFinish \/ GenerateReport

Next == Program \/ \E d \in Devs : BatteryDrain(d)

\* One thread; every subprocess call and sleep returns.  The environment
\* need not act.
Spec == Init /\ [][Next]_vars /\ WF_vars(Program)

-----------------------------------------------------------------------------
(* Properties.                                                             *)

TypeOK ==
  /\ phase \in {"discover", "discover_ios", "check", "no_devices", "run",
                "report", "reported", "crashed"}
  /\ devices \in Seq(Devs)
  /\ s \in 1..Len(Scenarios) /\ i \in Nat \ {0}
  /\ bpc \in {"idle", "wait"}
  /\ initial \in 0..100
  /\ phys \in [Devs -> 0..100]
  /\ \A j \in DOMAIN results :
       results[j].status \in {"PASS", "FAIL", "WARNING", "SKIP"}

\* The report holds every (scenario, device) pair once.
ResultsComplete ==
  /\ Len(results) = Len(Scenarios) * Len(devices)
  /\ \A t \in Range(Scenarios), d \in Range(devices) :
       Cardinality({j \in DOMAIN results : results[j].test = t
                                           /\ results[j].dev = d}) = 1

\* Spec 7 and 8: only "no device found" ends the run early; otherwise main
\* writes a report with one result for each scenario on each device.
CompletesWithAllResults ==
  <>(\/ phase = "no_devices"
     \/ phase = "reported" /\ ResultsComplete)

=============================================================================
