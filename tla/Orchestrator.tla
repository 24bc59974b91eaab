---------------------------- MODULE Orchestrator ----------------------------
(***************************************************************************)
(* The device test orchestrator of scripts/device-testing/orchestrator.py: *)
(* DeviceManager (discovery and in-place battery status refresh) and       *)
(* TestRunner.run_parallel_tests, which submits every (test, device) pair  *)
(* to a ThreadPoolExecutor of max_workers threads.  Each worker runs       *)
(* run_test_on_device: refresh status, read the battery, run the test,     *)
(* refresh again, read the battery twice more, append the result.  The     *)
(* Device objects are shared by all workers, so two executions on the same *)
(* device interleave their refreshes and reads.                            *)
(*                                                                         *)
(* Data is abstracted: a test outcome is its success flag, a status query  *)
(* either succeeds (returning the physical battery level) or fails;        *)
(* temperature and all text are left out.  ReportGenerator's two reports  *)
(* are kept as the facts a reader takes from them.                         *)
(***************************************************************************)
EXTENDS Integers, Sequences, FiniteSets, SequencesExt

CONSTANTS
  AndroidDevs,   \* adb listing order of the Android devices (a sequence)
  IOSDevs,       \* idevice_id listing order of the iOS devices (a sequence)
  TestSuite,     \* the test names of _load_test_suite, in order (a sequence)
  MaxWorkers,    \* max_workers of the ThreadPoolExecutor
  StartLevel,    \* physical battery level of every device at start
  MaxDrain       \* how many percent the batteries may lose, together, during the run

AllDevs == ToSet(AndroidDevs) \cup ToSet(IOSDevs)
Tests   == ToSet(TestSuite)
Pairs   == Tests \X AllDevs

ASSUME /\ ToSet(AndroidDevs) \cap ToSet(IOSDevs) = {}
       /\ MaxWorkers \in Nat \ {0}
       /\ StartLevel \in 0..100 /\ MaxDrain \in 0..StartLevel

\* Device.battery_level before any successful refresh (dataclass default).
Unknown == -1
Levels  == (StartLevel - MaxDrain)..StartLevel

VARIABLES
  phase,      \* the main thread: discover, check, submit, wait, report, done, exit
  devices,    \* DeviceManager.devices, in insertion order
  level,      \* Device.battery_level of each device record (shared, mutable)
  phys,       \* the physical battery of each device (environment)
  submitted,  \* how many pairs run_parallel_tests has submitted
  queue,      \* the executor's FIFO work queue
  pc,         \* where each pair's run_test_on_device is
  initial,    \* run_test_on_device's local initial_battery
  drain,      \* run_test_on_device's local battery_drain
  success,    \* the test outcome of each pair
  snapPre,    \* ghost: the record's level right after this pair's first refresh
  snapPost,   \* ghost: the record's level right after this pair's second refresh
  results,   \* TestRunner.results
  md,         \* what the markdown report says, once written
  json        \* what the JSON report says, once written

vars == <<phase, devices, level, phys, submitted, queue, pc, initial, drain,
          success, snapPre, snapPost, results, md, json>>

-----------------------------------------------------------------------------
(* The submission order of run_parallel_tests: tests outer, devices inner. *)
Jobs ==
  LET n == Len(devices)
  IN [i \in 1..(Len(TestSuite) * n) |->
        <<TestSuite[(i - 1) \div n + 1], devices[((i - 1) % n) + 1]>>]

\* Pairs a worker thread is executing (the executor's busy threads).
Running == {p \in Pairs : pc[p] \notin {"idle", "queued", "done"}}

Step(p, from, to) == pc[p] = from /\ pc' = [pc EXCEPT ![p] = to]

\* Fault: a failed query resets the record instead of keeping it.
update_device_status_reset(d) ==
  \/ level' = [level EXCEPT ![d] = phys[d]]
  \/ level' = [level EXCEPT ![d] = 0]

\* DeviceManager.update_device_status: on success the record's battery
\* level is overwritten in place; on any failure the old value stays.
update_device_status(d) ==
  \/ level' = [level EXCEPT ![d] = phys[d]]
  \/ UNCHANGED level

-----------------------------------------------------------------------------
(* Seeded faults, each a plausible slip in the code modelled below; they   *)
(* are used only to show that the properties can fail.                     *)

\* Fault: the executor is shut down without waiting for its workers.
ShutdownWait_nowait ==
  /\ phase = "wait"
  /\ phase' = "report"
  /\ UNCHANGED <<devices, level, phys, submitted, queue, pc, initial, drain,
                 success, snapPre, snapPost, results, md, json>>

\* Fault: waiting for every known pair instead of every submitted future.
ShutdownWait_allPairs ==
  /\ phase = "wait"
  /\ \A p \in Pairs : pc[p] = "done"
  /\ phase' = "report"
  /\ UNCHANGED <<devices, level, phys, submitted, queue, pc, initial, drain,
                 success, snapPre, snapPost, results, md, json>>

-----------------------------------------------------------------------------
(* The main thread.                                                        *)

\* DeviceManager(): each platform's listing command may fail as a whole,
\* and then that platform contributes no device.
DiscoverDevices ==
  /\ phase = "discover"
  /\ \E androidOk, iosOk \in BOOLEAN :
       devices' = (IF androidOk THEN AndroidDevs ELSE <<>>)
                  \o (IF iosOk THEN IOSDevs ELSE <<>>)
  /\ phase' = "check"
  /\ UNCHANGED <<level, phys, submitted, queue, pc, initial, drain, success,
                 snapPre, snapPost, results, md, json>>

\* main(): no device found is the only fatal outcome (sys.exit(1)).
CheckDevices ==
  /\ phase = "check"
  /\ phase' = IF devices = <<>> THEN "exit" ELSE "submit"
  /\ UNCHANGED <<devices, level, phys, submitted, queue, pc, initial, drain,
                 success, snapPre, snapPost, results, md, json>>

\* executor.submit(run_test_on_device, device, test) for the next pair.
Submit ==
  /\ phase = "submit"
  /\ submitted < Len(Jobs)
  /\ queue' = Append(queue, Jobs[submitted + 1])
  /\ pc' = [pc EXCEPT ![Jobs[submitted + 1]] = "queued"]
  /\ submitted' = submitted + 1
  /\ phase' = IF submitted + 1 = Len(Jobs) THEN "wait" ELSE "submit"
  /\ UNCHANGED <<devices, level, phys, initial, drain, success, snapPre,
                 snapPost, results, md, json>>

\* The future.result(timeout) loop only logs; leaving the `with` block
\* shuts the executor down and waits for every submitted task.
ShutdownWait ==
  /\ phase = "wait"
  /\ \A i \in 1..Len(Jobs) : pc[Jobs[i]] = "done"
  /\ phase' = "report"
  /\ UNCHANGED <<devices, level, phys, submitted, queue, pc, initial, drain,
                 success, snapPre, snapPost, results, md, json>>

\* Not yet written.
NoReport == [total |-> -1]

\* The results of device d, in list order.
DeviceResults(res, d) == SelectSeq(res, LAMBDA r : r.device_id = d)

generate_markdown_report(res, devs) ==
  [total  |-> Len(res),
   detail |-> [d \in ToSet(devs) |->
                 {<<r.test_name, r.success>> : r \in Range(DeviceResults(res, d))}]]

\* generate_json_report: metadata.total_tests and the results list.
generate_json_report(res) == [total |-> Len(res), results |-> res]

\* save_reports, first file: the markdown report of test_runner.results.
WriteMarkdown ==
  /\ phase = "report"
  /\ md' = generate_markdown_report(results, devices)
  /\ phase' = "json"
  /\ UNCHANGED <<devices, level, phys, submitted, queue, pc, initial, drain,
                 success, snapPre, snapPost, results, json>>

\* save_reports, second file: the JSON report, built from the list again.
WriteJson ==
  /\ phase = "json"
  /\ json' = generate_json_report(results)
  /\ phase' = "summary"
  /\ UNCHANGED <<devices, level, phys, submitted, queue, pc, initial, drain,
                 success, snapPre, snapPost, results, md>>

\* main's summary log divides passed_tests by total_tests.
LogSummary ==
  /\ phase = "summary"
  /\ phase' = IF Len(results) = 0 THEN "crashed" ELSE "done"
  /\ UNCHANGED <<devices, level, phys, submitted, queue, pc, initial, drain,
                 success, snapPre, snapPost, results, md, json>>

-----------------------------------------------------------------------------
(* The executor's worker threads.                                          *)

\* An idle worker (fewer than max_workers busy) takes the oldest work item.
Dispatch ==
  /\ queue # <<>>
  /\ Cardinality(Running) < MaxWorkers
  /\ Step(Head(queue), "queued", "pre_status")
  /\ queue' = Tail(queue)
  /\ UNCHANGED <<phase, devices, level, phys, submitted, initial, drain,
                 success, snapPre, snapPost, results, md, json>>

\* self.device_manager.update_device_status(device.id) before the test.
PreStatusUpdate(p) ==
  /\ Step(p, "pre_status", "read_initial")
  /\ update_device_status(p[2])
  /\ snapPre' = [snapPre EXCEPT ![p] = level'[p[2]]]
  /\ UNCHANGED <<phase, devices, phys, submitted, queue, initial, drain,
                 success, snapPost, results, md, json>>

\* initial_battery = device.battery_level
ReadInitialBattery(p) ==
  /\ Step(p, "read_initial", "run")
  /\ initial' = [initial EXCEPT ![p] = level[p[2]]]
  /\ UNCHANGED <<phase, devices, level, phys, submitted, queue, drain,
                 success, snapPre, snapPost, results, md, json>>

\* _run_android_test / _run_ios_test: pass, fail, timeout or error; every
\* exception is caught and turned into success = False.
RunPlatformTest(p) ==
  /\ Step(p, "run", "post_status")
  /\ \E ok \in BOOLEAN : success' = [success EXCEPT ![p] = ok]
  /\ UNCHANGED <<phase, devices, level, phys, submitted, queue, initial,
                 drain, snapPre, snapPost, results, md, json>>

\* update_device_status(device.id) after the test.
PostStatusUpdate(p) ==
  /\ Step(p, "post_status", "read_drain")
  /\ update_device_status(p[2])
  /\ snapPost' = [snapPost EXCEPT ![p] = level'[p[2]]]
  /\ UNCHANGED <<phase, devices, phys, submitted, queue, initial, drain,
                 success, snapPre, results, md, json>>

\* battery_drain = initial_battery - device.battery_level
ComputeBatteryDrain(p) ==
  /\ Step(p, "read_drain", "append")
  /\ drain' = [drain EXCEPT ![p] = initial[p] - level[p[2]]]
  /\ UNCHANGED <<phase, devices, level, phys, submitted, queue, initial,
                 success, snapPre, snapPost, results, md, json>>

\* metrics['final_battery'] = device.battery_level re-reads the record;
\* the TestResult is appended to the shared list, and run_test_on_device
\* returns: its locals are gone.
AppendResult(p) ==
  /\ Step(p, "append", "done")
  /\ results' = Append(results,
                   [device_id |-> p[2], test_name |-> p[1],
                    success |-> success[p], battery_drain |-> drain[p],
                    final_battery |-> level[p[2]]])
  /\ initial' = [initial EXCEPT ![p] = Unknown]
  /\ drain' = [drain EXCEPT ![p] = 0]
  /\ success' = [success EXCEPT ![p] = FALSE]
  /\ snapPre' = [snapPre EXCEPT ![p] = Unknown]
  /\ snapPost' = [snapPost EXCEPT ![p] = Unknown]
  /\ UNCHANGED <<phase, devices, level, phys, submitted, queue, md, json>>

-----------------------------------------------------------------------------
(* The environment: a device's battery discharges while a test runs on it. *)
Drained == SumFunction([d \in AllDevs |-> StartLevel - phys[d]])

BatteryDrain(d) ==
  /\ \E p \in Running : p[2] = d
  /\ Drained < MaxDrain
  /\ phys' = [phys EXCEPT ![d] = @ - 1]
  /\ UNCHANGED <<phase, devices, level, submitted, queue, pc, initial, drain,
                 success, snapPre, snapPost, results, md, json>>

-----------------------------------------------------------------------------
Init ==
  /\ phase = "discover"
  /\ devices = <<>>
  /\ level = [d \in AllDevs |-> Unknown]
  /\ phys = [d \in AllDevs |-> StartLevel]
  /\ submitted = 0
  /\ queue = <<>>
  /\ pc = [p \in Pairs |-> "idle"]
  /\ initial = [p \in Pairs |-> Unknown]
  /\ drain = [p \in Pairs |-> 0]
  /\ success = [p \in Pairs |-> FALSE]
  /\ snapPre = [p \in Pairs |-> Unknown]
  /\ snapPost = [p \in Pairs |-> Unknown]
  /\ results = <<>>
  /\ md = NoReport
  /\ json = NoReport

Worker(p) ==
  \/ PreStatusUpdate(p)
  \/ ReadInitialBattery(p)
  \/ RunPlatformTest(p)
  \/ PostStatusUpdate(p)
  \/ ComputeBatteryDrain(p)
  \/ AppendResult(p)

MainThread ==
  DiscoverDevices \/ CheckDevices \/ Submit \/ ShutdownWait \/ WriteMarkdown
  \/ WriteJson \/ LogSummary

Next ==
  \/ MainThread
  \/ Dispatch
  \/ \E p \in Pairs : Worker(p)
  \/ \E d \in AllDevs : BatteryDrain(d)

\* Python threads are scheduled preemptively and every subprocess call in
\* a worker carries a timeout, so no thread stops forever.  The battery
\* need not drain, so the environment gets no fairness.
Fairness ==
  /\ WF_vars(MainThread)
  /\ WF_vars(Dispatch)
  /\ \A p \in Pairs : WF_vars(Worker(p))

Spec == Init /\ [][Next]_vars /\ Fairness

-----------------------------------------------------------------------------
(* Properties.                                                             *)

Result == [device_id : AllDevs, test_name : Tests, success : BOOLEAN,
           battery_drain : Int, final_battery : Levels \cup {Unknown}]

TypeOK ==
  /\ phase \in {"discover", "check", "submit", "wait", "report", "json",
                "summary", "done", "crashed", "exit"}
  /\ devices \in Seq(AllDevs)
  /\ level \in [AllDevs -> Levels \cup {Unknown}]
  /\ phys \in [AllDevs -> Levels]
  /\ submitted \in 0..Cardinality(Pairs)
  /\ queue \in Seq(Pairs)
  /\ pc \in [Pairs -> {"idle", "queued", "pre_status", "read_initial", "run",
                       "post_status", "read_drain", "append", "done"}]
  /\ initial \in [Pairs -> Levels \cup {Unknown}]
  /\ success \in [Pairs -> BOOLEAN]
  /\ results \in Seq(Result)

ResultKey(r) == <<r.test_name, r.device_id>>

\* Spec 8: for N devices and M tests exactly N*M results, one per pair.
\* No pair ever has two results, and once run_parallel_tests has returned
\* (the executor's shutdown waited for its workers) every submitted pair
\* has one.
ResultsExactlyOnce ==
  /\ \A i, j \in DOMAIN results :
        i # j => ResultKey(results[i]) # ResultKey(results[j])
  /\ phase \in {"report", "json", "summary", "done"} =>
        {ResultKey(results[i]) : i \in DOMAIN results} = Range(Jobs)

\* Spec 8: an execution's battery_drain is its own pre-test reading minus
\* its own post-test reading, and final_battery is that post-test reading,
\* whatever other executions do.  run_test_on_device reads the shared
\* Device record three times after the refreshes that wrote it; the
\* TestResult is built, at the append, from drain and a fourth read.
DrainIsolation ==
  \A p \in Pairs :
    pc[p] = "append" =>
      /\ drain[p] = snapPre[p] - snapPost[p]
      /\ level[p[2]] = snapPost[p]

\* Spec 3: battery levels are in 0..100, and battery_drain is merged from
\* status snapshots.  A result is never built from Device.battery_level's
\* default -1, which survives a failed first refresh.
BatteryReadingsKnown ==
  \A p \in Pairs :
    pc[p] = "append" => initial[p] \in 0..100 /\ level[p[2]] \in 0..100

Termination == <>(phase \in {"done", "exit"})

=============================================================================
