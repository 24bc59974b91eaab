---------------------------- MODULE BatteryTracker ----------------------------
(***************************************************************************)
(* BatteryTracker and BatteryTestSuite of                                  *)
(* scripts/device-testing/battery_tracker.py.  The main thread opens and   *)
(* ends test phases (start_phase / end_phase); monitor threads running     *)
(* _monitor_loop append battery snapshots to self.current_phase, which     *)
(* they read twice: in the `if` and again in the append.  The start/stop   *)
(* logic is the same as DeviceMonitor's (see Sampler).                     *)
(*                                                                         *)
(* Two callers: BatteryTestSuite.run_complete_test, and the module's main, *)
(* which rebinds run_baseline_test to a lambda before calling it.  Both    *)
(* run the same first step, so the model chooses at the point they differ. *)
(* A phase is its index in PhaseNames; a snapshot is its level and power, *)
(* the two fields the phase's battery_drain and average_power read, and   *)
(* a phase's snapshot list is kept as what those two properties read:     *)
(* its length, its first and last level, and whether any power was > 0.  *)
(***************************************************************************)
EXTENDS Integers, Sequences, FiniteSets, Functions

CONSTANTS
  PhaseNames,  \* the phases run_complete_test runs, in order (a sequence)
  MaxStarts,   \* bound on monitor threads (run_complete_test starts two)
  MaxSnaps,    \* bound on snapshots; past it get_battery_snapshot fails
               \* (threads already past the check may add one each)
  Callers,     \* which programs drive the tracker: "run_complete_test"
               \* called directly, and/or the module's "main"
  SnapLevels   \* the battery levels a snapshot may report

ASSUME /\ Len(PhaseNames) >= 1 /\ MaxStarts \in Nat \ {0} /\ MaxSnaps \in Nat
       /\ Callers \subseteq {"run_complete_test", "main"} /\ Callers # {}
       /\ SnapLevels \subseteq 0..100

Phases   == 1..Len(PhaseNames)
NoPhase  == 0      \* current_phase = None
NoThread == 0      \* monitor_thread = None

\* AndroidBatteryTracker.get_battery_snapshot: the level dumpsys reports,
\* and power = voltage * current / 1000, where current is 0 when
\* current_now cannot be read; power is 0 or positive (abs()).  Any other
\* exception returns None.
Snapshots  == [level : SnapLevels, power : {0, 1}]
NoSnapshot == [level |-> -1, power |-> -1]

\* A phase's snapshot list: len, snapshots[0].level, snapshots[-1].level,
\* and whether some power is positive.
SnapList  == [n : Nat, first : SnapLevels \cup {-1}, last : SnapLevels \cup {-1},
              powered : BOOLEAN]
EmptyList == [n |-> 0, first |-> -1, last |-> -1, powered |-> FALSE]

\* phase.snapshots.append(snap)
AppendSnap(l, snap) ==
  [n |-> l.n + 1, first |-> IF l.n = 0 THEN snap.level ELSE l.first,
   last |-> snap.level, powered |-> l.powered \/ snap.power > 0]

VARIABLES
  monitoring,     \* BatteryTracker.monitoring
  monitorThread,  \* BatteryTracker.monitor_thread
  starts,         \* monitor threads created so far
  tpc,            \* where each monitor thread is in _monitor_loop
  current,        \* BatteryTracker.current_phase
  ended,          \* phases end_phase has given an end_time and put in phases
  snapshots,      \* phase.snapshots of each phase, as SnapList
  taken,          \* the snapshot each thread holds between its `if` and append
  mpc,            \* the main thread's program counter
  k,              \* the phase run_complete_test is at
  api,            \* start/stop state of the tracker as its caller sees it
  seen            \* the phase each thread's `if` last read

vars == <<monitoring, monitorThread, starts, tpc, current, ended, snapshots,
          taken, mpc, k, api, seen>>

Threads == 1..MaxStarts

Appended == SumFunction([p \in Phases |-> snapshots[p].n])

-----------------------------------------------------------------------------
(* Monitor threads.                                                        *)

\* while self.monitoring:
LoopCheck(t) ==
  /\ tpc[t] = "check"
  /\ tpc' = [tpc EXCEPT ![t] = IF monitoring THEN "snap" ELSE "exited"]
  /\ UNCHANGED <<monitoring, monitorThread, starts, current, ended, snapshots, taken,
                 mpc, k, api, seen>>

\* snapshot = self.get_battery_snapshot(); if snapshot and self.current_phase:
LoopSnapshot(t) ==
  /\ tpc[t] = "snap"
  /\ \E snap \in IF Appended < MaxSnaps THEN Snapshots \cup {NoSnapshot}
                                        ELSE {NoSnapshot} :
       /\ IF snap # NoSnapshot /\ current # NoPhase
            THEN tpc' = [tpc EXCEPT ![t] = "append"] /\ taken' = [taken EXCEPT ![t] = snap]
            ELSE tpc' = [tpc EXCEPT ![t] = "check"] /\ UNCHANGED taken
  /\ seen' = [seen EXCEPT ![t] = current]
  /\ UNCHANGED <<monitoring, monitorThread, starts, current, ended, snapshots,
                 mpc, k, api>>

\* Fault: the append does not re-read current_phase -- it adds to the phase
\* the `if` saw (phase = self.current_phase; ... phase.snapshots.append).
LoopAppend_stale(t) ==
  /\ tpc[t] = "append"
  /\ snapshots' = [snapshots EXCEPT ![seen[t]] = AppendSnap(@, taken[t])]
  /\ tpc' = [tpc EXCEPT ![t] = "check"]
  /\ taken' = [taken EXCEPT ![t] = NoSnapshot]
  /\ UNCHANGED <<monitoring, monitorThread, starts, current, ended,
                 mpc, k, api, seen>>

\* self.current_phase.snapshots.append(snapshot): current_phase is read
\* again; if end_phase has set it to None meanwhile, the AttributeError
\* ends the thread.
LoopAppend(t) ==
  /\ tpc[t] = "append"
  /\ IF current = NoPhase
       THEN /\ tpc' = [tpc EXCEPT ![t] = "crashed"]
            /\ UNCHANGED snapshots
       ELSE /\ snapshots' = [snapshots EXCEPT ![current] = AppendSnap(@, taken[t])]
            /\ tpc' = [tpc EXCEPT ![t] = "check"]
  /\ taken' = [taken EXCEPT ![t] = NoSnapshot]
  /\ UNCHANGED <<monitoring, monitorThread, starts, current, ended,
                 mpc, k, api, seen>>

-----------------------------------------------------------------------------
(* The main thread.                                                        *)

\* start_monitoring: flag on, a new thread, monitor_thread overwritten.
start_monitoring(to) ==
  /\ mpc' = to
  /\ starts < MaxStarts
  /\ monitoring' = TRUE
  /\ starts' = starts + 1
  /\ monitorThread' = starts + 1
  /\ tpc' = [tpc EXCEPT ![starts + 1] = "check"]
  /\ api' = "running"
  /\ UNCHANGED <<current, ended, snapshots, taken, k, seen>>

\* start_phase(name): end an open phase, then open a new one.
start_phase(to) ==
  /\ mpc' = to
  /\ ended' = IF current # NoPhase THEN ended \cup {current} ELSE ended
  /\ current' = k
  /\ UNCHANGED <<monitoring, monitorThread, starts, tpc, snapshots, taken, k, api, seen>>

\* end_phase, first part: end_time = now; self.phases.append(...); the
\* summary prints follow.
EndPhaseRecord(to) ==
  /\ mpc' = to
  /\ ended' = IF current # NoPhase THEN ended \cup {current} ELSE ended
  /\ UNCHANGED <<monitoring, monitorThread, starts, tpc, current, snapshots, taken, k,
                 api, seen>>

\* end_phase, last statement: self.current_phase = None.
EndPhaseClear(to) ==
  /\ mpc' = to
  /\ current' = NoPhase
  /\ UNCHANGED <<monitoring, monitorThread, starts, tpc, ended, snapshots, taken, k,
                 api, seen>>

\* Fault: stop_monitoring leaves the flag set.
StopSetFlag_noFlag(to) ==
  /\ mpc' = to
  /\ api' = "stopping"
  /\ UNCHANGED <<monitoring, monitorThread, starts, tpc, current, ended, snapshots, taken,
                 k, seen>>

\* stop_monitoring, first statement: self.monitoring = False.
StopSetFlag(to) ==
  /\ mpc' = to
  /\ monitoring' = FALSE
  /\ api' = "stopping"
  /\ UNCHANGED <<monitorThread, starts, tpc, current, ended, snapshots, taken, k, seen>>

\* stop_monitoring: join the thread monitor_thread names (join returns once
\* it has ended, normally or by an exception); then end a phase left open.
StopJoin(to) ==
  /\ mpc' = to
  /\ IF monitorThread = NoThread THEN TRUE
                                 ELSE tpc[monitorThread] \in {"exited", "crashed"}
  /\ api' = "idle"
  /\ ended' = IF current # NoPhase THEN ended \cup {current} ELSE ended
  /\ current' = NoPhase
  /\ UNCHANGED <<monitoring, monitorThread, starts, tpc, snapshots, taken, k, seen>>

\* Fault: the rest between tests also runs after the last test.
Rest_offByOne ==
  /\ mpc = "rest"
  /\ k' = k + 1
  /\ mpc' = IF k <= Len(PhaseNames) THEN "phase" ELSE "stop"
  /\ UNCHANGED <<monitoring, monitorThread, starts, tpc, current, ended,
                 snapshots, taken, api, seen>>

\* time.sleep(10) between two tests of run_complete_test, then the next
\* test; after the last one, stop_monitoring.
Rest ==
  /\ mpc = "rest"
  /\ IF k < Len(PhaseNames) THEN k' = k + 1 /\ mpc' = "phase"
                            ELSE UNCHANGED k /\ mpc' = "stop"
  /\ UNCHANGED <<monitoring, monitorThread, starts, tpc, current, ended,
                 snapshots, taken, api, seen>>

\* main rebinds run_baseline_test to `lambda: test_suite.run_baseline_test(
\* test_duration)`; run_complete_test calls it with 60, and the TypeError
\* ends the main thread with the monitor thread still running.
RaiseTypeError ==
  /\ mpc = "phase"
  /\ mpc' = "raised"
  /\ UNCHANGED <<monitoring, monitorThread, starts, tpc, current, ended,
                 snapshots, taken, k, api, seen>>

\* BatteryTestPhase.battery_drain: first minus last level, 0 with fewer
\* than two snapshots.
battery_drain(l) == IF l.n >= 2 THEN l.first - l.last ELSE 0

\* BatteryTestPhase.average_power = sum of the powers / len, 0 with no
\* snapshot: as the powers are >= 0, it is 0 exactly when none is > 0.
average_power_zero(l) == ~l.powered

\* BatteryTestSuite.generate_report, after stop_monitoring: for each phase
\* of self.phases but the baseline it divides by the baseline's
\* average_power and then by its battery_drain; either being 0 raises
\* ZeroDivisionError out of run_complete_test.  (The drain rate divides by
\* the phase's duration, which is never 0: each phase sleeps.)
GenerateReport(to) ==
  /\ LET divides(b) == \E p \in ended : p # b
         zero(b)    == average_power_zero(snapshots[b]) \/ battery_drain(snapshots[b]) = 0
     IN  mpc' = IF \E b \in ended : PhaseNames[b] = "baseline" /\ divides(b) /\ zero(b)
                THEN "failed" ELSE to
  /\ UNCHANGED <<monitoring, monitorThread, starts, tpc, current, ended,
                 snapshots, taken, k, api, seen>>

-----------------------------------------------------------------------------
Init ==
  /\ monitoring = FALSE
  /\ monitorThread = NoThread
  /\ starts = 0
  /\ tpc = [t \in Threads |-> "unstarted"]
  /\ current = NoPhase
  /\ ended = {}
  /\ snapshots = [p \in Phases |-> EmptyList]
  /\ taken = [t \in Threads |-> NoSnapshot]
  /\ mpc = "start"
  /\ k = 1
  /\ api = "idle"
  /\ seen = [t \in Threads |-> NoPhase]

(* run_complete_test: start_monitoring; then each test: start_phase, the   *)
(* test's sleep and broadcasts (no tracker state), end_phase; the baseline *)
(* test calls start_monitoring once more first.  Then stop_monitoring and  *)
(* generate_report.                                                        *)
MainThread ==
  \/ mpc = "start" /\ start_monitoring("phase")
  \/ mpc = "phase" /\ "main" \in Callers /\ RaiseTypeError
  \/ /\ mpc = "phase" /\ "run_complete_test" \in Callers
     /\ IF k = 1 THEN start_monitoring("open") ELSE start_phase("record")
  \/ mpc = "open" /\ start_phase("record")
  \/ mpc = "record" /\ EndPhaseRecord("clear")
  \/ mpc = "clear" /\ EndPhaseClear("rest")
  \/ Rest
  \/ mpc = "stop" /\ StopSetFlag("join")
  \/ mpc = "join" /\ StopJoin("report")
  \/ mpc = "report" /\ GenerateReport("done")

Monitor(t) == LoopCheck(t) \/ LoopSnapshot(t) \/ LoopAppend(t)

Next == MainThread \/ \E t \in Threads : Monitor(t)

\* Threads are scheduled preemptively and every subprocess call returns, so
\* no thread that can step stops forever.
Spec == Init /\ [][Next]_vars /\ WF_vars(MainThread)
             /\ \A t \in Threads : WF_vars(Monitor(t))

-----------------------------------------------------------------------------
(* Properties.                                                             *)

TypeOK ==
  /\ monitoring \in BOOLEAN
  /\ monitorThread \in Threads \cup {NoThread}
  /\ starts \in 0..MaxStarts
  /\ tpc \in [Threads -> {"unstarted", "check", "snap", "append", "exited",
                          "crashed"}]
  /\ current \in Phases \cup {NoPhase}
  /\ ended \subseteq Phases
  /\ snapshots \in [Phases -> SnapList]
  /\ taken \in [Threads -> Snapshots \cup {NoSnapshot}]
  /\ k \in Phases
  /\ api \in {"idle", "running", "stopping"}
  /\ seen \in [Threads -> Phases \cup {NoPhase}]

\* Spec 4.2, for the tracker driven by run_complete_test: snapshots are
\* added only between start_monitoring and the return of stop_monitoring,
\* and stop_monitoring returns -- although the baseline test starts a
\* second monitor thread that stop_monitoring never joins.
Abstract == INSTANCE SamplerSpec WITH sstate <- api, count <- Appended
RefinesSamplerSpec == Abstract!Spec

ThreadsEnded == \A t \in 1..starts : tpc[t] \in {"exited", "crashed"}

\* Once run_complete_test calls stop_monitoring, it returns, the report
\* is made or fails, and every monitor thread ends -- the unjoined first
\* thread included, which must see the cleared flag on its own.
StopEndsAll ==
  mpc = "stop" ~> (mpc \in {"done", "failed"} /\ ThreadsEnded)

\* The program ends: the main thread has finished or raised, and every
\* monitor thread (non-daemon, so the interpreter waits for it) has left
\* _monitor_loop.
Termination ==
  <>(mpc \in {"done", "raised", "failed"} /\ ThreadsEnded)

\* Every snapshot the monitor loop has decided to append (lines 107-108)
\* lands in an open phase: one that is current and that end_phase has not
\* yet recorded.  Broken if end_phase sets current_phase to None between
\* the check and the append (the AttributeError of line 108 kills the
\* thread, against spec 4.2's "a failed sample does not end the loop"),
\* or if the append falls between end_phase's phases.append (82) and its
\* reset (87), adding a snapshot after the phase's end_time.
AppendsToOpenPhase ==
  [][\A t \in Threads :
       (tpc[t] = "append" /\ tpc'[t] # "append") => current \in Phases \ ended]_vars

=============================================================================
