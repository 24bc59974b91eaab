------------------------------- MODULE Sampler -------------------------------
(***************************************************************************)
(* DeviceMonitor of scripts/device-testing/performance_monitor.py: a       *)
(* shared `monitoring` flag, the `monitor_thread` attribute, one or more    *)
(* monitor threads running _monitor_loop, and the unbounded metrics_queue  *)
(* that get_metrics drains; then the PerformanceAnalyzer that              *)
(* performance_monitor.main hands the series to.  The caller is main.      *)
(*                                                                         *)
(* A sample is identified by its production number; collect_metrics        *)
(* either returns a sample or None (any exception).  The analyzer's       *)
(* statistics are defined on every non-empty series, so what it does with  *)
(* a device depends only on whether the series is empty.                   *)
(***************************************************************************)
EXTENDS Integers, Sequences, SequencesExt

CONSTANTS
  MaxStarts,   \* bound on start_monitoring calls (one thread each)
  MaxSamples,  \* bound on samples produced; past it every collect fails
  MaxBytes,    \* bound on the device's wlan0 receive counter
  Durations    \* the values of --duration (argparse type=int) main may get

ASSUME MaxStarts \in Nat \ {0} /\ MaxSamples \in Nat /\ MaxBytes \in Nat
       /\ Durations \subseteq Int /\ Durations # {}

Threads  == 1..MaxStarts
NoThread == 0      \* monitor_thread = None
NoSample == 0      \* collect_metrics returned None
NoStats  == -1     \* last_network_stats = None

VARIABLES
  monitoring,     \* DeviceMonitor.monitoring
  monitorThread,  \* DeviceMonitor.monitor_thread
  starts,         \* threads created so far
  tpc,            \* where each monitor thread is in _monitor_loop
  produced,       \* samples produced so far (the last sample's number)
  mqueue,         \* metrics_queue
  collected,      \* what get_metrics has returned, in order
  api,            \* the caller's view: idle, running, or inside stop_monitoring
  cpc,            \* the caller's program counter
  history,        \* PerformanceAnalyzer.metrics_history of the device
  report,         \* what the last generate_report did with the device
  wlan,           \* the device's wlan0 receive counter (environment)
  lastNet,        \* AndroidMonitor.last_network_stats (its rx half)
  rxOf,           \* network_rx_bytes of each sample, by production number
  rxTotal,        \* rx_total of the last report that listed the device
  firstRead,      \* ghost: the first counter value the monitor read
  lost            \* ghost: deltas of samples dropped after the network read

netVars == <<wlan, lastNet, rxOf, rxTotal, firstRead, lost>>
vars == <<monitoring, monitorThread, starts, tpc, produced, mqueue, collected,
          api, cpc, history, report, netVars>>

-----------------------------------------------------------------------------
(* Monitor threads: while self.monitoring: collect; if metrics: put; sleep *)

LoopCheck(t) ==
  /\ tpc[t] = "check"
  /\ tpc' = [tpc EXCEPT ![t] = IF monitoring THEN "sample" ELSE "exited"]
  /\ UNCHANGED <<netVars, monitoring, monitorThread, starts, produced, mqueue,
                 collected, api, cpc, history, report>>

\* Fault: the delta branch does not store the new reading (line 177
\* missing), so every delta is taken against the first reading.
parse_network_stats_noUpdate(last, c, present) ==
  IF ~present THEN [delta |-> 0, last |-> last]
  ELSE IF last = NoStats THEN [delta |-> 0, last |-> c]
  ELSE [delta |-> c - last, last |-> last]

\* AndroidMonitor._parse_network_stats on counter value c; present means
\* the wlan0 line was found and parsed (else it returns 0 and keeps
\* last_network_stats).  `if self.last_network_stats:` is true for any
\* tuple, (0, 0) included.  The result: the delta returned, and
\* last_network_stats after the call.
parse_network_stats(last, c, present) ==
  IF ~present THEN [delta |-> 0, last |-> last]
  ELSE IF last = NoStats THEN [delta |-> 0, last |-> c]
  ELSE [delta |-> c - last, last |-> c]

\* Where AndroidMonitor.collect_metrics raises, if it does: "before" the
\* network read (the top or meminfo subprocess), "after" it (the battery
\* or gfxinfo subprocess), or "none".  The parsers catch their own errors.
\* Past MaxSamples every collect raises.
Raises(p) ==
  IF p < MaxSamples THEN {"none", "before", "after"} ELSE {"before", "after"}

\* What collect_metrics leaves in last_network_stats, and the ghosts: the
\* first counter value read, and the delta of a sample dropped after it
\* was computed.
NetRead(fail, net) ==
  /\ lastNet' = IF fail = "before" THEN lastNet ELSE net.last
  /\ firstRead' = IF firstRead = NoStats /\ fail # "before"
                  THEN net.last ELSE firstRead
  /\ lost' = IF fail = "after" THEN lost + net.delta ELSE lost

\* Fault: the `if metrics:` guard is dropped and None is queued.
LoopSample_putNone(t) ==
  /\ tpc[t] = "sample"
  /\ \E fail \in Raises(produced), present \in BOOLEAN :
       LET net == parse_network_stats(lastNet, wlan, present) IN
       /\ NetRead(fail, net)
       /\ IF fail = "none"
            THEN /\ produced' = produced + 1
                 /\ mqueue' = Append(mqueue, produced + 1)
                 /\ rxOf' = Append(rxOf, net.delta)
            ELSE /\ mqueue' = Append(mqueue, NoSample)
                 /\ UNCHANGED <<produced, rxOf>>
  /\ tpc' = [tpc EXCEPT ![t] = "check"]
  /\ UNCHANGED <<monitoring, monitorThread, starts, collected, api, cpc,
                 history, report, wlan, rxTotal>>

\* collect_metrics, then the put when it returned a sample, then sleep(1).
LoopSample(t) ==
  /\ tpc[t] = "sample"
  /\ \E fail \in Raises(produced), present \in BOOLEAN :
       LET net == parse_network_stats(lastNet, wlan, present) IN
       /\ NetRead(fail, net)
       /\ IF fail = "none"
            THEN /\ produced' = produced + 1
                 /\ mqueue' = Append(mqueue, produced + 1)
                 /\ rxOf' = Append(rxOf, net.delta)
            ELSE UNCHANGED <<produced, mqueue, rxOf>>
  /\ tpc' = [tpc EXCEPT ![t] = "check"]
  /\ UNCHANGED <<monitoring, monitorThread, starts, collected, api, cpc,
                 history, report, wlan, rxTotal>>

\* The environment: traffic raises the wlan0 counter; an interface restart
\* sets it back to 0.
Traffic ==
  /\ wlan < MaxBytes
  /\ wlan' = wlan + 1
  /\ UNCHANGED <<monitoring, monitorThread, starts, tpc, produced, mqueue,
                 collected, api, cpc, history, report, lastNet, rxOf, rxTotal,
                 firstRead, lost>>

WlanReset ==
  /\ wlan > 0
  /\ wlan' = 0
  /\ UNCHANGED <<monitoring, monitorThread, starts, tpc, produced, mqueue,
                 collected, api, cpc, history, report, lastNet, rxOf, rxTotal,
                 firstRead, lost>>

-----------------------------------------------------------------------------
(* The public calls, made by the caller's thread; `to` is its next pc.     *)

\* start_monitoring: set the flag, create and start a new thread, and
\* overwrite monitor_thread with it.
start_monitoring(to) ==
  /\ starts < MaxStarts
  /\ monitoring' = TRUE
  /\ starts' = starts + 1
  /\ monitorThread' = starts + 1
  /\ tpc' = [tpc EXCEPT ![starts + 1] = "check"]
  /\ api' = "running"
  /\ cpc' = to
  /\ UNCHANGED <<netVars, produced, mqueue, collected, history, report>>

\* stop_monitoring, first statement: self.monitoring = False.
StopSetFlag(to) ==
  /\ monitoring' = FALSE
  /\ api' = "stopping"
  /\ cpc' = to
  /\ UNCHANGED <<netVars, monitorThread, starts, tpc, produced, mqueue, collected,
                 history, report>>

\* Fault: stop_monitoring returns without joining the thread.
StopJoin_noJoin(to) ==
  /\ api' = "idle"
  /\ cpc' = to
  /\ UNCHANGED <<netVars, monitoring, monitorThread, starts, tpc, produced, mqueue,
                 collected, history, report>>

\* stop_monitoring, then: if self.monitor_thread: join() -- it waits for
\* the thread it currently names, and only for that one.
StopJoin(to) ==
  /\ IF monitorThread = NoThread THEN TRUE ELSE tpc[monitorThread] = "exited"
  /\ api' = "idle"
  /\ cpc' = to
  /\ UNCHANGED <<netVars, monitoring, monitorThread, starts, tpc, produced, mqueue,
                 collected, history, report>>

\* get_metrics, one iteration of `while not empty(): append(get())`.
GetOne ==
  /\ mqueue # <<>>
  /\ collected' = Append(collected, Head(mqueue))
  /\ mqueue' = Tail(mqueue)
  /\ UNCHANGED <<netVars, monitoring, monitorThread, starts, tpc, produced, api, cpc,
                 history, report>>

\* Fault: get_metrics returns while the queue still holds samples.
GetDone_early(to) ==
  /\ cpc' = to
  /\ UNCHANGED <<netVars, monitoring, monitorThread, starts, tpc, produced, mqueue,
                 collected, api, history, report>>

\* get_metrics returns when it finds the queue empty.
GetDone(to) ==
  /\ mqueue = <<>>
  /\ cpc' = to
  /\ UNCHANGED <<netVars, monitoring, monitorThread, starts, tpc, produced, mqueue,
                 collected, api, history, report>>

-----------------------------------------------------------------------------
(* PerformanceAnalyzer, on the series of length n of one device.           *)

\* generate_report for the device: a device whose series is empty is
\* skipped (`if not metrics: continue`).  On a non-empty series nothing
\* raises: _analyze_metric calls stdev only `if len(values) > 1`, the
\* battery drain_rate and _analyze_graphics' drop_rate divide by
\* len(metrics), and the fps statistics are taken only `if fps_values`.
generate_report(n) == IF n = 0 THEN "skipped" ELSE "reported"

\* add_metrics: metrics_history.setdefault(device_id, []).extend(metrics).
add_metrics(to) ==
  /\ history' = history \o collected
  /\ cpc' = to
  /\ UNCHANGED <<netVars, monitoring, monitorThread, starts, tpc, produced, mqueue,
                 collected, api, report>>

\* rx_total_kb: sum(m.network_rx_bytes for m in metrics) / 1024, kept
\* in bytes.
rx_total(h) == FoldSeq(+, 0, [i \in DOMAIN h |-> rxOf[h[i]]])

\* save_report and print_summary each call generate_report; the json dump
\* and the prints change no state of the program.
GenerateReport(to) ==
  /\ report' = generate_report(Len(history))
  /\ rxTotal' = IF report' = "reported" THEN rx_total(history) ELSE rxTotal
  /\ cpc' = to
  /\ UNCHANGED <<monitoring, monitorThread, starts, tpc, produced, mqueue,
                 collected, api, history, wlan, lastNet, rxOf, firstRead, lost>>

\* time.sleep(args.duration) in main's try block: a negative duration
\* raises ValueError, and only KeyboardInterrupt is caught, so main ends
\* there -- after start_monitoring, with the monitoring flag still set.
Sleep(to) ==
  /\ \E d \in Durations : cpc' = IF d < 0 THEN "raised" ELSE to
  /\ UNCHANGED <<netVars, monitoring, monitorThread, starts, tpc, produced,
                 mqueue, collected, api, history, report>>

-----------------------------------------------------------------------------
Init ==
  /\ monitoring = FALSE
  /\ monitorThread = NoThread
  /\ starts = 0
  /\ tpc = [t \in Threads |-> "unstarted"]
  /\ produced = 0
  /\ mqueue = <<>>
  /\ collected = <<>>
  /\ api = "idle"
  /\ cpc = "start"
  /\ history = <<>>
  /\ report = "none"
  /\ wlan \in 0..MaxBytes
  /\ lastNet = NoStats
  /\ rxOf = <<>>
  /\ rxTotal = 0
  /\ firstRead = NoStats
  /\ lost = 0

Monitor(t) == LoopCheck(t) \/ LoopSample(t)

(* performance_monitor.main for one device: start_monitoring, sleep,       *)
(* stop_monitoring, get_metrics, add_metrics, save_report, print_summary.  *)
(* Monitors of different devices share nothing, and the analyzer treats   *)
(* each device's series on its own, so one device is enough.              *)
MainCaller ==
  \/ cpc = "start" /\ start_monitoring("sleep")
  \/ cpc = "sleep" /\ Sleep("stop")
  \/ cpc = "stop" /\ StopSetFlag("join")
  \/ cpc = "join" /\ StopJoin("get")
  \/ cpc = "get" /\ (GetOne \/ GetDone("add"))
  \/ cpc = "add" /\ add_metrics("save")
  \/ cpc = "save" /\ GenerateReport("summary")
  \/ cpc = "summary" /\ GenerateReport("done")

NextMain == MainCaller \/ (\E t \in Threads : Monitor(t)) \/ Traffic \/ WlanReset

\* Every thread, the caller's included, is scheduled preemptively and
\* collect_metrics' subprocess calls return, so no thread stops forever.
SpecMain ==
  Init /\ [][NextMain]_vars /\ WF_vars(MainCaller)
       /\ \A t \in Threads : WF_vars(Monitor(t))

-----------------------------------------------------------------------------
(* Properties.                                                             *)

TypeOK ==
  /\ monitoring \in BOOLEAN
  /\ monitorThread \in Threads \cup {NoThread}
  /\ starts \in 0..MaxStarts
  /\ tpc \in [Threads -> {"unstarted", "check", "sample", "exited"}]
  /\ produced \in 0..MaxSamples
  /\ mqueue \in Seq(1..MaxSamples)
  /\ collected \in Seq(1..MaxSamples)
  /\ api \in {"idle", "running", "stopping"}
  /\ history \in Seq(1..MaxSamples)
  /\ report \in {"none", "skipped", "reported"}
  /\ wlan \in 0..MaxBytes
  /\ lastNet \in {NoStats} \cup 0..MaxBytes
  /\ firstRead \in {NoStats} \cup 0..MaxBytes
  /\ rxOf \in Seq(-MaxBytes..MaxBytes)
  /\ rxTotal \in Int
  /\ lost \in Int

\* Spec 4.2: the sampler implements SamplerSpec -- in particular no sample
\* is appended after stop_monitoring has returned, and a stop returns.
Abstract == INSTANCE SamplerSpec WITH sstate <- api, count <- produced
RefinesSamplerSpec == Abstract!Spec

\* Spec 3 and 7: the report enumerates every device that took part, one
\* with zero samples included ("a defined zero/empty result").
ReportListsDevice ==
  report # "skipped"

\* Spec 4.2: get_metrics after stop delivers every sample exactly once,
\* in production order.
Delivery ==
  cpc = "done" => collected = [i \in 1..produced |-> i]

\* Spec 4.4 (network total = sum of the per-sample deltas) against the
\* counters: the rx total the report gives, plus the deltas of the samples
\* collect_metrics dropped after _parse_network_stats had already moved
\* last_network_stats on, is the change of the wlan0 counter between the
\* first and the last read.  It needs every delta taken against the read
\* before it, every sample of the monitor in the report (join, drain), and
\* no read after the report.
TrafficAccounted ==
  report = "reported" => rxTotal + lost = lastNet - firstRead

\* Once main calls stop_monitoring, it runs to its end and every monitor
\* thread leaves _monitor_loop: the thread must see the cleared flag
\* after its in-flight collect, and the join, get_metrics and the two
\* reports must not wait forever.  (main never gets there when its sleep
\* raised; the non-daemon thread then keeps the process alive.)
StopEndsAll ==
  cpc = "stop" ~> (cpc = "done" /\ \A t \in 1..starts : tpc[t] = "exited")

=============================================================================
