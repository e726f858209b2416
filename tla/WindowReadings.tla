---------------------------- MODULE WindowReadings ----------------------------
(***************************************************************************)
(* The figures of one row: what NVML, the cgroup of the container and perf *)
(* show during a control window and the window after it                    *)
(* (monitors/energy_nvml.py, resource_usage.py, resource_readers.py,       *)
(* resource_metrics.py, perf_mips.py), and what _execute_window of         *)
(* host/client.py and host/client_metrics.py make of it.  Readings fail    *)
(* one by one and counters may go back.  One counter stands for all those  *)
(* of the cgroup that only grow, one gauge for memory and swap; power is   *)
(* constant within a tick.  EnergyCounters has the RAPL readings, of which *)
(* only the result appears here.                                           *)
(***************************************************************************)
EXTENDS Integers, Sequences, TLC
LOCAL INSTANCE SequencesExt
LOCAL INSTANCE FiniteSetsExt

CONSTANTS
    Watts,          \* what the GPU may draw
    Held,           \* what the container may hold in memory
    Pmus,           \* the performance units of the processor
    MaxRequests,    \* repeat_in_window
    MaxIdle,        \* bound: ticks of the window without a request
    MaxLost,        \* bound: readings that fail
    MaxBack,        \* bound: counters that go back
    Unread

PmuEvents == {"instructions", "cycles"}
Readers == {"watt", "mj", "cpu", "memory", "events", "io", "vcpu"}

VARIABLES
    setting,        \* "gpu" or "cpu" in full mode, or "basic" without a GPU
    round, step,    \* the window, and what its monitors do next
    tick, watt, held,   \* the time, and what is drawn and held now
    joule, job,     \* energy and work since the beginning
    joule0, io0,    \* where the energy counter and io.stat start again
    gpuFrom, watts, \* _energy_start_mj and the power samples
    cgroupFrom, usage,  \* the snapshots at the start and the samples
    replied, charged,  \* requests replied, and the work done for them
    readings,       \* the results that stop() has returned
    idleWatt,       \* the baseline of the control window, in half watts
    metricsRow, lost, back, waited  \* waited: ticks without a request

readingVars == <<setting, round, step, tick, watt, held, joule, job, joule0, io0, gpuFrom, watts,
                 cgroupFrom, usage, replied, charged, readings, idleWatt, metricsRow, lost, back, waited>>
hostVars == <<tick, watt, held, joule, job, joule0, io0, back, waited>>
NoReading == [gpu |-> Unread, cgroup |-> Unread, perf |-> Unread, vcpu |-> Unread]

ReadingInit ==
    /\ setting \in {"gpu", "cpu", "basic"}
    /\ round = (IF setting = "basic" THEN "window" ELSE "control") /\ step = "start gpu"
    /\ tick = 0 /\ watt = Min(Watts) /\ held = Min(Held) /\ joule = 0 /\ job = 0
    /\ joule0 = 0 /\ io0 = 0 /\ back = 0 /\ waited = 0
    /\ gpuFrom = Unread /\ watts = <<>> /\ cgroupFrom = Unread /\ usage = <<>>
    /\ replied = 0 /\ charged = 0 /\ readings = NoReading /\ idleWatt = Unread
    /\ metricsRow = Unread /\ lost = 0
-----------------------------------------------------------------------------
(* Readings                                                                *)

\* Which of the readings rs fail now; what fails is not a number.
Failing(rs, f) == f \subseteq rs /\ lost + Cardinality(f) <= MaxLost /\ lost' = lost + Cardinality(f)
Read(r, f, value) == IF r \in f THEN Unread ELSE value

\* GPUEnergyMonitor._append_sample drops what cannot be read, the cgroup sample
\* keeps the rest of it.
WithWatt(f, at, w) == IF "watt" \in f THEN watts ELSE Append(watts, [at |-> at, watt |-> w])
WithUsage(f, at, j, m) ==
    Append(usage, [at |-> at, cpu |-> Read("cpu", f, j), memory |-> Read("memory", f, m)])

\* _read_window_counter_snapshots, _io_reader; "truth" is what no counter shows.
Snapshot(f) == [at |-> tick, events |-> Read("events", f, job), io |-> Read("io", f, job - io0),
                truth |-> job]
EnergyReading(f) == [at |-> tick, mj |-> Read("mj", f, joule - joule0), truth |-> joule]

Gpu == setting = "gpu"
GpuOn == Gpu /\ step \notin {"start gpu", "row", "done"}
CgroupOn == round = "window" /\ step \in {"start perf", "run", "stop perf", "stop cgroup"}

\* A tick: the sampling threads look at what it ends with.
TickOf(work) ==
    /\ tick' = tick + 1 /\ joule' = joule + 2 * watt /\ job' = job + work
    /\ watt' \in (IF Gpu THEN Watts ELSE {watt}) /\ held' \in Held
    /\ \E f \in SUBSET ((IF GpuOn THEN {"watt"} ELSE {}) \cup (IF CgroupOn THEN {"cpu", "memory"} ELSE {})) :
          /\ Failing(Readers, f)
          /\ watts' = IF GpuOn THEN WithWatt(f, tick', watt') ELSE watts
          /\ usage' = IF CgroupOn THEN WithUsage(f, tick', job', held') ELSE usage
    /\ UNCHANGED <<setting, round, joule0, io0, back, gpuFrom, cgroupFrom, readings, idleWatt, metricsRow>>
-----------------------------------------------------------------------------
(* Starting                                                                *)

\* GPUEnergyMonitor.start: the counter is not read at the end of a window at
\* whose start it could not be read.
StartGpuMeter ==
    /\ step = "start gpu"
    /\ \E f \in SUBSET (IF Gpu THEN {"mj", "watt"} ELSE {}) :
          /\ Failing(Readers, f)
          /\ gpuFrom' = EnergyReading(f)
          /\ watts' = IF "watt" \in f THEN <<>> ELSE <<[at |-> tick, watt |-> watt]>>
    /\ step' = "start cgroup"
    /\ UNCHANGED <<setting, round, hostVars, cgroupFrom, usage, replied, charged, readings, idleWatt, metricsRow>>

\* ResourceUsageMonitor.start
StartUsage ==
    /\ step = "start cgroup"
    /\ \E f \in SUBSET {"events", "io", "cpu", "memory"} :
          /\ Failing(Readers, f)
          /\ cgroupFrom' = Snapshot(f)
          /\ usage' = <<[at |-> tick, cpu |-> Read("cpu", f, job), memory |-> Read("memory", f, held)]>>
    /\ step' = "start perf"
    /\ UNCHANGED <<setting, round, hostVars, gpuFrom, watts, replied, charged, readings, idleWatt, metricsRow>>

StartPerf ==
    /\ step = "start perf" /\ step' = "run"
    /\ UNCHANGED <<setting, round, hostVars, gpuFrom, watts, cgroupFrom, usage, replied, charged,
                   readings, idleWatt, metricsRow, lost>>
-----------------------------------------------------------------------------
(* The window                                                              *)

\* run_matched_control_window: the same collectors, no request.
Rest ==
    /\ round = "control" /\ step = "run"
    /\ TickOf(0) /\ step' = "stop perf" /\ UNCHANGED <<replied, charged, waited>>

\* One request.  Any exception ends the window.
AskOnce ==
    /\ round = "window" /\ step = "run" /\ replied < MaxRequests
    /\ \E work \in 1..2 :
          /\ TickOf(work) /\ charged' = charged + work /\ UNCHANGED waited
          /\ \/ replied' = replied + 1 /\ step' = step
             \/ step' = "stop perf" /\ UNCHANGED replied
LoopEnds ==
    /\ round = "window" /\ step = "run" /\ replied = MaxRequests
    /\ step' = "stop perf"
    /\ UNCHANGED <<setting, round, hostVars, gpuFrom, watts, cgroupFrom, usage, replied, charged,
                   readings, idleWatt, metricsRow, lost>>

\* Time passes between the other operations of a window, too.
Wait ==
    /\ round = "window" /\ step \notin {"start gpu", "run", "row", "done"}
    /\ waited < MaxIdle /\ waited' = waited + 1
    /\ TickOf(1)
    /\ UNCHANGED <<step, replied, charged>>

\* The driver is loaded again, a device leaves io.stat.
CounterGoesBack ==
    /\ round = "window" /\ step = "run" /\ back < MaxBack /\ back' = back + 1
    /\ \/ joule0' = joule /\ UNCHANGED io0
       \/ io0' = job /\ UNCHANGED joule0
    /\ UNCHANGED <<setting, round, step, tick, watt, held, joule, job, waited, gpuFrom, watts, cgroupFrom,
                   usage, replied, charged, readings, idleWatt, metricsRow, lost>>
-----------------------------------------------------------------------------
(* Stopping                                                                *)

PmuValue(event, p) == IF event = "instructions" THEN 4 ELSE 2
\* parse_perf_stat_output over the lines of perf: a unit may be missing, or have
\* not counted.
Scopes(lines, e) == {p \in Pmus : lines[<<e, p>>] # "absent"}
Invalid(lines, e) == \E p \in Pmus : lines[<<e, p>>] = "failed"
CountedBy(lines, e) == {p \in Pmus : lines[<<e, p>>] = "ok"}
PmuTotal(lines, e) ==
    LET V(p) == PmuValue(e, p) IN
    IF CountedBy(lines, e) = {} THEN Unread ELSE MapThenSumSet(V, CountedBy(lines, e))

\* Mutant: what was counted is divided by what was counted.
Ipc_Partial(lines) ==
    IF Unread \in {PmuTotal(lines, e) : e \in PmuEvents} THEN Unread
    ELSE <<PmuTotal(lines, "instructions"), PmuTotal(lines, "cycles")>>
Ipc(lines) ==
    IF (\E e \in PmuEvents : PmuTotal(lines, e) = Unread \/ Invalid(lines, e))
       \/ Scopes(lines, "cycles") # Scopes(lines, "instructions")
    THEN Unread ELSE <<PmuTotal(lines, "instructions"), PmuTotal(lines, "cycles")>>

\* Every unit that shows up has counted every event.
Whole(lines) == \A p \in Pmus : \/ \A e \in PmuEvents : lines[<<e, p>>] = "ok"
                               \/ \A e \in PmuEvents : lines[<<e, p>>] = "absent"

\* PerfMIPSMonitor.stop: without instructions there is no row at all.
StopPerf ==
    /\ step = "stop perf"
    /\ IF setting = "basic"
       THEN step' = "stop cgroup" /\ UNCHANGED <<readings, lost>>
       ELSE \E lines \in [PmuEvents \X Pmus -> {"ok", "failed", "absent"}] :
               LET missing == {l \in DOMAIN lines : lines[l] # "ok"} IN
               /\ lost + Cardinality(missing) <= MaxLost /\ lost' = lost + Cardinality(missing)
               /\ readings' = [readings EXCEPT !.perf = [whole |-> Whole(lines), ipc |-> Ipc(lines)]]
               /\ step' = IF PmuTotal(lines, "instructions") = Unread THEN "done" ELSE "stop cgroup"
    /\ UNCHANGED <<setting, round, hostVars, gpuFrom, watts, cgroupFrom, usage, replied, charged,
                   idleWatt, metricsRow>>

\* _counter_delta, and the difference of io.stat.
CounterDelta(from, to) == IF Unread \in {from, to} \/ to < from THEN Unread ELSE to - from
BytesDelta(from, to) == IF Unread \in {from, to} THEN Unread ELSE Max({0, to - from})

\* _result_from_samples: work over the time between readings that show it.
CpuUse(s) ==
    LET known == SelectSeq(s, LAMBDA u : u.cpu # Unread)
        Good == {i \in 1..(Len(known) - 1) : known[i + 1].at > known[i].at}
        Work(i) == known[i + 1].cpu - known[i].cpu
        Time(i) == known[i + 1].at - known[i].at
    IN IF Good = {} THEN Unread ELSE <<MapThenSumSet(Work, Good), MapThenSumSet(Time, Good)>>
MemoryUse(s) ==
    LET known == SelectSeq(s, LAMBDA u : u.memory # Unread)
        Value(i) == known[i].memory
    IN IF known = <<>> THEN Unread
       ELSE [sum |-> MapThenSumSet(Value, 1..Len(known)), count |-> Len(known),
             peak |-> Max({Value(i) : i \in 1..Len(known)})]

\* _apply_window_counter_metrics, and the bytes of io.stat.
WindowCounters(from, to) ==
    [events |-> CounterDelta(from.events, to.events), bytes |-> BytesDelta(from.io, to.io),
     truth |-> to.truth - from.truth]

\* ResourceUsageMonitor.stop
StopUsage ==
    /\ step = "stop cgroup"
    /\ \E f \in SUBSET {"events", "io", "cpu", "memory"} :
          LET all == WithUsage(f, tick, job, held) IN
          /\ Failing(Readers, f)
          /\ readings' = [readings EXCEPT !.cgroup =
                WindowCounters(cgroupFrom, Snapshot(f)) @@ [cpu |-> CpuUse(all), memory |-> MemoryUse(all)]]
    /\ step' = "stop gpu" /\ usage' = <<>> /\ cgroupFrom' = Unread
    /\ UNCHANGED <<setting, round, hostVars, gpuFrom, watts, replied, charged, idleWatt, metricsRow>>

\* _result_from_samples of energy_nvml, in half joules.
Integral(s) == LET Area(i) == (s[i].watt + s[i + 1].watt) * (s[i + 1].at - s[i].at)
               IN MapThenSumSet(Area, 1..(Len(s) - 1))
Span(s) == IF Len(s) < 2 THEN 0 ELSE s[Len(s)].at - s[1].at

\* GPUEnergyMonitor.stop: the counter if it has not gone back, else the samples.
GpuEnergy(from, to, s) ==
    IF Unread \notin {from.mj, to.mj} /\ to.mj >= from.mj /\ to.at > from.at
    THEN [source |-> "counter", energy |-> to.mj - from.mj, time |-> to.at - from.at]
    ELSE IF Span(s) > 0 THEN [source |-> "samples", energy |-> Integral(s), time |-> Span(s)]
    ELSE [source |-> "unavailable", energy |-> Unread, time |-> to.at - from.at]

StopGpuMeter ==
    /\ step = "stop gpu"
    /\ \E f \in SUBSET (IF Gpu THEN {"mj", "watt"} ELSE {}), v \in {Unread, -1, 2} :
          LET to == EnergyReading(f)
              all == WithWatt(f, tick, watt)
              e == GpuEnergy(gpuFrom, to, all)
              lostNow == f \cup (IF v = Unread /\ setting # "basic" THEN {"vcpu"} ELSE {})
          IN /\ Failing(Readers, lostNow)
             /\ setting = "basic" => v = Unread
             /\ round = "control" => v # Unread /\ v = 2
             /\ readings' = [readings EXCEPT !.vcpu = v,
                   !.gpu = IF Gpu THEN [figure |-> e, truth |-> to.truth - gpuFrom.truth] ELSE Unread]
             \* apply_control_baseline: avg_power_total_w of the control window
             /\ IF round = "control"
                THEN /\ idleWatt' = IF Gpu /\ e.energy # Unread THEN e.energy \div e.time ELSE Unread
                     /\ round' = "window" /\ step' = "start gpu"
                ELSE step' = "row" /\ UNCHANGED <<round, idleWatt>>
    /\ gpuFrom' = Unread /\ watts' = <<>>
    /\ UNCHANGED <<setting, hostVars, cgroupFrom, usage, replied, charged, metricsRow>>
-----------------------------------------------------------------------------
(* The row                                                                 *)

NoMetrics == [events |-> Unread, bytes |-> Unread, cpu |-> Unread, memory |-> Unread,
              energy |-> Unread, source |-> "unavailable",
              effective |-> Unread, ipc |-> Unread, attributed |-> Unread, status |-> "error"]

\* energy_eff_j: what exceeds the baseline, if there is one.
EffectiveEnergy(e) == IF Unread \in {e.energy, idleWatt} THEN Unread ELSE e.energy - idleWatt * e.time

\* Mutant: what is missing counts as nothing.
Attributed_Lenient(parts) ==
    LET V(p) == p[2] IN MapThenSumSet(V, {p \in parts : p[2] # Unread})
\* _derived_efficiency_metrics: every device must have a figure, none negative.
Attributed(parts) ==
    LET V(p) == p[2] IN
    IF \E p \in parts : p[2] = Unread \/ (p[2] # Unread /\ p[2] < 0) THEN Unread ELSE MapThenSumSet(V, parts)

\* The figures of the row, of which the code divides those of energy and events by
\* the requests.
Figures(e, eff, parts) ==
    [events |-> readings.cgroup.events, bytes |-> readings.cgroup.bytes, cpu |-> readings.cgroup.cpu,
     memory |-> readings.cgroup.memory, energy |-> e.energy, source |-> e.source, effective |-> eff,
     ipc |-> IF setting = "basic" THEN Unread ELSE readings.perf.ipc,
     attributed |-> Attributed(parts),
     status |-> IF \E p \in parts : p[2] # Unread /\ p[2] < 0 THEN "warn" ELSE "ok"]

\* The rest of _execute_window: a window that broke off leaves no figure, and in
\* basic mode processor and memory are required.
Assemble ==
    /\ step = "row"
    /\ LET e == IF Gpu THEN readings.gpu.figure ELSE [source |-> "unavailable", energy |-> Unread, time |-> 0]
           eff == EffectiveEnergy(e)
           parts == {<<"vcpu", readings.vcpu>>} \cup (IF Gpu THEN {<<"gpu", eff>>} ELSE {})
           incomplete == setting = "basic"
                         /\ (lost > 0 \/ Unread \in {readings.cgroup.cpu, readings.cgroup.memory})
       IN metricsRow' = IF replied < MaxRequests \/ incomplete THEN NoMetrics ELSE Figures(e, eff, parts)
    /\ step' = "done"
    /\ UNCHANGED <<setting, round, hostVars, gpuFrom, watts, cgroupFrom, usage, replied, charged,
                   readings, idleWatt, lost>>

ReadingNext ==
    \/ StartGpuMeter \/ StartUsage \/ StartPerf
    \/ Rest \/ AskOnce \/ LoopEnds \/ Wait \/ CounterGoesBack
    \/ StopPerf \/ StopUsage \/ StopGpuMeter \/ Assemble

ReadingSpec == ReadingInit /\ [][ReadingNext]_readingVars
-----------------------------------------------------------------------------
HasRow == metricsRow # Unread

\* A figure of the cgroup is the work between the two snapshots, which are around
\* all requests; what the samples give lies within what was there.
UsageIsTrue ==
    HasRow =>
        /\ metricsRow.events # Unread => metricsRow.events = readings.cgroup.truth /\ metricsRow.events >= charged
        /\ metricsRow.cpu # Unread => LET u == metricsRow.cpu IN
              u[1] <= readings.cgroup.truth /\ u[1] <= 2 * u[2]
        /\ metricsRow.memory # Unread => LET m == metricsRow.memory IN
              m.peak \in Held /\ m.sum <= m.count * m.peak /\ m.sum >= m.count * Min(Held)

\* Energy of the counter is exactly what was drawn in the window, unless the counter
\* began again in it; integrated power lies between the least and the most that was
\* drawn, over no more than the window; and the effective energy exceeds a baseline
\* that was measured.
GpuEnergyIsTrue ==
    HasRow /\ metricsRow.energy # Unread =>
        LET g == readings.gpu IN
        /\ metricsRow.source = "counter" => /\ metricsRow.energy <= g.truth
                                            /\ back = 0 => metricsRow.energy = g.truth
        /\ metricsRow.source = "samples" =>
              metricsRow.energy \in (2 * Min(Watts) * g.figure.time)..(2 * Max(Watts) * g.figure.time)
        /\ metricsRow.effective # Unread => idleWatt # Unread /\ idleWatt \in (2 * Min(Watts))..(2 * Max(Watts))

\* Rates are taken over the same performance units, sums over all devices of the row.
RatesAreWhole ==
    HasRow =>
        /\ metricsRow.ipc # Unread => readings.perf.whole
        /\ metricsRow.attributed # Unread =>
              metricsRow.status = "ok" /\ readings.vcpu # Unread /\ (Gpu => metricsRow.effective # Unread)

\* Usage, energy and rates of a row are true of its window, whichever readings failed;
\* I/O after a counter went back and the energy of a GPU counter that began again are
\* only bounded.
FiguresAreTrue == UsageIsTrue /\ GpuEnergyIsTrue /\ RatesAreWhole
=============================================================================
