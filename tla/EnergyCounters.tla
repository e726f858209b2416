---------------------------- MODULE EnergyCounters ----------------------------
(***************************************************************************)
(* The numbers of acprof/monitors/energy_cpu.py over one window: RAPL      *)
(* counters that wrap, read by a sampling thread and by the main thread,   *)
(* reduced to a package total, an effective energy and a DRAM result.      *)
(* MonitorWindow has the life cycle of the thread; here is what it reads.  *)
(* Time is the number of timestamps taken: perf_counter never repeats one. *)
(***************************************************************************)
EXTENDS Integers, Sequences
LOCAL INSTANCE SequencesExt
LOCAL INSTANCE FiniteSets
LOCAL INSTANCE FiniteSetsExt

CONSTANTS
    Packages,       \* the selected package domains
    Drams,          \* the selected DRAM domains
    Wrap,           \* Wrap[d]: where the counter of d starts again
    Draws,          \* what may be used at once: functions of the domains
    MaxDrawn,       \* bound: how often energy is used
    MaxStamps,      \* bound: timestamps taken
    IdlePower,      \* idle_power_w of the control window, energy per tick
    NaN

Domains == Packages \cup Drams

VARIABLES
    known,          \* the domains whose max_energy_range_uj is known
    used,           \* what each domain has really used
    drawn,          \* how often
    clock,          \* the last timestamp
    samples,        \* self.samples, in the order of the appends
    meterPc,        \* the main thread
    since,          \* the timestamp the sampling thread has in hand, or 0
    tEnd,           \* self._t_end
    stopEvent,      \* self._stop_event
    outlived,       \* ghost: the thread was reading when its join gave up
    dramError,      \* self._dram_runtime_error
    meter           \* what stop() returns

meterVars == <<known, used, drawn, clock, samples, meterPc, since, tEnd, stopEvent, outlived, dramError, meter>>

NoMeter == [total |-> NaN, effective |-> NaN, dram |-> NaN]

EnergyInit ==
    /\ known \in SUBSET Domains /\ outlived = FALSE
    /\ used = [d \in Domains |-> 0] /\ drawn = 0
    /\ clock = 0 /\ samples = <<>> /\ meterPc = "start" /\ since = 0 /\ tEnd = 0
    /\ stopEvent = FALSE /\ dramError = FALSE /\ meter = NoMeter
-----------------------------------------------------------------------------
(* Readings                                                                *)

Counter(d) == used[d] % Wrap[d]

\* A reading of every domain; the DRAM part of it may be missing.  "truth" is
\* what no counter shows.
Reading(at, hasDram) ==
    [at |-> at, dram |-> hasDram, energy |-> [d \in Domains |-> Counter(d)], truth |-> used]

\* _append_sample: a package counter that cannot be read drops the sample, a
\* DRAM counter only its DRAM part.
Append_(at) ==
    \/ samples' = Append(samples, Reading(at, TRUE)) /\ UNCHANGED dramError
    \/ samples' = Append(samples, Reading(at, FALSE)) /\ dramError' = (Drams # {})
    \/ UNCHANGED <<samples, dramError>>
-----------------------------------------------------------------------------
(* Reduction                                                               *)

Range_(d) == IF d \in known THEN Wrap[d] ELSE 0

\* Mutant: a counter that went back has been reset.
Delta_Reset(d, old, new) == IF new >= old THEN new - old ELSE new

\* _energy_delta_j for one domain: a smaller reading has wrapped once.
Delta(d, old, new) ==
    IF new >= old THEN new - old
    ELSE IF Range_(d) > 0 THEN Range_(d) - old + new ELSE NaN

\* _energy_delta_j over a set of domains.
Interval(a, b, ds) ==
    LET D(d) == Delta(d, a.energy[d], b.energy[d]) IN
    IF \E d \in ds : D(d) = NaN THEN NaN ELSE MapThenSumSet(D, ds)

\* stop: what lies in the window, in the order of the timestamps.
Kept == SortSeq(SelectSeq(samples, LAMBDA r : r.at <= tEnd), LAMBDA a, b : a.at < b.at)
Steps(s) == 1..(Len(s) - 1)

\* _result_from_samples: the total is a number if every interval has one, the
\* effective energy if some interval has.
Total(s) ==
    LET E(i) == Interval(s[i], s[i + 1], Packages) IN
    IF Len(s) < 2 \/ \E i \in Steps(s) : E(i) = NaN THEN NaN ELSE MapThenSumSet(E, Steps(s))

Effective(s) ==
    LET E(i) == Interval(s[i], s[i + 1], Packages)
        Valid == {i \in Steps(s) : E(i) # NaN}
        Net(i) == E(i) - IdlePower * (s[i + 1].at - s[i].at)
    IN IF Valid = {} THEN NaN ELSE MapThenSumSet(Net, Valid)

\* Mutant: intervals without DRAM are passed over.
DramTotal_Lenient(s) ==
    LET ok == SelectSeq(s, LAMBDA r : r.dram)
        E(i) == Interval(ok[i], ok[i + 1], Drams)
    IN IF Len(ok) < 2 \/ Drams = {} \/ \E i \in Steps(ok) : E(i) = NaN THEN NaN
       ELSE MapThenSumSet(E, Steps(ok))

\* _dram_result_from_samples: verified, or nothing at all.
DramTotal(s) ==
    LET E(i) == Interval(s[i], s[i + 1], Drams) IN
    IF dramError \/ Len(s) < 2 \/ Drams = {} \/ (\E i \in 1..Len(s) : ~s[i].dram)
       \/ \E i \in Steps(s) : E(i) = NaN
    THEN NaN ELSE MapThenSumSet(E, Steps(s))
-----------------------------------------------------------------------------
(* The window                                                              *)

\* The host computes, at any time.
Draw ==
    /\ drawn < MaxDrawn /\ meterPc # "done"
    /\ \E use \in Draws : used' = [d \in Domains |-> used[d] + use[d]]
    /\ drawn' = drawn + 1
    /\ UNCHANGED <<known, outlived, clock, samples, meterPc, since, tEnd, stopEvent, dramError, meter>>

\* start
StartMeter ==
    /\ meterPc = "start"
    /\ clock' = clock + 1
    /\ Append_(clock + 1)
    /\ meterPc' = "window"
    /\ UNCHANGED <<known, outlived, used, drawn, since, tEnd, stopEvent, meter>>

\* sample_periodically: the timestamp is taken before the counters are read.
Wake ==
    /\ meterPc \notin {"start", "done"} /\ since = 0 /\ ~stopEvent /\ clock < MaxStamps
    /\ clock' = clock + 1 /\ since' = clock + 1
    /\ UNCHANGED <<known, outlived, used, drawn, samples, meterPc, tEnd, stopEvent, dramError, meter>>

Sample ==
    /\ since # 0 /\ meterPc # "done"
    /\ Append_(since)
    /\ since' = 0
    /\ UNCHANGED <<known, outlived, used, drawn, clock, meterPc, tEnd, stopEvent, meter>>

\* stop
EndWindow ==
    /\ meterPc = "window"
    /\ clock' = clock + 1 /\ tEnd' = clock + 1
    /\ meterPc' = "stop"
    /\ UNCHANGED <<known, outlived, used, drawn, samples, since, stopEvent, dramError, meter>>

SetStop ==
    /\ meterPc = "stop"
    /\ stopEvent' = TRUE /\ meterPc' = "join"
    /\ UNCHANGED <<known, outlived, used, drawn, clock, samples, since, tEnd, dramError, meter>>

\* thread.join(timeout=1.0); whether the thread has ended is not looked at.
JoinSampler ==
    /\ meterPc = "join"
    /\ outlived' = (since # 0)
    /\ meterPc' = "append"
    /\ UNCHANGED <<known, used, drawn, clock, samples, since, tEnd, stopEvent, dramError, meter>>

LastReading ==
    /\ meterPc = "append"
    /\ Append_(tEnd)
    /\ meterPc' = "reduce"
    /\ UNCHANGED <<known, outlived, used, drawn, clock, since, tEnd, stopEvent, meter>>

Reduce ==
    /\ meterPc = "reduce"
    /\ meter' = [total |-> Total(Kept), effective |-> Effective(Kept), dram |-> DramTotal(Kept)]
    /\ meterPc' = "done"
    /\ UNCHANGED <<known, outlived, used, drawn, clock, samples, since, tEnd, stopEvent, dramError>>

EnergyNext ==
    \/ Draw \/ StartMeter \/ Wake \/ Sample
    \/ EndWindow \/ SetStop \/ JoinSampler \/ LastReading \/ Reduce

EnergySpec == EnergyInit /\ [][EnergyNext]_meterVars
-----------------------------------------------------------------------------
TrueUse(ds) ==
    LET s == Kept
        U(d) == s[Len(s)].truth[d] - s[1].truth[d]
    IN MapThenSumSet(U, ds)

\* "at most one wrap per domain between adjacent samples", the assumption the
\* topology records: less than a wrap lies between them, whichever was read first.
OneWrapApart(ds) ==
    LET s == Kept IN
    \A i \in Steps(s), d \in ds : s[i + 1].truth[d] - s[i].truth[d] \in (1 - Wrap[d])..(Wrap[d] - 1)

\* The intervals over which d has been read against the order of their timestamps:
\* the thread has read after stop() did, under a timestamp it took before.
Reversed(d) == {i \in Steps(Kept) : Kept[i + 1].truth[d] < Kept[i].truth[d]}

\* What the counters cannot tell from use: a reversed interval looks like a wrap.
Spurious(ds) ==
    LET W(d) == Wrap[d] * Cardinality(Reversed(d))
    IN MapThenSumSet(W, ds)

Reported(energy, ds) ==
    energy # NaN /\ OneWrapApart(ds) => energy = TrueUse(ds) + Spurious(ds)

\* A package total or a DRAM energy that is reported is what the domains have really
\* used between the first reading and the last, however the two threads interleave,
\* whichever readings fail, as often as counters wrap and whatever ranges are known.
\* It is too large by one wrap of a domain at most, and only if the sampling thread was
\* still reading when stop() had waited for it; the effective energy beside a total is
\* that total less the idle energy of the window.
EnergyIsReal ==
    meterPc = "done" =>
        /\ Reported(meter.total, Packages) /\ Reported(meter.dram, Drams)
        /\ \A d \in Domains :
              Cardinality(Reversed(d)) <= (IF outlived THEN 1 ELSE 0)
        /\ meter.total # NaN =>
              meter.effective = meter.total - IdlePower * (Kept[Len(Kept)].at - Kept[1].at)

\* The documentation: with one wrap at most between adjacent samples, the intervals add
\* up to what has been used.  The code: not if the thread outlives its join.
EnergyIsExact ==
    meterPc = "done" =>
        /\ meter.total # NaN /\ OneWrapApart(Packages) => meter.total = TrueUse(Packages)
        /\ meter.dram # NaN /\ OneWrapApart(Drams) => meter.dram = TrueUse(Drams)

\* The documentation: a decrease without a known range is invalid and no energy
\* is guessed; so effective energy is that of the whole window or of none.
EffectiveIsWhole ==
    meterPc = "done" => (meter.effective # NaN => meter.total # NaN)
=============================================================================
