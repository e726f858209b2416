----------------------------- MODULE MCMeasuring -----------------------------
(* The components at work while a case is measured and profiled.  They      *)
(* share no state here, so each behaviour is one of one component: part     *)
(* says which.                                                              *)
EXTENDS CaseRunner, MonitorWindow, PacketMerge, EnergyCounters,
        ProfilerReports, ProfilePlans, RequestServing, WindowReadings

CONSTANTS pkg, dram

VARIABLE part

AllMonitors == {"gpu", "cpu", "resource", "mips"}

\* One domain of each kind, with counters small enough to wrap.
OnePackage == {pkg}
OneDram == {dram}
Wraps == pkg :> 4 @@ dram :> 3
TwoDraws == {pkg :> 1 @@ dram :> 2, pkg :> 3 @@ dram :> 1}

\* Models with and without a limit, on both devices; only texts reserve tokens.
EveryModel ==
    {[task |-> t, device |-> d, limit |-> l, overhead |-> 1, reserve |-> v] :
        t \in Tasks, d \in {"cpu", "cuda"}, l \in {0, 2, 4}, v \in {0, 1}}
ServedModels == {h \in EveryModel : /\ h.reserve = 1 => h.task \in SingleTexts
                                    /\ h.limit = 0 => h.task # "onnx-text"}
OneModel == [task |-> "image", device |-> "cpu", limit |-> 0, overhead |-> 1, reserve |-> 0]

\* Results whose rows show both devices, resources off the diagonal of the
\* matrix, scales and resources that no row has together, and no latency.
ProfiledRow(c, m, g, s, t) == [cpu |-> c, mem |-> m, gpu |-> g, scale |-> s, timed |-> t]
ThreeResults ==
    {[rows |-> {ProfiledRow(1, 1, "off", 1, TRUE), ProfiledRow(1, 1, "on", 1, TRUE),
                ProfiledRow(2, 1, "on", 1, FALSE)},
      scales |-> {1}, tools |-> {"torch", "ncu"}],
     [rows |-> {ProfiledRow(1, 1, "off", 1, TRUE), ProfiledRow(2, 2, "off", 2, TRUE)},
      scales |-> {1, 2}, tools |-> {"massif"}],
     [rows |-> {ProfiledRow(1, 1, "on", 1, TRUE), ProfiledRow(2, 1, "on", 1, TRUE),
                ProfiledRow(2, 2, "on", 1, TRUE), ProfiledRow(1, 1, "off", 1, TRUE)},
      scales |-> {1}, tools |-> {"nsys"}]}
OneResult == CHOOSE r \in ThreeResults : TRUE

MeasuringInit ==
    /\ part \in {"case", "window", "packet", "energy", "profiler", "plans", "server", "figures"}
    /\ CaseInit /\ WindowInit /\ PacketInit /\ EnergyInit /\ ReportsInit /\ PlansInit
    /\ ServingInit /\ ReadingInit
    /\ part # "case" => full
    /\ known \in IF part = "energy" THEN {Domains, {}} ELSE {Domains}
    /\ part # "profiler" => tool = "massif"
    /\ part # "plans" => result = OneResult
    /\ part # "server" => handler = OneModel
    /\ part # "figures" => setting = "cpu"

MeasuringNext ==
    /\ UNCHANGED part
    /\ \/ /\ part = "case" /\ CaseNext
          /\ UNCHANGED <<windowVars, packetVars, meterVars, reportVars, plansVars, servingVars, readingVars>>
       \/ /\ part = "window" /\ WindowNext
          /\ UNCHANGED <<caseVars, packetVars, meterVars, reportVars, plansVars, servingVars, readingVars>>
       \/ /\ part = "packet" /\ PacketNext
          /\ UNCHANGED <<caseVars, windowVars, meterVars, reportVars, plansVars, servingVars, readingVars>>
       \/ /\ part = "energy" /\ EnergyNext
          /\ UNCHANGED <<caseVars, windowVars, packetVars, reportVars, plansVars, servingVars, readingVars>>
       \/ /\ part = "profiler" /\ ReportsNext
          /\ UNCHANGED <<caseVars, windowVars, packetVars, meterVars, plansVars, servingVars, readingVars>>
       \/ /\ part = "plans" /\ PlansNext
          /\ UNCHANGED <<caseVars, windowVars, packetVars, meterVars, reportVars, servingVars, readingVars>>
       \/ /\ part = "server" /\ ServingNext
          /\ UNCHANGED <<caseVars, windowVars, packetVars, meterVars, reportVars, plansVars, readingVars>>
       \/ /\ part = "figures" /\ ReadingNext
          /\ UNCHANGED <<caseVars, windowVars, packetVars, meterVars, reportVars, plansVars, servingVars>>

\* CPU and DRAM energy, whose error is at most one wrap of each domain and only if the
\* sampling thread outlived its join, and the effective CPU energy beside a total; the
\* usage, GPU energy and rates of NVML, the cgroup and perf.  Not covered: an effective
\* CPU energy without a total; of I/O whose counter went back and of GPU energy whose
\* counter began again, only bounds.
FiguresAreReal == EnergyIsReal /\ FiguresAreTrue

MeasuringSpec ==
    MeasuringInit /\ [][MeasuringNext]_<<part, caseVars, windowVars, packetVars, meterVars,
                                        reportVars, plansVars, servingVars, readingVars>>
=============================================================================
