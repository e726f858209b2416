----------------------------- MODULE LatencyModel -----------------------------
(***************************************************************************)
(* The latency model that acprof plot fits to a result and its verdict     *)
(* (cli/plot.py, plotting/data.py, analysis/latency_model.py and           *)
(* latency_report.py): the measured windows become one point per case; CPU *)
(* and GPU are fitted apart; each configuration and the largest scale are  *)
(* predicted by models fitted without them; thresholds on these            *)
(* predictions decide whether the report may say that the model is ready.  *)
(* What a fit predicts is any error of the set FitErrors: the least squares   *)
(* are not modelled, only what a fit has seen and can tell apart.  FitErrors  *)
(* are in twentieths of the measured latency.                              *)
(***************************************************************************)
EXTENDS Integers, Sequences, FiniteSets, SequencesExt

CONSTANTS
    Results,    \* what a run may have left: [windows, environment]
    Earlier,    \* what an earlier plot may have left in latency_model/
    FitErrors,     \* how far a fit may be off, at most scales and at the largest
    TailErrors  \* the same of the affine tail

ASSUME ResultsAssumption ==
    \A r \in Results : /\ IsFiniteSet(r.windows)
                       /\ \A w \in r.windows : w.case.mode \in {"cpu", "gpu"} /\ w.case.scale \in Nat

\* A window is [case, id, latency, status, warmup, environment]; a case is
\* [mode, cpu, mem, scale].  A file says of which table it is made.
VARIABLES
    table,      \* the result CSV
    plot,       \* what plot does next
    unfitted,   \* the hardware still to be fitted,
    left,       \* and the configurations still to be predicted
    seen,       \* out-of-fold predictions: [point, kind, off, fit]
    failed,     \* folds that could not be fitted
    verdicts,   \* the report of each hardware
    reportFile, residualsFile

plotVars == <<table, plot, unfitted, left, seen, failed, verdicts, reportFile, residualsFile>>
-----------------------------------------------------------------------------
(* From windows to points                                                  *)

\* All windows say they come from the one environment the run recorded, or none does.
Uniform(t) ==
    \E e \in {"unknown", t.environment} : \A w \in t.windows : w.environment = e

\* plot takes measured windows that went well; the model those with a number.
Formal(t) == {w \in t.windows : w.status = "ok" /\ ~w.warmup}
Frame(t) == {w \in Formal(t) : w.latency > 0}

\* Twice the median of the windows of a case.
Median2(ws) ==
    LET s == SetToSortSeq(ws, LAMBDA a, b : a.latency < b.latency \/ (a.latency = b.latency /\ a.id < b.id))
    IN s[(Len(s) + 1) \div 2].latency + s[(Len(s) \div 2) + 1].latency

Points(t) ==
    LET of(c) == {w \in Frame(t) : w.case = c} IN
    {[case |-> c, actual |-> Median2(of(c)), windows |-> of(c)] : c \in {w.case : w \in Frame(t)}}

PointsOf(h) == {p \in Points(table) : p.case.mode = h}
Configuration(p) == <<p.case.cpu, p.case.mem>>
Configurations(ps) == {Configuration(p) : p \in ps}
ScalesOf(ps) == {p.case.scale : p \in ps}
Top(ps) == Max(ScalesOf(ps))
Below(ps) == {p \in ps : p.case.scale < Top(ps)}
-----------------------------------------------------------------------------
(* Fits                                                                    *)

\* The columns of the resources add something to those of the scale if two
\* configurations were measured at one scale.  (For CPU: up to three scales,
\* where the quadratic in the scale takes any value at each.)
Identified(ps) == \E p, q \in ps : p.case.scale = q.case.scale /\ Configuration(p) # Configuration(q)

Fitted(ps, e) == [points |-> ps, top |-> Top(ps), off |-> e, tail |-> FALSE, tailOff |-> 0,
                  resources |-> Identified(ps)]

\* The affine tail of a GPU model may be used if one step forward from the
\* smaller scales can be tried and the scales span a factor of ten; whether
\* that step goes wrong and all slopes are positive is up to the figures.
TailPossible(h, ps) ==
    /\ h = "gpu"
    /\ Cardinality(ScalesOf(ps)) >= 3 /\ Cardinality(Below(ps)) >= 3
    /\ Top(ps) >= 10 * Min(ScalesOf(ps))

WithTail(ps, e, t) == [Fitted(ps, e) EXCEPT !.tail = TRUE, !.tailOff = t]

Fits(h, ps) ==
    IF Cardinality(ps) < 3 THEN {}
    ELSE {Fitted(ps, e) : e \in FitErrors}
         \cup {WithTail(ps, e, t) : e \in FitErrors, t \in {x \in TailErrors : TailPossible(h, ps)}}

\* A tail that would predict no positive latency gives way to the fit.
OffBy(fit, p, tops) ==
    IF fit.tail /\ p.case.scale > fit.top /\ fit.tailOff > -20 THEN fit.tailOff
    ELSE IF p.case.scale = tops THEN fit.off.largest ELSE fit.off.other

Predictions(kind, fit, ps, tops) ==
    {[point |-> p, kind |-> kind, off |-> OffBy(fit, p, tops), fit |-> fit.points] : p \in ps}
-----------------------------------------------------------------------------
(* Figures and thresholds                                                  *)

Off(p) == IF p.off < 0 THEN -p.off ELSE p.off
Miss(p) == p.point.actual * Off(p)
SumOf(f(_), ps) == FoldSet(LAMBDA p, acc : acc + f(p), 0, ps)
Weight(p) == p.point.actual

RelativeMaeWithin(ps, limit) == ps # {} /\ SumOf(Miss, ps) <= limit * SumOf(Weight, ps)
MapeWithin(ps, limit) == ps # {} /\ SumOf(Off, ps) <= limit * Cardinality(ps)
EachWithin(ps, limit) == \A p \in ps : Off(p) <= limit
Positive(ps) == \A p \in ps : p.off > -20

Spread(ps) ==
    LET square(p) == Weight(p) * Weight(p)
    IN Cardinality(ps) * SumOf(square, ps) - SumOf(Weight, ps) * SumOf(Weight, ps)
\* At least four fifths of the spread is explained; none is no number.
R2Known(ps) == ps # {} /\ Spread(ps) > 0
R2Enough(ps) ==
    LET square(p) == Miss(p) * Miss(p)
    IN R2Known(ps) /\ 5 * Cardinality(ps) * SumOf(square, ps) <= 400 * Spread(ps)

\* _validation_quality_failures: nothing is held against these predictions.
Leaks(p) == IF p.kind = "configuration"
            THEN Configuration(p.point) \in Configurations(p.fit)
            ELSE p.point.case.scale \in ScalesOf(p.fit)
FoldsWithin(ps) ==
    \A c \in Configurations({p.point : p \in ps}) :
        LET fold == {p \in ps : Configuration(p.point) = c}
        IN RelativeMaeWithin(fold, 6) /\ MapeWithin(fold, 6) /\ Positive(fold)

Passes(kind, available, ps) ==
    /\ available
    /\ Cardinality(ps) >= 4
    /\ ~\E p \in ps : Leaks(p)
    /\ kind = "configuration" => FoldsWithin(ps) /\ R2Enough(ps)
    /\ EachWithin(ps, 6)
    /\ RelativeMaeWithin(ps, 4) /\ MapeWithin(ps, 4) /\ Positive(ps)

Evaluable(kind, available, ps) ==
    available /\ Cardinality(ps) >= 4 /\ (kind = "configuration" => R2Known(ps))
-----------------------------------------------------------------------------
(* The run of plot                                                         *)

PlotInit ==
    /\ table \in Results /\ plot = "read"
    /\ unfitted = <<>> /\ left = {} /\ seen = {} /\ failed = {} /\ verdicts = {}
    /\ \E e \in Earlier : reportFile = e /\ residualsFile = e

\* prepare_df refuses a table of several environments; nothing is written.
ReadTable ==
    /\ plot = "read"
    /\ plot' = IF ~Uniform(table) THEN "refused"
               ELSE IF Cardinality(Frame(table)) < 3 \/ Cardinality(Points(table)) < 3 THEN "write"
               ELSE "next"
    /\ unfitted' = (IF PointsOf("cpu") # {} THEN <<"cpu">> ELSE <<>>)
                   \o (IF PointsOf("gpu") # {} THEN <<"gpu">> ELSE <<>>)
    /\ UNCHANGED <<table, left, seen, failed, verdicts, reportFile, residualsFile>>

\* Without the fit of all points the other fits are not tried.
NextHardware ==
    /\ plot = "next" /\ unfitted # <<>>
    /\ LET ps == PointsOf(Head(unfitted)) IN
       IF Cardinality(ps) < 3
       THEN /\ verdicts' = verdicts \cup {[hardware |-> Head(unfitted), status |-> "skipped"]}
            /\ unfitted' = Tail(unfitted) /\ UNCHANGED <<plot, left>>
       ELSE /\ left' = IF Cardinality(Configurations(ps)) < 3 THEN {} ELSE Configurations(ps)
            /\ plot' = "folds" /\ UNCHANGED <<verdicts, unfitted>>
    /\ UNCHANGED <<table, seen, failed, reportFile, residualsFile>>

TrainingRows(ps, c) == {p \in ps : Configuration(p) # c}

\* The next configuration, with all its scales, is predicted by the others.
Fold ==
    /\ plot = "folds" /\ left # {}
    /\ LET h == Head(unfitted)
           ps == PointsOf(h)
           c == CHOOSE x \in left : \A y \in left : x[1] < y[1] \/ (x[1] = y[1] /\ x[2] <= y[2])
           rest == TrainingRows(ps, c)
           usable == {fit \in Fits(h, rest) : fit.resources}
       IN /\ left' = left \ {c}
          /\ IF usable = {}
             THEN failed' = failed \cup {<<h, c>>} /\ UNCHANGED seen
             ELSE /\ \E fit \in usable :
                        seen' = seen \cup Predictions("configuration", fit,
                                                      {p \in ps : Configuration(p) = c}, Top(ps))
                  /\ UNCHANGED failed
    /\ UNCHANGED <<table, plot, unfitted, verdicts, reportFile, residualsFile>>

\* The largest scale is predicted by the smaller ones.
HoldOutScale ==
    /\ plot = "folds" /\ left = {}
    /\ LET h == Head(unfitted)
           ps == PointsOf(h)
           fits == IF Cardinality(ScalesOf(ps)) < 3 THEN {} ELSE Fits(h, Below(ps))
       IN IF fits = {} THEN UNCHANGED seen
          ELSE \E fit \in fits : seen' = seen \cup Predictions("scale", fit, ps \ Below(ps), Top(ps))
    /\ plot' = "judge"
    /\ UNCHANGED <<table, unfitted, left, failed, verdicts, reportFile, residualsFile>>

Of(h, kind) == {p \in seen : p.kind = kind /\ p.point.case.mode = h}

\* All folds were fitted and all points predicted.
Available(h, kind) ==
    IF kind = "scale" THEN Of(h, kind) # {}
    ELSE /\ Cardinality(Configurations(PointsOf(h))) >= 3
         /\ ~\E c \in Configurations(PointsOf(h)) : <<h, c>> \in failed
         /\ {p.point : p \in Of(h, kind)} = PointsOf(h)

Holdouts == {"configuration", "scale"}
Status(h) ==
    IF \A k \in Holdouts : Passes(k, Available(h, k), Of(h, k)) THEN "ok"
    ELSE IF \A k \in Holdouts : Evaluable(k, Available(h, k), Of(h, k)) THEN "poor_fit"
    ELSE "unvalidated"

Judge ==
    /\ plot = "judge"
    /\ verdicts' = verdicts \cup {[hardware |-> Head(unfitted), status |-> Status(Head(unfitted))]}
    /\ unfitted' = Tail(unfitted) /\ plot' = "next"
    /\ UNCHANGED <<table, left, seen, failed, reportFile, residualsFile>>

Statuses == {v.status : v \in verdicts}
\* A plausible bug: hardware that could not be fitted does not count.
Overall_Fitted == IF Statuses \ {"skipped"} = {"ok"} THEN "ok" ELSE "poor_fit"
Overall ==
    IF Statuses \subseteq {"skipped"} THEN "skipped"
    ELSE IF "poor_fit" \in Statuses THEN "poor_fit"
    ELSE IF Statuses # {"ok"} THEN "unvalidated"
    ELSE "ok"

\* First the residuals, then the report; plot may die in between.
WriteResiduals ==
    /\ plot = "write" \/ (plot = "next" /\ unfitted = <<>>)
    /\ residualsFile' = [of |-> table, rows |-> seen, ready |-> FALSE]
    /\ plot' = "report"
    /\ UNCHANGED <<table, unfitted, left, seen, failed, verdicts, reportFile>>

WriteReport ==
    /\ plot = "report"
    /\ reportFile' = [of |-> table, rows |-> {}, ready |-> Overall = "ok"]
    /\ plot' = "done"
    /\ UNCHANGED <<table, unfitted, left, seen, failed, verdicts, residualsFile>>

Dies ==
    /\ plot \notin {"done", "refused", "died"} /\ plot' = "died"
    /\ UNCHANGED <<table, unfitted, left, seen, failed, verdicts, reportFile, residualsFile>>

PlotNext ==
    \/ ReadTable \/ NextHardware \/ Fold \/ HoldOutScale \/ Judge
    \/ WriteResiduals \/ WriteReport \/ Dies

PlotSpec == PlotInit /\ [][PlotNext]_plotVars
-----------------------------------------------------------------------------
\* What a reader may take from a report that says "ready": every kind of
\* hardware in the table was judged by predictions, one for each of its cases,
\* made without a single window of that case's configuration, and of the
\* largest scale without a window as large; they are close one by one, for each
\* configuration and on the whole; and the measured value is that of all good
\* windows of the case.  (docs/Metrics.md:658)
Blind(p) ==
    \A q \in p.fit : \A w \in q.windows :
        IF p.kind = "configuration"
        THEN <<w.case.cpu, w.case.mem>> # Configuration(p.point)
        ELSE w.case.scale < p.point.case.scale

ReadyIsEarned ==
    plot = "done" =>
      /\ residualsFile.of = table /\ reportFile.of = table
      /\ reportFile.ready =>
        LET good == {w \in table.windows : w.status = "ok" /\ ~w.warmup /\ w.latency > 0}
            shown == residualsFile.rows
            modes == {w.case.mode : w \in good}
        IN /\ \A p \in shown : Blind(p) /\ Off(p) <= 6
           /\ \A w \in good :
                \E p \in shown : p.kind = "configuration" /\ w \in p.point.windows
                                 /\ p.point.windows = {v \in good : v.case = w.case}
           /\ \A m \in modes : \A k \in Holdouts :
                LET ps == {p \in shown : p.kind = k /\ p.point.case.mode = m} IN
                /\ Cardinality(ps) >= 4
                /\ MapeWithin(ps, 4) /\ RelativeMaeWithin(ps, 4)
                /\ k = "configuration" =>
                     /\ R2Enough(ps)
                     /\ \A c \in {w.case : w \in good} : c.mode = m =>
                          MapeWithin({p \in ps : p.point.case.cpu = c.cpu /\ p.point.case.mem = c.mem}, 6)
                /\ k = "scale" =>
                     {p.point.case.scale : p \in ps} = {Max({w.case.scale : w \in {v \in good : v.case.mode = m}})}
=============================================================================
