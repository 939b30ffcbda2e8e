----------------------------- MODULE DriftReport -----------------------------
(***************************************************************************)
(* Drift: a baseline is materialized once from the samples of a historical *)
(* window, stored, and read back by every later report, which compares it  *)
(* with the samples of the recent window.  Decisions give two histograms   *)
(* (confidence, decision type), traces a mean and a standard deviation.    *)
(* Numbers are integers: a confidence is in tenths, a trace value is what  *)
(* its transform made of it, and the CUSUM of a signal is multiplied by    *)
(* twice the baseline's count and deviation.                               *)
(***************************************************************************)
EXTENDS Integers, Sequences, FiniteSets, FiniteSetsExt, Ranking

CONSTANTS
  Kinds,          \* decision types, in the order of their names; 0 is "other"
  NoType,         \* the empty decision type, which nothing refuses
  Versions,       \* agent versions
  NoVersion,      \* the empty one, which nothing refuses either
  Tenths,         \* confidences
  Bounds,         \* confidence.bin_boundaries
  TraceValues,    \* values of the trace signal
  NoValue,        \* a trace without one; a statistic there is none of
  MaxLabels,      \* types a histogram keeps beside "other" (9)
  MinBaseline, MinRecent,   \* minimum sample counts of every signal
  EvaluationSamples,        \* recent values the CUSUM looks at
  HalfReference,  \* twice the reference value
  Warning, Alert, \* thresholds of the CUSUM
  PastSamples, RecentSamples, \* what either window may hold
  MaxSamples      \* bound on the samples of each window

\* A decision and the trace it was made in.
Samples == [kind : Kinds, version : Versions, tenths : Tenths, value : TraceValues \cup {NoValue}]

ASSUME SamplesAreSamples == PastSamples \cup RecentSamples \subseteq Samples
ASSUME BoundsIncrease ==
  /\ Bounds \in Seq(Int) /\ Len(Bounds) >= 2 /\ Bounds[1] = 0 /\ Bounds[Len(Bounds)] = 10
  /\ \A i \in 1 .. Len(Bounds) - 1 : Bounds[i] < Bounds[i + 1]
ASSUME MinimumIsPositive == MinBaseline \in Nat \ {0}
ASSUME ThresholdsAreOrdered == {Warning, Alert} \subseteq Nat /\ Warning < Alert
ASSUME KindsAreNumbers == Kinds \subseteq Nat /\ 0 \in Kinds /\ NoType # 0
ASSUME ValuesAreNumbers ==
  Tenths \subseteq 0 .. 10 /\ TraceValues \subseteq Int /\ NoValue \notin Int
ASSUME SettingsAreNatural ==
  {MaxLabels, MinRecent, HalfReference, MaxSamples} \subseteq Nat /\ EvaluationSamples \in Nat \ {0}

VARIABLES
  past,           \* samples of the baseline window, oldest first
  recent,         \* samples of the recent window, oldest first
  baseline,       \* the stored material, or NoValue
  report          \* the last report, or NoValue

driftVars == <<past, recent, baseline, report>>

DriftInit == past = <<>> /\ recent = <<>> /\ baseline = NoValue /\ report = NoValue

\* A sample that is late takes its place among the others.
SampleAt(seq, i, s) == SubSeq(seq, 1, i - 1) \o <<s>> \o SubSeq(seq, i, Len(seq))
RoomAt(seq, i) == Len(seq) < MaxSamples /\ i \in 1 .. Len(seq) + 1

PastSample(i, s) ==
  /\ RoomAt(past, i) /\ past' = SampleAt(past, i, s)
  /\ report' = NoValue
  /\ UNCHANGED <<recent, baseline>>

RecentSample(i, s) ==
  /\ RoomAt(recent, i) /\ recent' = SampleAt(recent, i, s)
  /\ report' = NoValue
  /\ UNCHANGED <<past, baseline>>

-----------------------------------------------------------------------------
(* Signals.                                                                *)

\* bisect_right of the bounds, less one, within the last bin.
ConfidenceBin(v) ==
  Min({Cardinality({i \in DOMAIN Bounds : Bounds[i] <= v}), Len(Bounds) - 1})

CountOf(seq, Test(_)) == Cardinality({i \in DOMAIN seq : Test(seq[i])})

ConfidenceCounts(seq) ==
  [b \in 1 .. Len(Bounds) - 1 |-> CountOf(seq, LAMBDA s : ConfidenceBin(s.tenths) = b)]

\* By count and then by name.
KindOrder(seq) ==
  LET count(k) == CountOf(seq, LAMBDA s : s.kind = k)
  IN {p \in Kinds \X Kinds :
        count(p[1]) > count(p[2]) \/ (count(p[1]) = count(p[2]) /\ p[1] < p[2])}

\* "other" competes for a label of its own (the mutant of KindLabels).
OtherIsAKind(seq) ==
  FirstOf(MaxLabels, Ranked(KindOrder(seq), {seq[i].kind : i \in DOMAIN seq})) \o <<0>>

\* The most frequent types, and "other" for the rest.
KindLabels(seq) ==
  FirstOf(MaxLabels, Ranked(KindOrder(seq), {seq[i].kind : i \in DOMAIN seq} \ {0})) \o <<0>>

\* What is not under one of the labels is under "other".
KindCounts(labels, seq) ==
  [i \in DOMAIN labels |->
     CountOf(seq, LAMBDA s : labels[i] = IF s.kind \in Range(labels) THEN s.kind ELSE 0)]

ValuesOf(seq) ==
  LET measured == {i \in DOMAIN seq : seq[i].value # NoValue}
      place == Ranked({p \in measured \X measured : p[1] < p[2]}, measured)
  IN [k \in DOMAIN place |-> seq[place[k]].value]

\* A latency may be derived of a trace that ended before it began; baselines and
\* reports are refused over such a window.
Measurable(seq) == \A i \in DOMAIN seq : seq[i].value # NoValue => seq[i].value >= 0

VersionCounts(seq) ==
  [v \in {seq[i].version : i \in DOMAIN seq} |-> CountOf(seq, LAMBDA s : s.version = v)]

Total(counts) == SumFunction(counts)

\* statistics.stdev needs two values and is zero for equal ones; the spread of
\* the values stands for it.
Deviation(values) ==
  IF Len(values) < 2 THEN NoValue ELSE Max(Range(values)) - Min(Range(values))

\* calculate_baseline.
Material(seq) ==
  LET labels == KindLabels(seq)
      values == ValuesOf(seq)
  IN [bins |-> ConfidenceCounts(seq), labels |-> labels, kinds |-> KindCounts(labels, seq),
      count |-> Len(values), sum |-> Total(values), deviation |-> Deviation(values),
      versions |-> VersionCounts(seq)]

\* create_baseline: every signal needs its samples.
CreateBaseline ==
  /\ Measurable(past)
  /\ LET m == Material(past) IN
     /\ \A n \in {Total(m.bins), Total(m.kinds), m.count} : n >= MinBaseline
     /\ baseline' = m
  /\ report' = NoValue
  /\ UNCHANGED <<past, recent>>

\* _material_from_record: what a report accepts of a stored baseline.
ReadsBack(m) ==
  /\ \A n \in {Total(m.bins), Total(m.kinds), m.count} : n >= MinBaseline
  /\ Len(m.bins) = Len(Bounds) - 1
  /\ Len(m.labels) = Len(m.kinds) /\ Cardinality(Range(m.labels)) = Len(m.labels)
  /\ Len(m.labels) <= MaxLabels + 1 /\ m.labels[Len(m.labels)] = 0
  /\ \A i, j \in 1 .. Len(m.labels) - 1 :
       i < j => \/ m.kinds[i] > m.kinds[j]
                \/ m.kinds[i] = m.kinds[j] /\ m.labels[i] < m.labels[j]
  /\ {Total(m.bins), Total(m.kinds)} = {Total(m.versions)} /\ m.count <= Total(m.versions)
  /\ NoType \notin Range(m.labels) /\ NoVersion \notin DOMAIN m.versions
  /\ m.deviation # NoValue /\ m.deviation >= 0 /\ m.sum >= 0

-----------------------------------------------------------------------------
(* Reports.                                                                *)

\* The last values, which are all the CUSUM looks at.
Evaluated(seq) ==
  LET values == ValuesOf(seq)
  IN SubSeq(values, Max({1, Len(values) - EvaluationSamples + 1}), Len(values))

Residual(m, v) == 2 * (m.count * v - m.sum)
Slack(m) == HalfReference * m.count * m.deviation
Scale(m) == 2 * m.count * m.deviation

\* The negative sum restarts at the positive one (a mutant of CusumStep).
OneSided(m, at, v) ==
  LET up == Max({0, at.up + Residual(m, v) - Slack(m)})
      down == Min({0, at.down + Residual(m, v) - Slack(m)})
  IN [up |-> up, down |-> down, peak |-> Max({at.peak, up, -down})]

\* _cusum_path, one value at a time.
CusumStep(m, at, v) ==
  LET up == Max({0, at.up + Residual(m, v) - Slack(m)})
      down == Min({0, at.down + Residual(m, v) + Slack(m)})
  IN [up |-> up, down |-> down, peak |-> Max({at.peak, up, -down})]

Cusum(m, values) ==
  LET path[k \in 0 .. Len(values)] ==
        IF k = 0 THEN [up |-> 0, down |-> 0, peak |-> 0]
        ELSE CusumStep(m, path[k - 1], values[k])
  IN path[Len(values)].peak

StatusOfMetric(m, metric) ==
  IF metric >= Alert * Scale(m) THEN "drift_detected"
  ELSE IF metric >= Warning * Scale(m) THEN "watch" ELSE "healthy"

\* The reason a signal gives no verdict; a trace signal counts raw values.
HistogramReason == IF Len(recent) < MinRecent THEN "recent_window_too_small" ELSE "none"
TraceReason ==
  IF baseline.deviation = 0 THEN "baseline_has_no_variance"
  ELSE IF Len(ValuesOf(recent)) < MinRecent THEN "recent_window_too_small" ELSE "none"

\* The worst signal speaks for all.
Aggregate(statuses) ==
  IF "drift_detected" \in statuses THEN "drift_detected"
  ELSE IF "watch" \in statuses THEN "watch" ELSE "healthy"

\* calculate_report; what PSI makes of each pair of histograms is any status,
\* below the alert when they are equal (the warning threshold may be zero).
Report(confidence, kind) ==
  /\ baseline # NoValue /\ ReadsBack(baseline) /\ Measurable(recent)
  /\ LET bins == ConfidenceCounts(recent)
         kinds == KindCounts(baseline.labels, recent)
         trace == Cusum(baseline, Evaluated(recent))
         reasons == {HistogramReason, TraceReason}
     IN /\ bins = baseline.bins => confidence # "drift_detected"
        /\ kinds = baseline.kinds => kind # "drift_detected"
        /\ report' =
             [reason |-> IF "baseline_has_no_variance" \in reasons THEN "baseline_has_no_variance"
                         ELSE IF "recent_window_too_small" \in reasons
                           THEN "recent_window_too_small" ELSE "none",
              status |-> IF reasons # {"none"} THEN "insufficient_data"
                         ELSE Aggregate({confidence, kind, StatusOfMetric(baseline, trace)}),
              histograms |-> {confidence, kind}, bins |-> bins, kinds |-> kinds]
  /\ UNCHANGED <<past, recent, baseline>>

DriftStatuses == {"healthy", "watch", "drift_detected"}

DriftNext ==
  \/ \E s \in PastSamples, i \in 1 .. MaxSamples : PastSample(i, s)
  \/ \E s \in RecentSamples, i \in 1 .. MaxSamples : RecentSample(i, s)
  \/ CreateBaseline
  \/ \E confidence, kind \in DriftStatuses : Report(confidence, kind)

DriftSpec == DriftInit /\ [][DriftNext]_driftVars

-----------------------------------------------------------------------------
(* Properties.                                                             *)

DriftTypeOK ==
  /\ past \in Seq(Samples) /\ recent \in Seq(Samples)
  /\ baseline = NoValue \/ baseline.labels \in Seq(Kinds)
  /\ report = NoValue \/ report.status \in DriftStatuses \cup {"insufficient_data"}

\* A label or a version without a name.
Nameless(m) == NoType \in Range(m.labels) \/ NoVersion \in DOMAIN m.versions

\* What create_baseline stores, every later report can read, whatever else the
\* samples (types named "other", ties, more types than labels, late samples): the
\* reader refuses a stored baseline only for an empty name among its labels or
\* versions, or for the missing deviation of a single value.
BaselineReadsBack ==
  baseline # NoValue => ReadsBack(baseline) \/ Nameless(baseline) \/ baseline.count = 1

\* The largest shift of any run of consecutive values, up or down, beyond the
\* reference value for each of them.
LargestShift(m, values) ==
  LET over(i, j) == Total([n \in 1 .. j - i + 1 |-> Residual(m, values[i + n - 1])])
      distance(n) == IF n < 0 THEN -n ELSE n
  IN Max({0} \cup {distance(over(p[1], p[2])) - (p[2] - p[1] + 1) * Slack(m) :
                     p \in {p \in (1 .. Len(values)) \X (1 .. Len(values)) : p[1] <= p[2]}})

\* A verdict of the whole report is that of its worst signal, with every recent
\* decision counted once in each histogram, and with the trace signal judged by
\* the largest shift that any run of its evaluated values shows.
VerdictShowsWorstShift ==
  report # NoValue /\ report.status \in DriftStatuses =>
    LET trace == StatusOfMetric(baseline, LargestShift(baseline, Evaluated(recent)))
        worst == IF "drift_detected" \in report.histograms \cup {trace} THEN "drift_detected"
                 ELSE IF "watch" \in report.histograms \cup {trace} THEN "watch" ELSE "healthy"
    IN /\ report.status = worst
       /\ {Total(report.bins), Total(report.kinds)} = {Len(recent)}
=============================================================================
