----------------------------- MODULE Evaluation -----------------------------
(***************************************************************************)
(* M6: POST /eval/run replays the settled ground truth, with a decay       *)
(* injected, through the detector, takes a preview of the week's plan, and *)
(* records a verdict on each frozen criterion: one commit for the run and  *)
(* its metrics, then a report file.                                        *)
(*                                                                         *)
(* Requests run in threads.  Runs of commits whose ids share seven digits  *)
(* write the same report file, which write_text empties first and then     *)
(* writes from its beginning.  The commit may fail, and so may the write;  *)
(* a thread may also end between any two steps, with its process.          *)
(***************************************************************************)
EXTENDS Detector, Functions

CONSTANTS
    Requests,       \* evaluation requests
    Series,         \* settled simulations the case data may hold
    Inputs,         \* the coverage and the p95 a caller may supply
    Plans,          \* what a preview of the week's plan measures
    ReportOf,       \* git sha -> report file
    DecayStart,     \* DECAY_START, counted from 1
    DecayEnd,       \* DECAY_END, the first reading after the decay
    DecayPercent,   \* DECAY_DROP
    Budget,         \* FALSE_ALARM_BUDGET_PER_WEEK
    NoPlan          \* preview_plan raised ValueError

ASSUME SeriesAssumption == Series \subseteq Seq(Int)
ASSUME DecayAssumption ==
    /\ DecayStart \in Nat \ {0} /\ DecayEnd \in Nat /\ DecayPercent \in 0 .. 100
ASSUME PlanAssumption ==
    /\ Plans \subseteq [km : Nat, baseline : Nat, ms : Nat, missed : Nat] \cup {NoPlan}
    /\ Inputs \subseteq [p95 : Nat, coverage : 0 .. 100]
    /\ Budget \in Nat

Shas == DOMAIN ReportOf

VARIABLES
    truth,      \* the simulation, after its warm-up
    odd,        \* external: the isolation forest's answer for each prefix
    rows,       \* table eval_run, with its metrics: request -> row
    files,      \* report files: path -> the requests whose text, or part of
                \* it, the file holds; history: which one opened it last, and
                \* whether that one has been alone with it since
    request     \* the requests' progress

vars == <<truth, odd, rows, files, request>>

-----------------------------------------------------------------------------
\* inject_decay: which readings are labelled.
Labels(n) == {i \in 1 .. n : DecayStart <= i /\ i < DecayEnd}

\* inject_decay: the drop grows over the episode; a value is rounded to the
\* nearest unit.
Decayed(series) ==
    LET steps == Max({1, DecayEnd - DecayStart - 1})
        whole == 100 * steps
    IN [i \in 1 .. Len(series) |->
          IF i \notin Labels(Len(series)) THEN series[i]
          ELSE (2 * series[i] * (whole - DecayPercent * (i - DecayStart)) + whole)
                   \div (2 * whole)]

\* detection_timeline: each prefix is judged on its own.
Timeline(series) ==
    {i \in 1 .. Len(series) : Codes(SubSeq(series, 1, i), odd) # {}}

\* The fixed-threshold baseline.
Baseline(series) == {i \in 1 .. Len(series) : series[i] < Threshold}

\* confusion and _f1, as a fraction: precision is tp / (tp + fp), recall is
\* tp / (tp + fn), and 2 p r / (p + r) over one denominator.
F1(flagged, labels) ==
    LET tp == Cardinality(flagged \cap labels)
        p == [num |-> tp, den |-> Cardinality(flagged)]
        r == [num |-> tp, den |-> Cardinality(labels)]
    IN IF tp = 0 THEN [num |-> 0, den |-> 1]
       ELSE [num |-> 2 * p.num * r.num, den |-> p.num * r.den + r.num * p.den]

Above(x, y) == x.num * y.den > y.num * x.den

\* The reading the warning has to precede: the first labelled one below the
\* watch level, or the first labelled one.
Event(series, labels) ==
    LET low == {i \in labels : series[i] < WatchLevel}
    IN IF low # {} THEN Min(low) ELSE Min(labels)

\* Mutant: an alert that comes after the event counts as well.
LeadEitherWay(series, labels) ==
    LET alerts == Timeline(series)
    IN IF labels = {} \/ alerts = {} THEN 0
       ELSE Magnitude(Event(series, labels) - Min(alerts))

\* median_lead_cycles: readings between the first alert and the event.
Lead(series, labels) ==
    LET early == {i \in Timeline(series) : labels # {} /\ i <= Event(series, labels)}
    IN IF early = {} THEN 0 ELSE Event(series, labels) - Min(early)

\* false_alarms_per_week: all alerts of the replay outside the episode.
FalseAlarms(series, labels) == Cardinality(Timeline(series) \ labels)

C1(series, labels) == Above(F1(Timeline(series), labels), F1(Baseline(series), labels))

C2(series, labels) ==
    Lead(series, labels) >= 1 /\ FalseAlarms(series, labels) <= Budget

\* C4: at least 15 % below the baseline, solved within 5 s.
C4(plan) ==
    /\ plan.baseline > 0
    /\ 100 * (plan.baseline - plan.km) >= 15 * plan.baseline
    /\ plan.ms < 5000

\* build_metrics.  Without a plan its measures are zeros: no window is missed.
\* C5 and C6 judge numbers the caller supplies.
Verdicts(plan, inputs) ==
    LET series == Decayed(truth)
        labels == Labels(Len(truth))
        measured == IF plan = NoPlan THEN [km |-> 0, baseline |-> 0, ms |-> 0, missed |-> 0]
                    ELSE plan
    IN [c1 |-> C1(series, labels), c2 |-> C2(series, labels),
        c3 |-> measured.missed = 0, c4 |-> C4(measured),
        c5 |-> inputs.p95 > 0 /\ inputs.p95 < 300, c6 |-> inputs.coverage >= 70]

-----------------------------------------------------------------------------
Init ==
    /\ truth \in Series
    /\ odd \in SUBSET (MinReadings .. Len(truth))
    /\ rows = << >> /\ files = << >>
    /\ request = [q \in Requests |-> [pc |-> "new"]]

Put(f, x, v) == [y \in DOMAIN f \cup {x} |-> IF y = x THEN v ELSE f[y]]

Go(q, r) == request' = [request EXCEPT ![q] = r]

\* run, up to the commit: everything is measured.
Measure(q, sha, plan, inputs) ==
    /\ request[q].pc = "new"
    /\ Go(q, [pc |-> "measured", sha |-> sha, verdicts |-> Verdicts(plan, inputs)])
    /\ UNCHANGED <<truth, odd, rows, files>>

\* Mutant: the commit is made, but not taken for made.
CommitAgain(q) ==
    /\ request[q].pc = "measured"
    /\ rows' = Put(rows, q, [sha |-> request[q].sha, verdicts |-> request[q].verdicts])
    /\ UNCHANGED <<truth, odd, files, request>>

\* One transaction holds the run and its six metrics.
Commit(q) ==
    /\ request[q].pc = "measured"
    /\ rows' = Put(rows, q, [sha |-> request[q].sha, verdicts |-> request[q].verdicts])
    /\ Go(q, [request[q] EXCEPT !.pc = "committed"])
    /\ UNCHANGED <<truth, odd, files>>

\* report_path: the id of the commit is cut to seven digits.
Report(q) == ReportOf[request[q].sha]

Opened(path) == {q \in Requests : request[q].pc = "opened" /\ Report(q) = path}

Open(q) ==
    /\ files' = Put(files, Report(q),
                    [texts |-> {}, last |-> q, sole |-> Opened(Report(q)) = {}])
    /\ Go(q, [pc |-> "opened", sha |-> request[q].sha])
    /\ UNCHANGED <<truth, odd, rows>>

\* Mutant: the report does not wait for the commit.
OpenBeforeCommit(q) == request[q].pc = "measured" /\ Open(q)

\* write_text opens the file, which empties it of whatever it held.
OpenReport(q) == request[q].pc = "committed" /\ Open(q)

\* 201.  The text is written from the beginning of the file: the end of a longer
\* one that another has written meanwhile stays.
WriteReport(q) ==
    /\ request[q].pc = "opened"
    /\ \E rest \in {{}, files[Report(q)].texts} :
          files' = [files EXCEPT ![Report(q)].texts = rest \cup {q}]
    /\ Go(q, [pc |-> "done"])
    /\ UNCHANGED <<truth, odd, rows>>

\* 500: the commit or the write fails, or the process ends.
Fail(q) ==
    /\ request[q].pc \in {"measured", "committed"}
    /\ Go(q, [pc |-> "failed"])
    /\ UNCHANGED <<truth, odd, rows, files>>

\* ... and a file that was opened is left with nothing of the text, or with a
\* part, before or instead of what another has written meanwhile.
FailToWrite(q) ==
    /\ request[q].pc = "opened"
    /\ \E rest \in {{}, files[Report(q)].texts} :
          \E texts \in {files[Report(q)].texts, rest \cup {q}} :
              files' = [files EXCEPT ![Report(q)].texts = texts]
    /\ Go(q, [pc |-> "failed"])
    /\ UNCHANGED <<truth, odd, rows>>

Next ==
    \E q \in Requests :
        \/ \E sha \in Shas, plan \in Plans, inputs \in Inputs : Measure(q, sha, plan, inputs)
        \/ Commit(q) \/ OpenReport(q) \/ WriteReport(q)
        \/ Fail(q) \/ FailToWrite(q)

Spec == Init /\ [][Next]_vars

-----------------------------------------------------------------------------
File == [texts : SUBSET Requests, last : Requests, sole : BOOLEAN]
Row == [sha : Shas, verdicts : [{"c1", "c2", "c3", "c4", "c5", "c6"} -> BOOLEAN]]

\* Type correctness.
TypeOK ==
    /\ truth \in Series /\ odd \subseteq Nat
    /\ DOMAIN rows \subseteq Requests /\ \A q \in DOMAIN rows : rows[q] \in Row
    /\ DOMAIN files \subseteq Range(ReportOf) /\ \A path \in DOMAIN files : files[path] \in File
    /\ \A q \in Requests :
          CASE request[q].pc = "new" -> q \notin DOMAIN rows
            [] request[q].pc = "measured" -> q \notin DOMAIN rows /\ request[q].sha \in Shas
            [] request[q].pc \in {"committed", "opened"} -> q \in DOMAIN rows
            [] OTHER -> request[q].pc \in {"done", "failed"}

Window(series, k) == {i \in DOMAIN series : i > Len(series) - k}

\* What M2 is for: readings that fell over the whole of the last window to
\* below the watch level raise an alarm, however noisy the series was before;
\* and one that ends on its highest reading, after a window without a fall,
\* raises none of the two codes that speak of a fall, whatever came before.
AlarmsFollowFalls ==
    \A n \in MinReadings .. Len(truth) :
        LET series == SubSeq(truth, 1, n)
            window == Window(series, TrendWindow)
        IN /\ (/\ \A i, j \in window : i < j => series[i] > series[j]
              /\ series[n] < WatchLevel) => Codes(series, odd) # {}
           /\ (/\ \A i, j \in window : i < j => series[i] <= series[j]
              /\ \A i \in 1 .. n : series[i] <= series[n])
                  => Codes(series, odd) \subseteq {"IFOREST_OUTLIER"}

\* A run on record that passes C1 owes it to the detector: it flagged a
\* labelled reading the fixed threshold missed, or kept quiet on an unlabelled
\* one the threshold flagged.  One that passes C2 raised an alarm before every
\* labelled reading below the watch level.
VerdictsHaveAWitness ==
    \A q \in DOMAIN rows :
        LET series == Decayed(truth)
            labels == Labels(Len(truth))
            heard == Timeline(series)
        IN /\ rows[q].verdicts.c1 =>
                 \/ labels \cap (heard \ Baseline(series)) # {}
                 \/ (Baseline(series) \ heard) \ labels # {}
           /\ rows[q].verdicts.c2 =>
                 \E i \in heard : \A j \in labels : series[j] < WatchLevel => i < j

\* Whatever a report file holds is of runs on record, of commits the file is
\* named after, whatever failed between; and a run that was answered 201 is on
\* record and its file is there.  Its report may be gone: another run of that
\* name empties the file, also one that fails to write its own.  But a file is
\* as good as its last writer: one that was alone with it, and was answered
\* 201, left its own report there and nothing else, however many failed there
\* or mixed their texts before.
ReportIsOnRecord ==
    /\ \A path \in DOMAIN files :
          LET file == files[path]
          IN /\ \A q \in file.texts : q \in DOMAIN rows /\ ReportOf[rows[q].sha] = path
             /\ file.sole /\ request[file.last].pc = "done" => file.texts = {file.last}
    /\ \A q \in Requests : request[q].pc = "done" =>
          q \in DOMAIN rows /\ ReportOf[rows[q].sha] \in DOMAIN files
=============================================================================
