------------------------------ MODULE Harness -------------------------------
(***************************************************************************)
(* The Unit 6 evidence scripts: each run starts the application as a child *)
(* process on a port it drew, walks it over HTTP, takes it down and only   *)
(* then writes its transcript and its figures.                             *)
(*                                                                         *)
(* Runs of the three scripts may go on side by side.  They share the ports *)
(* of the machine and the evidence directory; a benchmark appends to a     *)
(* history file and an integration run quotes the benchmark.  A child may  *)
(* exit whenever it likes, stall on the pipe nobody reads while it lives,  *)
(* or ignore SIGTERM; a script may be killed between any two steps.        *)
(***************************************************************************)
EXTENDS Integers, Sequences

CONSTANTS
    Runs,           \* invocations of the scripts
    Ports,          \* loopback ports
    Lineups,        \* which scripts may be run together: functions Runs -> Kinds
    Weeks,          \* what the case data may let POST /plans answer
    HistoryLimit,   \* `limit` of update_p95_history
    Earlier,        \* a run on record before these
    None, Torn      \* nothing; a history that cannot be parsed

Kinds == {"integration", "perf", "usability"}

ASSUME LineupAssumption == Lineups \subseteq [Runs -> Kinds]
ASSUME LimitAssumption == HistoryLimit \in Nat \ {0}
ASSUME WeekAssumption == Weeks \subseteq {"plannable", "infeasible", "unverified"}
ASSUME NamesAssumption ==
    /\ {None, Torn} \cap (Runs \cup {Earlier}) = {} /\ Earlier \notin Runs
    /\ Torn \notin Seq(Runs \cup {Earlier})
    /\ None \notin Ports

\* The walks of the three scripts, in the order they make their requests.
Walk(kind) ==
    CASE kind = "integration" -> <<"load", "plan", "evaluate", "look">>
      [] kind = "perf" -> <<"load", "plan", "measure", "evaluate">>
      [] kind = "usability" -> <<"load", "plan", "look", "unlink", "capture">>

VARIABLES
    week,       \* what the case data lets POST /plans answer
    script,     \* the runs
    port,       \* the port each run drew
    child,      \* the server process each run started
    db,         \* runs that have loaded the case into a database
    evidence,   \* log-unit6-*.txt and unit6-*.json of each script: the runs
                \* whose text is in them
    shot,       \* the full-page screenshot and the panels cut from one
    history,    \* unit6-perf-history.json
    ledger      \* history variable: whose updates that file has seen, and
                \* whether each was made with none under way and none cut short

vars == <<week, script, port, child, db, evidence, shot, history, ledger>>
files == <<evidence, shot, history, ledger>>
machine == <<port, child, db>>

-----------------------------------------------------------------------------
Alive == {"booting", "serving", "stalled"}
Ended == {"done", "failed", "cut"}

\* A stalled server still holds its port.
Bound(p) == {s \in Runs : port[s] = p /\ child[s] \in {"serving", "stalled"}}

\* Who answers a request of this run.
Answering(r) == {s \in Bound(port[r]) : child[s] = "serving"}

\* Mutant: the child inherits the caller's AQUAOPS_DB_URL.
SharedDatabase(r) == CHOOSE s \in Runs : TRUE

\* live_server points each child at a database in its own scratch directory.
Database(r) == r

Doing(r, step) ==
    /\ script[r].pc = "walk"
    /\ script[r].at <= Len(Walk(script[r].kind))
    /\ Walk(script[r].kind)[script[r].at] = step

Whole(r) == script[r].at > Len(Walk(script[r].kind))

Become(r, pc) == script' = [script EXCEPT ![r].pc = pc]

\* A run that is over takes its memory with it.
Leave(r, pc) ==
    script' = [script EXCEPT ![r].pc = pc, ![r].at = IF Whole(r) THEN @ ELSE 1,
                             ![r].by = {}, ![r].fresh = TRUE, ![r].seen = <<>>]

\* The next step, after noting which server, if any, this one talked to, what
\* its first upload found and which benchmark it read.  After the last step the
\* finally clause of live_server sends SIGTERM.
Proceed(r, by, fresh, quote) ==
    script' = [script EXCEPT
        ![r].at = @ + 1, ![r].by = @ \cup by, ![r].fresh = @ /\ fresh, ![r].quote = quote,
        ![r].pc = IF script[r].at = Len(Walk(script[r].kind)) THEN "terminating" ELSE "walk"]

-----------------------------------------------------------------------------
Init ==
    /\ week \in Weeks
    /\ \E kinds \in Lineups :
          script = [r \in Runs |->
            [kind |-> kinds[r], pc |-> "idle", at |-> 1, by |-> {}, fresh |-> TRUE,
             quote |-> None, seen |-> <<>>]]
    /\ port = [r \in Runs |-> None]
    /\ child = [r \in Runs |-> "none"]
    /\ db = [r \in Runs |-> {}]
    /\ evidence = [k \in Kinds |-> [log |-> {}, json |-> {}]]
    /\ shot = [full |-> None, panels |-> None]
    /\ history = <<Earlier>>
    /\ ledger = [order |-> <<Earlier>>, clean |-> TRUE]

\* live_server: a child is started on the port free_port found; the probe has
\* let go of it before the child takes it.
Start(r) ==
    /\ script[r].pc = "idle"
    /\ \E p \in Ports : Bound(p) = {} /\ port' = [port EXCEPT ![r] = p]
    /\ child' = [child EXCEPT ![r] = "booting"]
    /\ Become(r, "health")
    /\ UNCHANGED <<week, db, files>>

\* wait_for_health: 200 from whoever listens on the port.
Healthy(r) ==
    /\ script[r].pc = "health"
    /\ child[r] \in Alive
    /\ \E s \in Answering(r) :
          script' = [script EXCEPT ![r].pc = "walk", ![r].by = @ \cup {s}]
    /\ UNCHANGED <<week, machine, files>>

\* The first uploads: `fresh` is whether the receipt accepts the rows.
Load(r) ==
    /\ Doing(r, "load")
    /\ \E s \in Answering(r) :
          /\ Proceed(r, {s}, db[Database(s)] = {}, None)
          /\ db' = [db EXCEPT ![Database(s)] = @ \cup {r}]
    /\ UNCHANGED <<week, port, child, files>>

\* seed_case reads the stops of whatever POST /plans answers: the benchmark and
\* the review end on a week that cannot be planned, or has no duty to plan.
SeedsOn(kind) == kind # "integration" => week = "plannable"

\* The integration walk turns to the draft path when no rule can be scheduled,
\* and puts a plan that was refused on record as such.
MakePlan(r) ==
    /\ Doing(r, "plan")
    /\ SeedsOn(script[r].kind)
    /\ \E s \in Answering(r) : Proceed(r, {s}, TRUE, script[r].quote)
    /\ UNCHANGED <<week, machine, files>>

\* The latency rounds and the throughput sweep: none of the requests timed is
\* answered by a 5xx.
Measure(r) ==
    /\ Doing(r, "measure")
    /\ \E s \in Answering(r) : Proceed(r, {s}, TRUE, script[r].quote)
    /\ UNCHANGED <<week, machine, files>>

\* The pages are fetched; what they say is noted, not required.
Look(r) ==
    /\ Doing(r, "look")
    /\ \E s \in Answering(r) : Proceed(r, {s}, TRUE, script[r].quote)
    /\ UNCHANGED <<week, machine, files>>

\* benchmarked_p95: the benchmark on file, if it can be read.
Benchmark ==
    IF \E q \in Runs : evidence["perf"].json = {q}
    THEN CHOOSE q \in Runs : evidence["perf"].json = {q} ELSE None

\* POST /eval/run, with the p95 measured (perf) or quoted (integration).
Evaluate(r) ==
    /\ Doing(r, "evaluate")
    /\ \E s \in Answering(r) :
          Proceed(r, {s}, TRUE, IF script[r].kind = "integration" THEN Benchmark ELSE None)
    /\ UNCHANGED <<week, machine, files>>

\* find_chrome finds none: nothing is removed, captured or cut.
NoBrowser(r) ==
    /\ Doing(r, "unlink")
    /\ script' = [script EXCEPT ![r].at = Len(Walk(script[r].kind)) + 1, ![r].pc = "terminating"]
    /\ UNCHANGED <<week, machine, files>>

\* chrome_screenshot: the file is removed before the browser is started.
Unlink(r) ==
    /\ Doing(r, "unlink")
    /\ shot' = [shot EXCEPT !.full = None]
    /\ Proceed(r, {}, TRUE, script[r].quote)
    /\ UNCHANGED <<week, machine, evidence, history, ledger>>

\* panel_crops: panels are cut from whatever file is there, if it shows any
\* gutters; those of an earlier capture stay otherwise.
Panels(full) == IF full = None THEN {shot.panels} ELSE {shot.panels, full}

\* It is captured, or the browser gives up.
Capture(r) ==
    /\ Doing(r, "capture")
    /\ \E full \in {shot.full, r} : \E panels \in Panels(full) :
          shot' = [full |-> full, panels |-> panels]
    /\ Proceed(r, {}, TRUE, script[r].quote)
    /\ UNCHANGED <<week, machine, evidence, history, ledger>>

\* Whatever ends the body early: an answer of 500 or none at all, an answer
\* that is not what the next line reads, a deadline, an interrupt.
Abandon(r) ==
    /\ script[r].pc \in {"health", "walk"}
    /\ Become(r, "terminating")
    /\ UNCHANGED <<week, machine, files>>

\* wait_for_health polls the process: one that exited is reaped.
FindExited(r) ==
    /\ script[r].pc = "health"
    /\ child[r] = "exited"
    /\ child' = [child EXCEPT ![r] = "reaped"]
    /\ Become(r, "terminating")
    /\ UNCHANGED <<week, port, db, files>>

\* Mutant: SIGTERM once more.
TerminateAgain(r) ==
    /\ script[r].pc = "terminating"
    /\ child[r] \in Alive
    /\ UNCHANGED vars

\* wait(timeout=15) raised: SIGKILL.
Kill(r) ==
    /\ script[r].pc = "terminating"
    /\ child[r] \in Alive
    /\ Become(r, "killing")
    /\ UNCHANGED <<week, machine, files>>

\* Mutant: the exception is noted and not raised again.
ReapAndReport(r) ==
    /\ script[r].pc \in {"terminating", "killing"}
    /\ child[r] \in {"exited", "reaped"}
    /\ child' = [child EXCEPT ![r] = "reaped"]
    /\ Become(r, IF script[r].kind = "perf" THEN "measured" ELSE "report")
    /\ db' = [db EXCEPT ![r] = {}]
    /\ UNCHANGED <<week, port, files>>

\* wait returns, the pipe is read to its end and the scratch directory removed.
\* An exception of the body goes on from here, and nothing is written.
Reap(r) ==
    /\ script[r].pc \in {"terminating", "killing"}
    /\ child[r] \in {"exited", "reaped"}
    /\ child' = [child EXCEPT ![r] = "reaped"]
    /\ IF Whole(r) THEN Become(r, IF script[r].kind = "perf" THEN "measured" ELSE "report")
       ELSE Leave(r, "failed")
    /\ db' = [db EXCEPT ![r] = {}]
    /\ UNCHANGED <<week, port, files>>

Updating == {r \in Runs : script[r].pc \in {"appended", "truncated"}}

\* update_p95_history: a file that cannot be parsed counts as empty.
ReadHistory(r) ==
    /\ script[r].pc = "measured"
    /\ script' = [script EXCEPT ![r].pc = "appended",
                      ![r].seen = Append(IF history = Torn THEN <<>> ELSE history, r)]
    /\ ledger' = [ledger EXCEPT !.clean = @ /\ Updating = {}]
    /\ UNCHANGED <<week, machine, evidence, shot, history>>

TruncateHistory(r) ==
    /\ script[r].pc = "appended"
    /\ history' = Torn
    /\ Become(r, "truncated")
    /\ UNCHANGED <<week, machine, evidence, shot, ledger>>

\* Mutant: history[:limit].
First(s, n) == SubSeq(s, 1, IF Len(s) < n THEN Len(s) ELSE n)

\* history[-limit:]
Last(s, n) == SubSeq(s, IF Len(s) < n THEN 1 ELSE Len(s) - n + 1, Len(s))

\* Mutant: the whole of it is written back.
WriteAll(r) ==
    /\ script[r].pc = "truncated"
    /\ history' = script[r].seen
    /\ ledger' = [ledger EXCEPT !.order = Append(@, r)]
    /\ script' = [script EXCEPT ![r].pc = "report", ![r].seen = <<>>]
    /\ UNCHANGED <<week, machine, evidence, shot>>

\* Of what another benchmark wrote since it was truncated the tail may be left,
\* and then it is no JSON.
WriteHistory(r) ==
    /\ script[r].pc = "truncated"
    /\ \/ history' = Last(script[r].seen, HistoryLimit)
       \/ history # Torn /\ history' = Torn
    /\ ledger' = [ledger EXCEPT !.order = Append(@, r)]
    /\ script' = [script EXCEPT ![r].pc = "report", ![r].seen = <<>>]
    /\ UNCHANGED <<week, machine, evidence, shot>>

\* Path.write_text opens a file, which empties it, and writes when it closes it,
\* over what another run wrote meanwhile, of which the tail may be left.
Written(r, texts) == {{r}, texts \cup {r}}

OpenLog(r) ==
    /\ script[r].pc = "report"
    /\ evidence' = [evidence EXCEPT ![script[r].kind].log = {}]
    /\ Become(r, "logging")
    /\ UNCHANGED <<week, machine, shot, history, ledger>>

WriteLog(r) ==
    /\ script[r].pc = "logging"
    /\ \E texts \in Written(r, evidence[script[r].kind].log) :
          evidence' = [evidence EXCEPT ![script[r].kind].log = texts]
    /\ Become(r, "logged")
    /\ UNCHANGED <<week, machine, shot, history, ledger>>

\* The figures, after the transcript.
OpenFigures(r) ==
    /\ script[r].pc = "logged"
    /\ evidence' = [evidence EXCEPT ![script[r].kind].json = {}]
    /\ Become(r, "drawing")
    /\ UNCHANGED <<week, machine, shot, history, ledger>>

WriteFigures(r) ==
    /\ script[r].pc = "drawing"
    /\ \E texts \in Written(r, evidence[script[r].kind].json) :
          evidence' = [evidence EXCEPT ![script[r].kind].json = texts]
    /\ Leave(r, "done")
    /\ UNCHANGED <<week, machine, shot, history, ledger>>

\* External: the application comes up and takes the port, or finds it taken
\* and exits.
Bind(r) ==
    /\ child[r] = "booting"
    /\ child' = [child EXCEPT ![r] = IF Bound(port[r]) = {} THEN "serving" ELSE "exited"]
    /\ UNCHANGED <<week, script, port, db, files>>

\* External: it exits, told to or not.
Exit(r) ==
    /\ child[r] \in {"booting", "serving"}
    /\ child' = [child EXCEPT ![r] = "exited"]
    /\ UNCHANGED <<week, script, port, db, files>>

\* External: the pipe is full; it answers nobody and does not see SIGTERM.
Stall(r) ==
    /\ child[r] = "serving"
    /\ script[r].pc # "cut"
    /\ child' = [child EXCEPT ![r] = "stalled"]
    /\ UNCHANGED <<week, script, port, db, files>>

\* External: SIGKILL.
Die(r) ==
    /\ script[r].pc = "killing"
    /\ child[r] \in Alive
    /\ child' = [child EXCEPT ![r] = "exited"]
    /\ UNCHANGED <<week, script, port, db, files>>

\* External: the script is killed, or interrupted in its finally clause.  With
\* the reader of its pipe gone, a server stalls no longer.
Cut(r) ==
    /\ script[r].pc \notin Ended \cup {"idle"}
    /\ child' = [child EXCEPT ![r] = IF @ = "stalled" THEN "serving" ELSE @]
    /\ ledger' = [ledger EXCEPT !.clean = @ /\ script[r].pc # "truncated"]
    /\ Leave(r, "cut")
    /\ UNCHANGED <<week, port, db, evidence, shot, history>>

-----------------------------------------------------------------------------
Request(r) ==
    \/ Load(r) \/ MakePlan(r) \/ Measure(r) \/ Look(r) \/ Evaluate(r)
    \/ NoBrowser(r) \/ Unlink(r) \/ Capture(r)

Teardown(r) == Kill(r) \/ Reap(r)

Report(r) ==
    \/ ReadHistory(r) \/ TruncateHistory(r) \/ WriteHistory(r)
    \/ OpenLog(r) \/ WriteLog(r) \/ OpenFigures(r) \/ WriteFigures(r)

\* What a script does by itself: every request of it has a timeout.
Advance(r) ==
    \/ Healthy(r) \/ FindExited(r) \/ Request(r) \/ Abandon(r)
    \/ Teardown(r) \/ Report(r)

Next ==
    \E r \in Runs :
        \/ Start(r) \/ Advance(r)
        \/ Bind(r) \/ Exit(r) \/ Stall(r) \/ Die(r) \/ Cut(r)

\* A script goes on, and a process that was sent SIGKILL ends.
Fairness == \A r \in Runs : WF_vars(Advance(r)) /\ WF_vars(Die(r))

Spec == Init /\ [][Next]_vars /\ Fairness

-----------------------------------------------------------------------------
Pcs == {"idle", "health", "walk", "terminating", "killing", "measured",
        "appended", "truncated", "report", "logging", "logged", "drawing"} \cup Ended

\* Type correctness.
TypeOK ==
    /\ week \in Weeks
    /\ \A r \in Runs :
          /\ script[r].kind \in Kinds /\ script[r].pc \in Pcs
          /\ script[r].at \in 1 .. Len(Walk(script[r].kind)) + 1
          /\ script[r].by \subseteq Runs /\ script[r].fresh \in BOOLEAN
          /\ script[r].quote \in Runs \cup {None}
          /\ script[r].pc = "idle" <=> port[r] = None
          /\ script[r].pc = "idle" <=> child[r] = "none"
    /\ port \in [Runs -> Ports \cup {None}]
    /\ child \in [Runs -> Alive \cup {"none", "exited", "reaped"}]
    /\ db \in [Runs -> SUBSET Runs]
    /\ \A k \in Kinds : evidence[k].log \subseteq Runs /\ evidence[k].json \subseteq Runs
    /\ shot \in [full : Runs \cup {None}, panels : Runs \cup {None}]
    /\ history # Torn => Len(history) <= HistoryLimit

\* live_server: a server that was started is taken down, whatever its script
\* ran into and however little the server itself cooperates; only a script
\* that was killed leaves it behind.
TearsDown ==
    \A r \in Runs : script[r].pc = "health" ~>
        script[r].pc = "cut" \/ (script[r].pc \in Ended /\ child[r] = "reaped")

\* The harness promises hermetic runs.  The promise holds for a run whose port
\* no other run has drawn: every answer comes from its own server, and its
\* first upload finds no readings there.
HermeticUnlessPortIsShared ==
    \A r \in Runs :
        (\A s \in Runs \ {r} : port[s] # port[r]) =>
            script[r].by \subseteq {r} /\ script[r].fresh

\* Whatever text is on file under a script's names, or quoted from there, is of
\* a run of that script that went through its whole walk and whose server was
\* gone when it wrote, also if a file was cut short or two runs wrote it at once;
\* a benchmark or a review is never of a week that was not planned.
EvidenceIsOfAWholeRun ==
    LET Sound(r, k) ==
          /\ script[r].kind = k /\ Whole(r) /\ child[r] = "reaped"
          /\ SeedsOn(k)
    IN /\ \A k \in Kinds : \A r \in evidence[k].log \cup evidence[k].json : Sound(r, k)
       /\ \A r \in Runs : LET q == script[r].quote IN
             script[r].kind = "integration" /\ q # None => Sound(q, "perf")

\* While benchmarks update the history one after the other, and none is killed
\* half-way, it holds the latest of them, none missing and in order.
HistoryKept ==
    ledger.clean /\ Updating = {} =>
        LET n == Len(history)
            all == Len(ledger.order)
        IN /\ n = IF all < HistoryLimit THEN all ELSE HistoryLimit
           /\ \A i \in 1 .. n : history[i] = ledger.order[all - n + i]
=============================================================================
