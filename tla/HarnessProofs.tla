---------------------------- MODULE HarnessProofs ----------------------------
(***************************************************************************)
(* Proofs about Harness, for any number of runs, any ports and any limit   *)
(* of the history: the types, hermetic runs, evidence of whole runs and    *)
(* what the history keeps.                                                 *)
(***************************************************************************)
EXTENDS Harness, SequenceTheorems, TLAPS

-----------------------------------------------------------------------------
(* Scripts.                                                                *)

Script == [kind : Kinds, pc : Pcs, at : Nat, by : SUBSET Runs, fresh : BOOLEAN,
           quote : Runs \cup {None}, seen : Seq(Runs \cup {Earlier})]

\* Each walk makes its uploads first, then asks for the plan, and only then
\* anything else.
LEMMA Walks ==
  ASSUME NEW kind \in Kinds
  PROVE  /\ Len(Walk(kind)) \in Nat /\ Len(Walk(kind)) > 2
         /\ Walk(kind)[1] = "load" /\ Walk(kind)[2] = "plan"
         /\ \A i \in 1 .. Len(Walk(kind)) : /\ Walk(kind)[i] = "load" => i = 1
                                            /\ Walk(kind)[i] = "plan" => i = 2
<1>1. CASE kind = "integration"
  BY <1>1 DEF Walk
<1>2. CASE kind = "perf"
  BY <1>2 DEF Walk
<1>3. CASE kind = "usability"
  BY <1>3 DEF Walk
<1> QED BY <1>1, <1>2, <1>3 DEF Kinds

\* What Become, Leave and Proceed change of a script, field by field.
LEMMA BecomeDoes ==
  ASSUME script \in [Runs -> Script], NEW r \in Runs, NEW pc \in Pcs, Become(r, pc)
  PROVE  /\ script' \in [Runs -> Script]
         /\ \A s \in Runs \ {r} : script'[s] = script[s]
         /\ script'[r].pc = pc
         /\ script'[r].kind = script[r].kind /\ script'[r].at = script[r].at
         /\ script'[r].by = script[r].by /\ script'[r].fresh = script[r].fresh
         /\ script'[r].quote = script[r].quote /\ script'[r].seen = script[r].seen
<1>1. PICK n : n = [script[r] EXCEPT !.pc = pc]
  OBVIOUS
<1>2. script[r] \in Script /\ script' = [script EXCEPT ![r] = n]
  BY <1>1 DEF Become
<1>3. /\ n \in Script /\ n.pc = pc
      /\ n.kind = script[r].kind /\ n.at = script[r].at /\ n.by = script[r].by
      /\ n.fresh = script[r].fresh /\ n.quote = script[r].quote /\ n.seen = script[r].seen
  BY <1>1, <1>2 DEF Script
<1>4. script'[r] = n /\ script' \in [Runs -> Script]
  BY <1>2, <1>3
<1> QED BY <1>2, <1>3, <1>4

LEMMA LeaveDoes ==
  ASSUME script \in [Runs -> Script], NEW r \in Runs, NEW pc \in Pcs, Leave(r, pc)
  PROVE  /\ script' \in [Runs -> Script]
         /\ \A s \in Runs \ {r} : script'[s] = script[s]
         /\ script'[r].pc = pc
         /\ script'[r].kind = script[r].kind
         /\ script'[r].at = IF Whole(r) THEN script[r].at ELSE 1
         /\ script'[r].by = {} /\ script'[r].fresh = TRUE
         /\ script'[r].quote = script[r].quote
<1>1. PICK at \in Nat : at = IF Whole(r) THEN script[r].at ELSE 1
  BY DEF Script
<1>2. PICK fresh \in BOOLEAN : fresh = TRUE
  OBVIOUS
<1>3. PICK seen \in Seq(Runs \cup {Earlier}) : seen = <<>>
  <2>1. <<>> \in Seq(Runs \cup {Earlier})
    OBVIOUS
  <2> QED BY <2>1, Zenon
<1>4. PICK quote \in Runs \cup {None} : quote = script[r].quote
  BY DEF Script
<1> DEFINE Y == [script[r] EXCEPT !.at = at, !.by = {}, !.fresh = fresh, !.quote = quote,
                                  !.pc = pc, !.seen = seen]
<1>0. PICK y : y = Y
  OBVIOUS
<1>5. /\ y \in Script
      /\ y.kind = script[r].kind /\ y.pc = pc /\ y.at = at /\ y.by = {} /\ y.fresh = fresh
      /\ y.quote = quote
  <2>1. PICK x \in Script : x = script[r]
    OBVIOUS
  <2>2. y = [x EXCEPT !.at = at, !.by = {}, !.fresh = fresh, !.quote = quote,
                      !.pc = pc, !.seen = seen]
    BY <1>0, <2>1
  <2>3. y = [kind |-> x.kind, pc |-> pc, at |-> at, by |-> {}, fresh |-> fresh,
             quote |-> quote, seen |-> seen]
    BY <2>2 DEF Script
  <2>4. /\ y \in Script
        /\ y.kind = x.kind /\ y.pc = pc /\ y.at = at /\ y.by = {} /\ y.fresh = fresh
        /\ y.quote = quote
    BY <2>3 DEF Script
  <2> QED BY <2>1, <2>4
<1>6. script' = [script EXCEPT ![r] = y]
  <2>1. script' = [script EXCEPT ![r].pc = pc, ![r].at = at, ![r].by = {}, ![r].fresh = fresh,
                                 ![r].seen = seen]
    BY <1>1, <1>2, <1>3, Zenon DEF Leave
  <2>2. script'[r] = y
    <3>1. script'[r] = [script[r] EXCEPT !.pc = pc, !.at = at, !.by = {}, !.fresh = fresh,
                                         !.seen = seen]
      BY <2>1
    <3> QED BY <1>0, <1>4, <3>1 DEF Script
  <2> QED BY <2>1, <2>2
<1>7. script' \in [Runs -> Script] /\ script'[r] = y /\ \A s \in Runs \ {r} : script'[s] = script[s]
  BY <1>5, <1>6
<1> QED BY <1>1, <1>2, <1>4, <1>5, <1>7, Zenon
LEMMA ProceedDoes ==
  ASSUME script \in [Runs -> Script], NEW r \in Runs, NEW by \in SUBSET Runs,
         NEW fresh \in BOOLEAN, NEW quote \in Runs \cup {None}, Proceed(r, by, fresh, quote)
  PROVE  /\ script' \in [Runs -> Script]
         /\ \A s \in Runs \ {r} : script'[s] = script[s]
         /\ script'[r].pc \in {"walk", "terminating"}
         /\ script'[r].pc = "walk" => script[r].at # Len(Walk(script[r].kind))
         /\ script'[r].kind = script[r].kind /\ script'[r].at = script[r].at + 1
         /\ script'[r].by = script[r].by \cup by
         /\ script'[r].fresh = (script[r].fresh /\ fresh)
         /\ script'[r].quote = quote
<1>1. PICK pc \in {"walk", "terminating"} :
         pc = IF script[r].at = Len(Walk(script[r].kind)) THEN "terminating" ELSE "walk"
  OBVIOUS
<1>2. PICK f \in BOOLEAN : f = (script[r].fresh /\ fresh)
  BY Zenon
<1>3. PICK at \in Nat : at = script[r].at + 1
  BY DEF Script
<1>4. PICK all \in SUBSET Runs : all = script[r].by \cup by
  BY DEF Script
<1>5. PICK y : y = [script[r] EXCEPT !.at = at, !.by = all, !.fresh = f, !.quote = quote, !.pc = pc]
  OBVIOUS
<1>6. /\ y \in Script
      /\ y.kind = script[r].kind /\ y.pc = pc /\ y.at = at /\ y.by = all /\ y.fresh = f
      /\ y.quote = quote
  <2>1. PICK x \in Script : x = script[r]
    OBVIOUS
  <2>2. y = [x EXCEPT !.at = at, !.by = all, !.fresh = f, !.quote = quote, !.pc = pc]
    BY <1>5, <2>1
  <2>3. y = [kind |-> x.kind, pc |-> pc, at |-> at, by |-> all, fresh |-> f,
             quote |-> quote, seen |-> x.seen]
    BY <2>2 DEF Script
  <2>4. pc \in Pcs
    BY DEF Pcs
  <2>5. /\ y \in Script
        /\ y.kind = x.kind /\ y.pc = pc /\ y.at = at /\ y.by = all /\ y.fresh = f
        /\ y.quote = quote
    BY <2>3, <2>4 DEF Script
  <2> QED BY <2>1, <2>5
<1>7. script' = [script EXCEPT ![r] = y]
  <2>1. script' = [script EXCEPT ![r].at = at, ![r].by = all, ![r].fresh = f,
                                 ![r].quote = quote, ![r].pc = pc]
    BY <1>1, <1>2, <1>3, <1>4, Zenon DEF Proceed
  <2>2. script'[r] = y
    BY <1>5, <2>1
  <2> QED BY <2>1, <2>2
<1>8. script' \in [Runs -> Script] /\ script'[r] = y /\ \A s \in Runs \ {r} : script'[s] = script[s]
  BY <1>6, <1>7
<1>9. pc = "walk" => script[r].at # Len(Walk(script[r].kind))
  BY <1>1
<1> QED BY <1>2, <1>3, <1>4, <1>6, <1>8, <1>9, Zenon
-----------------------------------------------------------------------------
(* The types, and what a step of a run does to its script.                 *)

Children == Alive \cup {"none", "exited", "reaped"}
Entries == Runs \cup {Earlier}

Types ==
    /\ week \in Weeks
    /\ script \in [Runs -> Script]
    /\ \A r \in Runs :
          /\ script[r].at \in 1 .. Len(Walk(script[r].kind)) + 1
          /\ script[r].pc = "idle" <=> port[r] = None
          /\ script[r].pc = "idle" <=> child[r] = "none"
    /\ port \in [Runs -> Ports \cup {None}]
    /\ child \in [Runs -> Children]
    /\ db \in [Runs -> SUBSET Runs]
    /\ evidence \in [Kinds -> [log : SUBSET Runs, json : SUBSET Runs]]
    /\ shot \in [full : Runs \cup {None}, panels : Runs \cup {None}]
    /\ history = Torn \/ (history \in Seq(Entries) /\ Len(history) <= HistoryLimit)

\* From here on a run's walk is behind it and its server gone.
Writing == {"report", "logging", "logged", "drawing"}
Reporting == {"measured", "appended", "truncated", "report", "logging", "logged", "drawing",
              "done"}

\* Before the first upload.
Early(r) == script[r].pc = "health" \/ (script[r].pc = "walk" /\ script[r].at = 1)

\* What a step of run r does to the scripts.
Moved(r) ==
    /\ script' \in [Runs -> Script]
    /\ \A s \in Runs \ {r} : script'[s] = script[s]
    /\ script'[r].pc # "idle"
    /\ script'[r].kind = script[r].kind
    /\ script'[r].at \in 1 .. Len(Walk(script[r].kind)) + 1
    /\ Whole(r) => script'[r].at = script[r].at
    /\ script'[r].at > 2 => script[r].at > 2 \/ SeedsOn(script[r].kind)
    /\ script'[r].pc \in Reporting =>
          script[r].pc \in Reporting \/ (Whole(r) /\ child'[r] = "reaped")
    /\ script'[r].by \subseteq script[r].by \cup Answering(r)
    /\ script[r].fresh = TRUE /\ (Doing(r, "load") => \A s \in Answering(r) : db[s] = {})
          => script'[r].fresh = TRUE
    /\ Early(r)' => /\ db' = db
                    /\ script[r].pc = "idle" \/ Early(r)
    /\ script'[r].pc = "health" => script'[r].at = script[r].at
    /\ script'[r].kind = "integration" /\ script'[r].quote # None =>
          script'[r].quote = script[r].quote \/ script'[r].quote = Benchmark

LEMMA AnsweringRuns == \A r \in Runs : Answering(r) \subseteq Runs
  BY DEF Answering, Bound

LEMMA MovedByBecome ==
  ASSUME Types, NEW r \in Runs, NEW pc \in Pcs \ {"idle", "walk"}, Become(r, pc),
         pc = "health" => script[r].pc = "idle" /\ db' = db,
         pc \in Reporting => script[r].pc \in Reporting \/ (Whole(r) /\ child'[r] = "reaped")
  PROVE  Moved(r)
<1>1. script \in [Runs -> Script] /\ script[r].at \in 1 .. Len(Walk(script[r].kind)) + 1
  BY DEF Types
<1>2. /\ script' \in [Runs -> Script]
      /\ \A s \in Runs \ {r} : script'[s] = script[s]
      /\ script'[r].pc = pc
      /\ script'[r].kind = script[r].kind /\ script'[r].at = script[r].at
      /\ script'[r].by = script[r].by /\ script'[r].fresh = script[r].fresh
      /\ script'[r].quote = script[r].quote
  BY <1>1, BecomeDoes
<1>3. Early(r)' => pc = "health"
  BY <1>2 DEF Early
<1> QED BY <1>1, <1>2, <1>3 DEF Moved

LEMMA MovedByLeave ==
  ASSUME Types, NEW r \in Runs, NEW pc \in Ended, Leave(r, pc), 
         pc = "done" => script[r].pc \in Reporting
  PROVE  Moved(r)
<1>1. script \in [Runs -> Script] /\ script[r].at \in 1 .. Len(Walk(script[r].kind)) + 1
  BY DEF Types
<1>2. pc \in Pcs
  BY DEF Pcs
<1>3. /\ script' \in [Runs -> Script]
      /\ \A s \in Runs \ {r} : script'[s] = script[s]
      /\ script'[r].pc = pc
      /\ script'[r].kind = script[r].kind
      /\ script'[r].at = IF Whole(r) THEN script[r].at ELSE 1
      /\ script'[r].by = {} /\ script'[r].fresh = TRUE
      /\ script'[r].quote = script[r].quote
  BY <1>1, <1>2, LeaveDoes
<1>4. script[r].kind \in Kinds
  BY <1>1 DEF Script
<1>5. script'[r].at \in 1 .. Len(Walk(script[r].kind)) + 1
      /\ (script'[r].at > 2 => script[r].at > 2) /\ (Whole(r) => script'[r].at = script[r].at)
  BY <1>1, <1>3, <1>4, Walks
<1>6. ~Early(r)' /\ pc # "idle" /\ pc # "health" /\ (pc \in Reporting => script[r].pc \in Reporting)
  BY <1>3 DEF Early, Ended, Reporting
<1> QED BY <1>3, <1>5, <1>6 DEF Moved

LEMMA MovedByProceed ==
  ASSUME Types, NEW r \in Runs, NEW step, Doing(r, step),
         NEW by \in SUBSET Answering(r), NEW fresh \in BOOLEAN,
         NEW quote \in Runs \cup {None}, Proceed(r, by, fresh, quote),
         step # "load" \/ (\A s \in Answering(r) : db[s] = {}) => fresh = TRUE,
         step = "plan" => SeedsOn(script[r].kind),
         script[r].kind = "integration" /\ quote # None =>
             quote = script[r].quote \/ quote = Benchmark
  PROVE  Moved(r)
<1>1. /\ script \in [Runs -> Script] /\ script[r].at \in 1 .. Len(Walk(script[r].kind)) + 1
      /\ script[r].kind \in Kinds
  BY DEF Types, Script
<1>2. by \in SUBSET Runs
  BY AnsweringRuns
<1>3. /\ script' \in [Runs -> Script]
      /\ \A s \in Runs \ {r} : script'[s] = script[s]
      /\ script'[r].pc \in {"walk", "terminating"}
      /\ script'[r].kind = script[r].kind /\ script'[r].at = script[r].at + 1
      /\ script'[r].by = script[r].by \cup by
      /\ script'[r].fresh = (script[r].fresh /\ fresh)
      /\ script'[r].quote = quote
  BY <1>1, <1>2, ProceedDoes
<1>4. /\ script[r].at \in 1 .. Len(Walk(script[r].kind)) /\ Walk(script[r].kind)[script[r].at] = step
      /\ ~Whole(r)
  BY <1>1, Walks DEF Doing, Whole
<1>5. /\ script'[r].at \in 1 .. Len(Walk(script[r].kind)) + 1 /\ script'[r].at # 1
      /\ script'[r].at > 2 => script[r].at > 2 \/ script[r].at = 2
  BY <1>1, <1>3, <1>4, Walks
<1>6. script'[r].at > 2 => script[r].at > 2 \/ SeedsOn(script[r].kind)
  BY <1>1, <1>4, <1>5, Walks
<1>7. ASSUME script[r].fresh = TRUE, Doing(r, "load") => \A s \in Answering(r) : db[s] = {}
      PROVE  script'[r].fresh = TRUE
  <2>1. step # "load" \/ \A s \in Answering(r) : db[s] = {}
    BY <1>7
  <2>2. fresh = TRUE
    BY <2>1
  <2> QED BY <1>3, <1>7, <2>2, Zenon
<1>8. ~Early(r)'
  BY <1>3, <1>5 DEF Early
<1> QED BY <1>3, <1>4, <1>5, <1>6, <1>7, <1>8 DEF Moved, Reporting
LEMMA MovedByHealthy == ASSUME Types, NEW r \in Runs, Healthy(r) PROVE Moved(r)
<1>1. PICK s \in Answering(r) : script' = [script EXCEPT ![r].pc = "walk", ![r].by = @ \cup {s}]
  BY DEF Healthy
<1>2. /\ script \in [Runs -> Script] /\ script[r].at \in 1 .. Len(Walk(script[r].kind)) + 1
      /\ script[r].pc = "health" /\ db' = db /\ s \in Runs
  BY AnsweringRuns DEF Types, Healthy, machine
<1>3. /\ script' \in [Runs -> Script]
      /\ \A q \in Runs \ {r} : script'[q] = script[q]
      /\ script'[r].pc = "walk" /\ script'[r].by = script[r].by \cup {s}
      /\ script'[r].kind = script[r].kind /\ script'[r].at = script[r].at
      /\ script'[r].fresh = script[r].fresh /\ script'[r].quote = script[r].quote
  <2>1. PICK all \in SUBSET Runs : all = script[r].by \cup {s}
    BY <1>2 DEF Script
  <2>2. PICK y : y = [script[r] EXCEPT !.pc = "walk", !.by = all]
    OBVIOUS
  <2>3. PICK x \in Script : x = script[r]
    BY <1>2
  <2>4. y = [kind |-> x.kind, pc |-> "walk", at |-> x.at, by |-> all, fresh |-> x.fresh,
             quote |-> x.quote, seen |-> x.seen]
    BY <2>2, <2>3 DEF Script
  <2>5. /\ y \in Script /\ y.pc = "walk" /\ y.by = all /\ y.kind = x.kind /\ y.at = x.at
        /\ y.fresh = x.fresh /\ y.quote = x.quote
    BY <2>4 DEF Script, Pcs
  <2>6. script' = [script EXCEPT ![r] = y]
    BY <1>1, <1>2, <2>1, <2>2
  <2> QED BY <1>2, <2>1, <2>3, <2>5, <2>6
<1> QED BY <1>2, <1>3 DEF Moved, Early, Reporting

\* The two steps of update_p95_history that keep what they read or forget it.
LEMMA MovedByHistory ==
  ASSUME Types, NEW r \in Runs, ReadHistory(r) \/ WriteHistory(r)
  PROVE  Moved(r)
<1>1. PICK pc \in {"appended", "report"}, seen \in Seq(Entries) :
         script' = [script EXCEPT ![r].pc = pc, ![r].seen = seen]
  <2>1. <<>> \in Seq(Entries) /\ Append(<<>>, r) \in Seq(Entries)
    BY DEF Entries
  <2>2. history # Torn => Append(history, r) \in Seq(Entries)
    BY DEF Types, Entries
  <2> QED BY <2>1, <2>2 DEF ReadHistory, WriteHistory
<1>2. /\ script \in [Runs -> Script] /\ script[r].at \in 1 .. Len(Walk(script[r].kind)) + 1
      /\ script[r].pc \in Reporting
  BY DEF Types, ReadHistory, WriteHistory, Reporting
<1>3. /\ script' \in [Runs -> Script]
      /\ \A q \in Runs \ {r} : script'[q] = script[q]
      /\ script'[r].pc = pc /\ script'[r].by = script[r].by
      /\ script'[r].kind = script[r].kind /\ script'[r].at = script[r].at
      /\ script'[r].fresh = script[r].fresh /\ script'[r].quote = script[r].quote
  <2>1. PICK y : y = [script[r] EXCEPT !.pc = pc, !.seen = seen]
    OBVIOUS
  <2>2. PICK x \in Script : x = script[r]
    BY <1>2
  <2>3. y = [kind |-> x.kind, pc |-> pc, at |-> x.at, by |-> x.by, fresh |-> x.fresh,
             quote |-> x.quote, seen |-> seen]
    BY <2>1, <2>2 DEF Script
  <2>4. /\ y \in Script /\ y.pc = pc /\ y.by = x.by /\ y.kind = x.kind /\ y.at = x.at
        /\ y.fresh = x.fresh /\ y.quote = x.quote
    BY <2>3 DEF Script, Pcs, Entries
  <2>5. script' = [script EXCEPT ![r] = y]
    BY <1>1, <1>2, <2>1
  <2> QED BY <1>2, <2>2, <2>4, <2>5
<1>4. ~Early(r)'
  BY <1>3 DEF Early
<1> QED BY <1>2, <1>3, <1>4 DEF Moved

\* The benchmark that is quoted is the one whose text the file is.
LEMMA BenchmarkIs ==
  Benchmark = None \/ (Benchmark \in Runs /\ Benchmark \in evidence["perf"].json)
<1>1. CASE \E q \in Runs : evidence["perf"].json = {q}
  <2>1. Benchmark = CHOOSE q \in Runs : evidence["perf"].json = {q}
    BY <1>1 DEF Benchmark
  <2>2. Benchmark \in Runs /\ evidence["perf"].json = {Benchmark}
    BY <1>1, <2>1
  <2> QED BY <2>2
<1>2. CASE ~\E q \in Runs : evidence["perf"].json = {q}
  BY <1>2 DEF Benchmark
<1> QED BY <1>1, <1>2

\* Without a browser the walk is over.
LEMMA MovedByNoBrowser == ASSUME Types, NEW r \in Runs, NoBrowser(r) PROVE Moved(r)
<1>1. /\ script \in [Runs -> Script] /\ script[r].at \in 1 .. Len(Walk(script[r].kind)) + 1
      /\ script[r].kind \in Kinds
  BY DEF Types, Script
<1>2. PICK at \in Nat : at = Len(Walk(script[r].kind)) + 1
  BY <1>1, Walks
<1>3. /\ script' \in [Runs -> Script]
      /\ \A q \in Runs \ {r} : script'[q] = script[q]
      /\ script'[r].pc = "terminating" /\ script'[r].by = script[r].by
      /\ script'[r].kind = script[r].kind /\ script'[r].at = at
      /\ script'[r].fresh = script[r].fresh /\ script'[r].quote = script[r].quote
  <2>1. PICK y : y = [script[r] EXCEPT !.at = at, !.pc = "terminating"]
    OBVIOUS
  <2>2. PICK x \in Script : x = script[r]
    BY <1>1
  <2>3. y = [kind |-> x.kind, pc |-> "terminating", at |-> at, by |-> x.by, fresh |-> x.fresh,
             quote |-> x.quote, seen |-> x.seen]
    BY <2>1, <2>2 DEF Script
  <2>4. /\ y \in Script /\ y.pc = "terminating" /\ y.by = x.by /\ y.kind = x.kind /\ y.at = at
        /\ y.fresh = x.fresh /\ y.quote = x.quote
    BY <2>3 DEF Script, Pcs
  <2>5. script' = [script EXCEPT ![r] = y]
    BY <1>2, <2>1 DEF NoBrowser
  <2> QED BY <1>1, <2>2, <2>4, <2>5
<1>4. ~Whole(r) /\ script[r].at > 2
  <2>1. /\ script[r].at \in 1 .. Len(Walk(script[r].kind))
        /\ Walk(script[r].kind)[script[r].at] = "unlink"
    BY <1>1, Walks DEF NoBrowser, Doing
  <2> QED BY <1>1, <2>1, Walks DEF Whole
<1>5. script'[r].at \in 1 .. Len(Walk(script[r].kind)) + 1
  BY <1>1, <1>2, <1>3, Walks
<1>6. ~Early(r)'
  BY <1>3 DEF Early
<1> QED BY <1>3, <1>4, <1>5, <1>6 DEF Moved, Reporting, Writing

LEMMA MovedByRequest == ASSUME Types, NEW r \in Runs, Request(r) PROVE Moved(r)
<1>1. /\ script \in [Runs -> Script] /\ script[r].quote \in Runs \cup {None}
      /\ Benchmark \in Runs \cup {None}
  BY BenchmarkIs DEF Types, Script
<1>2. CASE Load(r)
  <2>1. PICK s \in Answering(r) : Proceed(r, {s}, db[Database(s)] = {}, None)
    BY <1>2 DEF Load
  <2>2. PICK fresh \in BOOLEAN : fresh = (db[Database(s)] = {})
    BY Zenon
  <2>3. (\A q \in Answering(r) : db[q] = {}) => fresh = TRUE
    BY <2>2 DEF Database
  <2>4. Doing(r, "load") /\ {s} \in SUBSET Answering(r) /\ None \in Runs \cup {None}
    BY <1>2 DEF Load
  <2>5. Proceed(r, {s}, fresh, None)
    BY <2>1, <2>2, Zenon
  <2>6. ASSUME NEW by \in SUBSET Answering(r), NEW new \in BOOLEAN,
               NEW quote \in Runs \cup {None}, quote = None, Proceed(r, by, new, quote),
               (\A q \in Answering(r) : db[q] = {}) => new = TRUE
        PROVE  Moved(r)
    <3>1. \A step : step = "load" =>
            /\ Doing(r, step)
            /\ step # "load" \/ (\A q \in Answering(r) : db[q] = {}) => new = TRUE
            /\ step = "plan" => SeedsOn(script[r].kind)
      BY <2>4, <2>6
    <3>2. PICK step : step = "load"
      OBVIOUS
    <3> QED BY <2>6, <3>1, <3>2, MovedByProceed
  <2> QED BY <2>3, <2>4, <2>5, <2>6
<1>3. ASSUME NEW step \in {"plan", "measure", "look", "unlink", "capture", "evaluate"},
             Doing(r, step), NEW by \in SUBSET Answering(r),
             NEW quote \in Runs \cup {None}, Proceed(r, by, TRUE, quote),
             step = "plan" => SeedsOn(script[r].kind),
             script[r].kind = "integration" /\ quote # None =>
                 quote = script[r].quote \/ quote = Benchmark
      PROVE  Moved(r)
  BY <1>3, MovedByProceed
<1>4. CASE MakePlan(r) \/ Measure(r) \/ Look(r)
  <2>1. PICK s \in Answering(r) : Proceed(r, {s}, TRUE, script[r].quote)
    BY <1>4 DEF MakePlan, Measure, Look
  <2>2. PICK step \in {"plan", "measure", "look"} :
            Doing(r, step) /\ (step = "plan" => SeedsOn(script[r].kind))
    BY <1>4 DEF MakePlan, Measure, Look
  <2>3. {s} \in SUBSET Answering(r)
    OBVIOUS
  <2> QED BY <1>1, <1>3, <2>1, <2>2, <2>3
<1>5. CASE Unlink(r) \/ Capture(r)
  <2>1. Proceed(r, {}, TRUE, script[r].quote) /\ {} \in SUBSET Answering(r)
    BY <1>5 DEF Unlink, Capture
  <2>2. PICK step \in {"unlink", "capture"} : Doing(r, step)
    BY <1>5 DEF Unlink, Capture
  <2> QED BY <1>1, <1>3, <2>1, <2>2
<1>6. CASE Evaluate(r)
  <2>1. PICK s \in Answering(r) :
            Proceed(r, {s}, TRUE, IF script[r].kind = "integration" THEN Benchmark ELSE None)
    BY <1>6 DEF Evaluate
  <2>2. PICK quote \in Runs \cup {None} :
            quote = IF script[r].kind = "integration" THEN Benchmark ELSE None
    BY <1>1
  <2>3. Proceed(r, {s}, TRUE, quote)
    BY <2>1, <2>2, Zenon
  <2>4. Doing(r, "evaluate") /\ {s} \in SUBSET Answering(r)
        /\ (script[r].kind = "integration" => quote = Benchmark)
    BY <1>6, <2>2 DEF Evaluate
  <2> QED BY <1>3, <2>3, <2>4
<1> QED BY <1>2, <1>4, <1>5, <1>6, MovedByNoBrowser DEF Request

RunStep(r) ==
    \/ Start(r) \/ Advance(r)
    \/ Bind(r) \/ Exit(r) \/ Stall(r) \/ Die(r) \/ Cut(r)

LEMMA EveryStepMoves == ASSUME Types, NEW r \in Runs, RunStep(r) PROVE Moved(r)
<1>1. CASE Start(r)
  <2>1. Become(r, "health") /\ script[r].pc = "idle" /\ db' = db
    BY <1>1 DEF Start
  <2> QED BY <2>1, MovedByBecome DEF Pcs, Reporting
<1>2. CASE Abandon(r) \/ FindExited(r)
  <2>1. Become(r, "terminating")
    BY <1>2 DEF Abandon, FindExited
  <2> QED BY <2>1, MovedByBecome DEF Pcs, Reporting
<1>3. CASE Kill(r)
  <2>1. Become(r, "killing")
    BY <1>3 DEF Kill
  <2> QED BY <2>1, MovedByBecome DEF Pcs, Reporting
<1>4. CASE Reap(r)
  <2>1. child' = [child EXCEPT ![r] = "reaped"] /\ child \in [Runs -> Children]
    BY <1>4 DEF Reap, Types
  <2>2. child'[r] = "reaped"
    BY <2>1
  <2>3. CASE Whole(r)
    <3>1. PICK pc \in {"measured", "report"} : Become(r, pc)
      BY <1>4, <2>3 DEF Reap
    <3> QED BY <2>2, <2>3, <3>1, MovedByBecome DEF Pcs, Reporting
  <2>4. CASE ~Whole(r)
    <3>1. Leave(r, "failed")
      BY <1>4, <2>4 DEF Reap
    <3> QED BY <3>1, MovedByLeave DEF Ended
  <2> QED BY <2>3, <2>4
<1>5. CASE TruncateHistory(r) \/ OpenLog(r) \/ WriteLog(r) \/ OpenFigures(r)
  <2>1. PICK pc \in {"truncated", "logging", "logged", "drawing"} : Become(r, pc)
    BY <1>5 DEF TruncateHistory, OpenLog, WriteLog, OpenFigures
  <2>2. script[r].pc \in Reporting
    BY <1>5 DEF TruncateHistory, OpenLog, WriteLog, OpenFigures, Reporting, Writing
  <2> QED BY <2>1, <2>2, MovedByBecome DEF Pcs
<1>6. CASE WriteFigures(r)
  <2>1. Leave(r, "done") /\ script[r].pc \in Reporting
    BY <1>6 DEF WriteFigures, Reporting, Writing
  <2> QED BY <2>1, MovedByLeave DEF Ended
<1>7. CASE Cut(r)
  <2>1. Leave(r, "cut")
    BY <1>7 DEF Cut
  <2> QED BY <2>1, MovedByLeave DEF Ended
<1>8. CASE Bind(r) \/ Exit(r) \/ Stall(r) \/ Die(r)
  <2>1. script' = script /\ child[r] \in Alive /\ db' = db
    BY <1>8 DEF Bind, Exit, Stall, Die, Alive
  <2>2. script[r].pc # "idle" /\ script \in [Runs -> Script]
        /\ script[r].at \in 1 .. Len(Walk(script[r].kind)) + 1
    BY <2>1 DEF Types, Alive
  <2> QED BY <2>1, <2>2 DEF Moved, Early
<1> QED
  BY <1>1, <1>2, <1>3, <1>4, <1>5, <1>6, <1>7, <1>8, MovedByHealthy, MovedByHistory,
     MovedByRequest DEF RunStep, Advance, Teardown, Report

-----------------------------------------------------------------------------
(* Servers, ports and databases.                                           *)

LEMMA MachineStep ==
  ASSUME Types, NEW r \in Runs, RunStep(r)
  PROVE  /\ week' = week
         /\ port' \in [Runs -> Ports \cup {None}]
         /\ child' \in [Runs -> Children]
         /\ db' \in [Runs -> SUBSET Runs]
         /\ \A s \in Runs \ {r} : child'[s] = child[s] /\ port'[s] = port[s]
         /\ child'[r] # "none" /\ port'[r] # None
         /\ script[r].pc # "idle" => port'[r] = port[r]
         /\ child[r] = "reaped" => child'[r] = "reaped"
         /\ \A s \in Runs : db'[s] = db[s] \/ db'[s] = {} \/ s \in Answering(r)
<1>1. /\ port \in [Runs -> Ports \cup {None}] /\ child \in [Runs -> Children]
      /\ db \in [Runs -> SUBSET Runs]
      /\ script[r].pc = "idle" <=> port[r] = None
      /\ script[r].pc = "idle" <=> child[r] = "none"
  BY DEF Types
<1>2. week' = week
  BY DEF RunStep, Start, Advance, Request, Load, MakePlan, Measure, Look, Evaluate, NoBrowser,
         Unlink, Capture, Healthy, FindExited, Abandon, Teardown, Kill, Reap, Report, ReadHistory,
         TruncateHistory, WriteHistory, OpenLog, WriteLog, OpenFigures, WriteFigures, Bind, Exit, Stall, Die, Cut
<1>3. CASE Start(r)
  <2>1. PICK p \in Ports : port' = [port EXCEPT ![r] = p]
    BY <1>3 DEF Start
  <2>2. script[r].pc = "idle" /\ child' = [child EXCEPT ![r] = "booting"] /\ db' = db
    BY <1>3 DEF Start
  <2>3. child[r] = "none"
    BY <1>1, <2>2
  <2> QED BY <1>1, <1>2, <2>1, <2>2, <2>3, NamesAssumption DEF Children, Alive
<1>4. CASE Load(r)
  <2>1. PICK s \in Answering(r) : db' = [db EXCEPT ![Database(s)] = @ \cup {r}]
    BY <1>4 DEF Load
  <2>2. port' = port /\ child' = child /\ script[r].pc = "walk"
    BY <1>4 DEF Load, Doing
  <2>3. s \in Runs
    BY AnsweringRuns
  <2> QED BY <1>1, <1>2, <2>1, <2>2, <2>3 DEF Database
<1>5. ASSUME port' = port, db' = db, script[r].pc # "idle",
             NEW c \in Children \ {"none"}, child' = [child EXCEPT ![r] = c],
             child[r] = "reaped" => c = "reaped"
      PROVE  /\ port' \in [Runs -> Ports \cup {None}]
             /\ child' \in [Runs -> Children]
             /\ db' \in [Runs -> SUBSET Runs]
             /\ \A s \in Runs \ {r} : child'[s] = child[s] /\ port'[s] = port[s]
             /\ child'[r] # "none" /\ port'[r] # None /\ port'[r] = port[r]
             /\ child[r] = "reaped" => child'[r] = "reaped"
             /\ \A s \in Runs : db'[s] = db[s]
  BY <1>1, <1>5
<1>6. CASE UNCHANGED machine /\ script[r].pc # "idle"
  BY <1>1, <1>2, <1>6 DEF machine
<1>7. CASE MakePlan(r) \/ Measure(r) \/ Look(r) \/ Evaluate(r) \/ NoBrowser(r)
           \/ Unlink(r) \/ Capture(r) \/ Healthy(r) \/ Abandon(r) \/ Kill(r) \/ Report(r)
  <2>1. UNCHANGED machine /\ script[r].pc # "idle"
    BY <1>7 DEF MakePlan, Measure, Look, Evaluate, NoBrowser, Unlink, Capture, Healthy, Abandon,
                Kill, Report, ReadHistory, TruncateHistory, WriteHistory, OpenLog, WriteLog,
                OpenFigures, WriteFigures, Doing
  <2> QED BY <1>6, <2>1
<1>8. CASE Reap(r)
  <2>1. /\ child' = [child EXCEPT ![r] = "reaped"] /\ db' = [db EXCEPT ![r] = {}] /\ port' = port
        /\ script[r].pc # "idle"
    BY <1>8 DEF Reap
  <2> QED BY <1>1, <1>2, <2>1 DEF Children
<1>9. CASE FindExited(r) \/ Bind(r) \/ Exit(r) \/ Stall(r) \/ Die(r) \/ Cut(r)
  <2>1. port' = port /\ db' = db /\ script[r].pc # "idle"
    BY <1>1, <1>9 DEF FindExited, Bind, Exit, Stall, Die, Cut, Alive
  <2>2. PICK c \in Children \ {"none"} :
            child' = [child EXCEPT ![r] = c] /\ (child[r] = "reaped" => c = "reaped")
    <3>1. CASE FindExited(r) \/ Exit(r) \/ Stall(r) \/ Die(r)
      BY <3>1 DEF FindExited, Exit, Stall, Die, Children, Alive
    <3>2. CASE Bind(r)
      BY <3>2 DEF Bind, Children, Alive
    <3>3. CASE Cut(r)
      BY <1>1, <2>1, <3>3 DEF Cut, Children, Alive
    <3> QED BY <1>9, <3>1, <3>2, <3>3
  <2> QED BY <1>2, <1>5, <2>1, <2>2
<1> QED BY <1>3, <1>4, <1>7, <1>8, <1>9 DEF RunStep, Advance, Request, Teardown
-----------------------------------------------------------------------------
(* The inductive invariant.                                                *)

\* Where a run that reports has been, and what its walk went past.
Solid(r) ==
    /\ script[r].pc \in Reporting => Whole(r) /\ child[r] = "reaped"
    /\ script[r].at > 2 => SeedsOn(script[r].kind)

SoundRun(r, k) ==
    /\ script[r].kind = k /\ Whole(r) /\ child[r] = "reaped"
    /\ SeedsOn(k)

\* Evidence is of sound runs, and so is what was quoted from it.
OnFile ==
    /\ \A k \in Kinds : \A r \in evidence[k].log \cup evidence[k].json : SoundRun(r, k)
    /\ \A r \in Runs : script[r].kind = "integration" /\ script[r].quote # None =>
          SoundRun(script[r].quote, "perf")

\* A run that has drawn a port of its own is alone with its server, whose
\* database is empty until the run loads it.
Alone(r) == \A s \in Runs \ {r} : port[s] # port[r]

Hermetic(r) ==
    /\ script[r].pc = "idle" => script[r].by = {} /\ script[r].fresh = TRUE /\ db[r] = {}
    /\ script[r].pc \in {"idle", "health"} => script[r].at = 1
    /\ Alone(r) => /\ script[r].by \subseteq {r} /\ script[r].fresh = TRUE
                   /\ Early(r) => db[r] = {}

IndInv ==
    /\ Types
    /\ \A r \in Runs : Solid(r) /\ Hermetic(r)
    /\ OnFile

\* No run has started, and nothing but an earlier benchmark is on file.
LEMMA IndInit == Init => IndInv
<1> SUFFICES ASSUME Init PROVE IndInv
  OBVIOUS
<1>1. PICK kinds \in [Runs -> Kinds] :
         script = [r \in Runs |->
            [kind |-> kinds[r], pc |-> "idle", at |-> 1, by |-> {}, fresh |-> TRUE,
             quote |-> None, seen |-> <<>>]]
  BY LineupAssumption DEF Init
<1>2. ASSUME NEW r \in Runs
      PROVE  /\ script[r] \in Script /\ script[r].kind \in Kinds /\ script[r].pc = "idle"
             /\ script[r].at = 1 /\ script[r].by = {} /\ script[r].fresh = TRUE
             /\ script[r].quote = None
  <2>1. PICK f \in BOOLEAN : f = TRUE
    OBVIOUS
  <2>2. PICK e \in Seq(Runs \cup {Earlier}) : e = <<>>
    <3>1. <<>> \in Seq(Runs \cup {Earlier})
      OBVIOUS
    <3> QED BY <3>1, Zenon
  <2>3. PICK k \in Kinds : k = kinds[r]
    OBVIOUS
  <2>4. PICK x : x = [kind |-> k, pc |-> "idle", at |-> 1, by |-> {}, fresh |-> f,
                      quote |-> None, seen |-> e]
    OBVIOUS
  <2>5. script[r] = x
    BY <1>1, <2>1, <2>2, <2>3, <2>4
  <2>6. /\ x \in Script /\ x.kind = k /\ x.pc = "idle" /\ x.at = 1 /\ x.by = {}
        /\ x.fresh = f /\ x.quote = None
    BY <2>4 DEF Script, Pcs
  <2> QED BY <2>1, <2>5, <2>6
<1>3. script \in [Runs -> Script]
  BY <1>1, <1>2
<1>4. history \in Seq(Entries) /\ Len(history) <= HistoryLimit
  BY LimitAssumption DEF Init, Entries
<1>5. \A r \in Runs : 1 \in 1 .. Len(Walk(script[r].kind)) + 1
  <2> SUFFICES ASSUME NEW r \in Runs PROVE 1 \in 1 .. Len(Walk(script[r].kind)) + 1
    OBVIOUS
  <2>1. script[r].kind \in Kinds
    BY <1>2
  <2> QED BY <2>1, Walks
<1>6. Types
  BY <1>2, <1>3, <1>4, <1>5 DEF Init, Types, Children
<1>7. \A r \in Runs : Solid(r) /\ Hermetic(r)
  <2> SUFFICES ASSUME NEW r \in Runs PROVE Solid(r) /\ Hermetic(r)
    OBVIOUS
  <2>1. script[r].pc = "idle" /\ script[r].at = 1 /\ script[r].by = {} /\ script[r].fresh = TRUE
    BY <1>2
  <2>2. db[r] = {} /\ ~Early(r)
    BY <2>1 DEF Init, Early
  <2>3. Solid(r)
    BY <2>1 DEF Solid, Reporting
  <2>4. Hermetic(r)
    BY <2>1, <2>2 DEF Hermetic
  <2> QED BY <2>3, <2>4
<1>8. OnFile
  BY <1>2, NamesAssumption DEF Init, OnFile
<1> QED BY <1>6, <1>7, <1>8 DEF IndInv

\* The evidence files change at the end of a run only.
LEMMA FilesStep ==
  ASSUME Types, NEW r \in Runs, RunStep(r)
  PROVE  /\ evidence' \in [Kinds -> [log : SUBSET Runs, json : SUBSET Runs]]
         /\ shot' \in [full : Runs \cup {None}, panels : Runs \cup {None}]
         /\ history' = Torn \/ (history' \in Seq(Entries) /\ Len(history') <= HistoryLimit)
         /\ \A k \in Kinds :
               \/ evidence'[k] = evidence[k]
               \/ /\ script[r].pc \in Writing /\ k = script[r].kind
                  /\ evidence'[k].log \subseteq evidence[k].log \cup {r}
                  /\ evidence'[k].json \subseteq evidence[k].json \cup {r}
<1>1. /\ evidence \in [Kinds -> [log : SUBSET Runs, json : SUBSET Runs]]
      /\ shot \in [full : Runs \cup {None}, panels : Runs \cup {None}]
      /\ history = Torn \/ (history \in Seq(Entries) /\ Len(history) <= HistoryLimit)
      /\ script[r].kind \in Kinds /\ script[r].seen \in Seq(Entries)
  BY DEF Types, Script, Entries
<1>2. CASE UNCHANGED <<evidence, shot, history>>
  BY <1>1, <1>2
<1>3. CASE Unlink(r)
  BY <1>1, <1>3 DEF Unlink
<1>4. CASE Capture(r)
  <2>1. PICK full \in {shot.full, r} : \E panels \in Panels(full) :
            shot' = [full |-> full, panels |-> panels]
    BY <1>4 DEF Capture
  <2>2. PICK panels \in Panels(full) : shot' = [full |-> full, panels |-> panels]
    BY <2>1
  <2>3. full \in Runs \cup {None} /\ panels \in Runs \cup {None}
    BY <1>1 DEF Panels
  <2>4. shot' \in [full : Runs \cup {None}, panels : Runs \cup {None}]
    BY <2>2, <2>3
  <2> QED BY <1>1, <1>4, <2>4 DEF Capture
<1>5. CASE TruncateHistory(r)
  BY <1>1, <1>5 DEF TruncateHistory
<1>6. CASE WriteHistory(r)
  <2>1. history' = Last(script[r].seen, HistoryLimit) \/ history' = Torn
    BY <1>6 DEF WriteHistory
  <2>2. ASSUME NEW s \in Seq(Entries)
        PROVE  Last(s, HistoryLimit) \in Seq(Entries) /\ Len(Last(s, HistoryLimit)) <= HistoryLimit
    BY LimitAssumption DEF Last
  <2> QED BY <1>1, <1>6, <2>1, <2>2 DEF WriteHistory
<1>7. CASE OpenLog(r) \/ WriteLog(r)
  <2>1. PICK texts \in SUBSET Runs :
           /\ texts \subseteq evidence[script[r].kind].log \cup {r}
           /\ evidence' = [evidence EXCEPT ![script[r].kind].log = texts]
    <3>1. CASE OpenLog(r)
      BY <3>1 DEF OpenLog
    <3>2. CASE WriteLog(r)
      <4>1. PICK texts \in Written(r, evidence[script[r].kind].log) :
                evidence' = [evidence EXCEPT ![script[r].kind].log = texts]
        BY <3>2 DEF WriteLog
      <4>2. evidence[script[r].kind].log \in SUBSET Runs
        BY <1>1
      <4>3. texts \in SUBSET Runs /\ texts \subseteq evidence[script[r].kind].log \cup {r}
        BY <4>1, <4>2 DEF Written
      <4> QED BY <4>1, <4>3
    <3> QED BY <1>7, <3>1, <3>2
  <2>2. script[r].pc \in Writing /\ shot' = shot /\ history' = history
    BY <1>7 DEF OpenLog, WriteLog, Writing
  <2>3. PICK then : then = [evidence[script[r].kind] EXCEPT !.log = texts]
    OBVIOUS
  <2>4. then.log = texts /\ then.json = evidence[script[r].kind].json
        /\ then \in [log : SUBSET Runs, json : SUBSET Runs]
    BY <1>1, <2>3
  <2>5. evidence' = [evidence EXCEPT ![script[r].kind] = then]
    BY <2>1, <2>3
  <2> QED BY <1>1, <2>1, <2>2, <2>4, <2>5
<1>8. CASE OpenFigures(r) \/ WriteFigures(r)
  <2>1. PICK texts \in SUBSET Runs :
           /\ texts \subseteq evidence[script[r].kind].json \cup {r}
           /\ evidence' = [evidence EXCEPT ![script[r].kind].json = texts]
    <3>1. CASE OpenFigures(r)
      BY <3>1 DEF OpenFigures
    <3>2. CASE WriteFigures(r)
      <4>1. PICK texts \in Written(r, evidence[script[r].kind].json) :
                evidence' = [evidence EXCEPT ![script[r].kind].json = texts]
        BY <3>2 DEF WriteFigures
      <4>2. evidence[script[r].kind].json \in SUBSET Runs
        BY <1>1
      <4>3. texts \in SUBSET Runs /\ texts \subseteq evidence[script[r].kind].json \cup {r}
        BY <4>1, <4>2 DEF Written
      <4> QED BY <4>1, <4>3
    <3> QED BY <1>8, <3>1, <3>2
  <2>2. script[r].pc \in Writing /\ shot' = shot /\ history' = history
    BY <1>8 DEF OpenFigures, WriteFigures, Writing
  <2>3. PICK then : then = [evidence[script[r].kind] EXCEPT !.json = texts]
    OBVIOUS
  <2>4. then.json = texts /\ then.log = evidence[script[r].kind].log
        /\ then \in [log : SUBSET Runs, json : SUBSET Runs]
    BY <1>1, <2>3
  <2>5. evidence' = [evidence EXCEPT ![script[r].kind] = then]
    BY <2>1, <2>3
  <2> QED BY <1>1, <2>1, <2>2, <2>4, <2>5
<1>9. \/ UNCHANGED <<evidence, shot, history>>
      \/ Unlink(r) \/ Capture(r) \/ TruncateHistory(r) \/ WriteHistory(r)
      \/ OpenLog(r) \/ WriteLog(r) \/ OpenFigures(r) \/ WriteFigures(r)
  BY DEF RunStep, Start, Advance, Request, Load, MakePlan, Measure, Look, Evaluate,
         NoBrowser, Healthy, FindExited, Abandon, Teardown, Kill, Reap, Report, ReadHistory,
         Bind, Exit, Stall, Die, Cut, files
<1> QED BY <1>2, <1>3, <1>4, <1>5, <1>6, <1>7, <1>8, <1>9
LEMMA TypesStep == ASSUME Types, NEW r \in Runs, RunStep(r) PROVE Types'
<1>1. Moved(r)
  BY EveryStepMoves
<1>2. ASSUME NEW s \in Runs
      PROVE  /\ script'[s].at \in 1 .. Len(Walk(script'[s].kind)) + 1
             /\ script'[s].pc = "idle" <=> port'[s] = None
             /\ script'[s].pc = "idle" <=> child'[s] = "none"
  <2>1. CASE s = r
    BY <1>1, <2>1, MachineStep DEF Moved
  <2>2. CASE s # r
    <3>1. script'[s] = script[s] /\ child'[s] = child[s] /\ port'[s] = port[s]
      BY <1>1, <2>2, MachineStep DEF Moved
    <3> QED BY <3>1 DEF Types
  <2> QED BY <2>1, <2>2
<1>3. script' \in [Runs -> Script]
  BY <1>1 DEF Moved
<1>4. week \in Weeks
  BY DEF Types
<1> QED BY <1>2, <1>3, <1>4, MachineStep, FilesStep DEF Types

\* Runs that were sound stay sound.
LEMMA SoundStays ==
  ASSUME Types, NEW r \in Runs, RunStep(r), NEW s \in Runs, NEW k, SoundRun(s, k)
  PROVE  SoundRun(s, k)'
<1>1. Moved(r)
  BY EveryStepMoves
<1>2. CASE s = r
  <2>1. script'[s].kind = script[s].kind /\ script'[s].at = script[s].at
    BY <1>1, <1>2 DEF Moved, SoundRun
  <2>2. child'[s] = "reaped" /\ week' = week
    BY <1>2, MachineStep DEF SoundRun
  <2> QED BY <2>1, <2>2 DEF SoundRun, Whole, SeedsOn
<1>3. CASE s # r
  <2>1. script'[s] = script[s] /\ child'[s] = child[s] /\ week' = week
    BY <1>1, <1>3, MachineStep DEF Moved
  <2> QED BY <2>1 DEF SoundRun, Whole, SeedsOn
<1> QED BY <1>2, <1>3

LEMMA SolidStep ==
  ASSUME IndInv, NEW r \in Runs, RunStep(r), NEW s \in Runs
  PROVE  Solid(s)'
<1>1. Moved(r) /\ Types /\ Solid(s)
  BY EveryStepMoves DEF IndInv
<1>2. week' = week
  BY <1>1, MachineStep
<1>3. CASE s = r
  <2>1. script'[s].kind = script[s].kind
    BY <1>1, <1>3 DEF Moved
  <2>2. script'[s].at > 2 => SeedsOn(script[s].kind)
    BY <1>1, <1>3 DEF Moved, Solid
  <2>3. script'[s].pc \in Reporting => Whole(s) /\ child'[s] = "reaped"
    BY <1>1, <1>3, MachineStep DEF Moved, Solid
  <2>4. Whole(s) => Whole(s)'
    BY <1>1, <1>3, <2>1 DEF Moved, Whole
  <2> QED BY <1>2, <2>1, <2>2, <2>3, <2>4 DEF Solid, SeedsOn
<1>4. CASE s # r
  <2>1. script'[s] = script[s] /\ child'[s] = child[s]
    BY <1>1, <1>4, MachineStep DEF Moved
  <2> QED BY <1>1, <1>2, <2>1 DEF Solid, Whole, SeedsOn
<1> QED BY <1>3, <1>4

LEMMA OnFileStep == ASSUME IndInv, NEW r \in Runs, RunStep(r) PROVE OnFile'
<1>1. Moved(r) /\ Types /\ Solid(r) /\ OnFile
  BY EveryStepMoves DEF IndInv
<1>2. /\ script[r].kind \in Kinds
      /\ evidence \in [Kinds -> [log : SUBSET Runs, json : SUBSET Runs]]
      /\ \A s \in Runs : script[s].quote \in Runs \cup {None}
  BY <1>1 DEF Types, Script
<1>3. script[r].pc \in Writing => SoundRun(r, script[r].kind)
  <2>1. Whole(r) => script[r].at > 2
    BY <1>1, <1>2, Walks DEF Whole, Types
  <2> QED BY <1>1, <2>1 DEF Solid, SoundRun, Reporting, Writing
<1>4. \A s \in Runs, k \in Kinds : SoundRun(s, k) => SoundRun(s, k)'
  BY <1>1, SoundStays
<1>5. ASSUME NEW k \in Kinds, NEW s \in evidence'[k].log \cup evidence'[k].json
      PROVE  s \in Runs /\ SoundRun(s, k)
  <2>1. s \in Runs
    BY <1>1, FilesStep
  <2>2. CASE s \in evidence[k].log \cup evidence[k].json
    BY <1>1, <2>1, <2>2 DEF OnFile
  <2>3. CASE s \notin evidence[k].log \cup evidence[k].json
    <3>1. s = r /\ script[r].pc \in Writing /\ k = script[r].kind
      BY <1>1, <2>3, FilesStep
    <3> QED BY <1>3, <2>1, <3>1
  <2> QED BY <2>2, <2>3
<1>7. (\A k \in Kinds : \A s \in evidence[k].log \cup evidence[k].json : SoundRun(s, k))'
  BY <1>4, <1>5 DEF SoundRun, Whole, SeedsOn
<1>8. ASSUME NEW s \in Runs, script'[s].kind = "integration", script'[s].quote # None
      PROVE  script'[s].quote \in Runs /\ SoundRun(script'[s].quote, "perf")
  <2>1. Benchmark # None => Benchmark \in Runs /\ SoundRun(Benchmark, "perf")
    BY <1>1, BenchmarkIs DEF OnFile, Kinds
  <2>2. script[s].kind = "integration" /\ script[s].quote # None => SoundRun(script[s].quote, "perf")
    BY <1>1 DEF OnFile
  <2>3. script'[s].kind = script[s].kind
        /\ (script'[s].quote = script[s].quote \/ script'[s].quote = Benchmark)
    BY <1>1, <1>8 DEF Moved
  <2> QED BY <1>2, <1>8, <2>1, <2>2, <2>3
<1>9. (\A s \in Runs : script[s].kind = "integration" /\ script[s].quote # None =>
          SoundRun(script[s].quote, "perf"))'
  <2> SUFFICES ASSUME NEW s \in Runs
               PROVE  (script[s].kind = "integration" /\ script[s].quote # None =>
                          SoundRun(script[s].quote, "perf"))'
    OBVIOUS
  <2>1. "perf" \in Kinds
    BY DEF Kinds
  <2> QED BY <1>4, <1>8, <2>1 DEF SoundRun, Whole, SeedsOn
<1> QED BY <1>7, <1>9 DEF OnFile
LEMMA HermeticStep ==
  ASSUME IndInv, NEW r \in Runs, RunStep(r), NEW s \in Runs
  PROVE  Hermetic(s)'
<1>1. Moved(r) /\ Types /\ Hermetic(s)
  BY EveryStepMoves DEF IndInv
<1>2. \A q \in Runs : /\ script[q].pc = "idle" <=> port[q] = None
                      /\ script[q].pc = "idle" <=> child[q] = "none"
  BY <1>1 DEF Types
<1>3. \A q \in Answering(r) : /\ q \in Runs /\ port[q] = port[r]
                              /\ script[q].pc # "idle" /\ script[r].pc # "idle"
  <2> SUFFICES ASSUME NEW q \in Answering(r)
               PROVE  /\ q \in Runs /\ port[q] = port[r]
                      /\ script[q].pc # "idle" /\ script[r].pc # "idle"
    OBVIOUS
  <2>1. q \in Runs /\ port[q] = port[r] /\ child[q] = "serving"
    BY DEF Answering, Bound
  <2> QED BY <1>2, <2>1
<1>4. \A q \in Runs : script[q].pc # "idle" => port'[q] = port[q]
  BY <1>1, MachineStep
<1>5. script[s].pc # "idle" /\ Alone(s)' => Alone(s)
  <2> SUFFICES ASSUME script[s].pc # "idle", Alone(s)', NEW q \in Runs \ {s}
               PROVE  port[q] # port[s]
    BY DEF Alone
  <2>1. port'[q] # port'[s] /\ port'[s] = port[s] /\ port[s] # None
    BY <1>2, <1>4 DEF Alone
  <2>2. CASE script[q].pc = "idle"
    BY <1>2, <2>1, <2>2
  <2>3. CASE script[q].pc # "idle"
    BY <1>4, <2>1, <2>3
  <2> QED BY <2>2, <2>3
<1>6. CASE s # r
  <2>1. script'[s] = script[s]
    BY <1>1, <1>6 DEF Moved
  <2>2. db'[s] = db[s] \/ db'[s] = {} \/ s \in Answering(r)
    BY <1>1, MachineStep
  <2>3. s \in Answering(r) => ~Alone(s)' /\ script[s].pc # "idle"
    <3> SUFFICES ASSUME s \in Answering(r) PROVE ~Alone(s)' /\ script[s].pc # "idle"
      OBVIOUS
    <3>1. port'[s] = port'[r] /\ script[s].pc # "idle"
      BY <1>3, <1>4
    <3> QED BY <1>6, <3>1 DEF Alone
  <2>4. CASE script[s].pc = "idle"
    <3>1. db'[s] = {} /\ ~Early(s)'
      BY <1>1, <2>1, <2>2, <2>3, <2>4 DEF Hermetic, Early
    <3>2. script'[s].by = {} /\ script'[s].fresh = TRUE /\ script'[s].at = 1
      BY <1>1, <2>1, <2>4 DEF Hermetic
    <3> QED BY <3>1, <3>2 DEF Hermetic
  <2>5. CASE script[s].pc # "idle"
    <3>1. Alone(s)' => Alone(s) /\ (db'[s] = db[s] \/ db'[s] = {})
      BY <1>5, <2>2, <2>3, <2>5
    <3>2. Early(s)' <=> Early(s)
      BY <2>1 DEF Early
    <3> QED BY <1>1, <2>1, <2>5, <3>1, <3>2 DEF Hermetic
  <2> QED BY <2>4, <2>5
<1>7. CASE s = r
  <2>1. script[r].at = 1 \/ script[r].pc \notin {"idle", "health"}
    BY <1>1, <1>7 DEF Hermetic
  <2>2. script'[r].pc = "health" => script'[r].at = 1
    BY <1>1, <2>1 DEF Moved, Early
  <2>3. script'[r].pc # "idle"
    BY <1>1 DEF Moved
  <2>4. script[r].kind \in Kinds
    BY <1>1 DEF Types, Script
  <2>5. Doing(r, "load") => Early(r)
    BY <1>1, <2>4, Walks DEF Doing, Early, Types
  <2>6. ASSUME Alone(r)'
        PROVE  /\ script'[r].by \subseteq {r} /\ script'[r].fresh = TRUE
               /\ Early(r)' => db'[r] = {}
    <3>1. script'[r].by \subseteq script[r].by \cup Answering(r) /\ (Early(r)' => db'[r] = db[r])
      BY <1>1 DEF Moved
    <3>2. CASE script[r].pc = "idle"
      <4>1. Answering(r) = {} /\ script[r].by = {} /\ script[r].fresh = TRUE /\ db[r] = {}
        BY <1>1, <1>3, <1>7, <3>2 DEF Hermetic
      <4> QED BY <1>1, <3>1, <4>1 DEF Moved
    <3>3. CASE script[r].pc # "idle"
      <4>1. Alone(r)
        BY <1>5, <1>7, <2>6, <3>3
      <4>2. Answering(r) \subseteq {r}
        BY <1>3, <4>1 DEF Alone
      <4>3. /\ script[r].by \subseteq {r} /\ script[r].fresh = TRUE
            /\ Early(r) => db[r] = {}
        BY <1>1, <1>7, <4>1 DEF Hermetic
      <4>4. Doing(r, "load") => \A q \in Answering(r) : db[q] = {}
        BY <2>5, <4>2, <4>3
      <4>5. script'[r].fresh = TRUE
        BY <1>1, <4>3, <4>4 DEF Moved
      <4>6. Early(r)' => Early(r)
        BY <1>1, <3>3 DEF Moved
      <4> QED BY <3>1, <4>2, <4>3, <4>5, <4>6
    <3> QED BY <3>2, <3>3
  <2>7. Hermetic(r)'
    BY <2>2, <2>3, <2>6 DEF Hermetic
  <2> QED BY <1>7, <2>7
<1> QED BY <1>6, <1>7

\* Every step of every run keeps the invariant.
LEMMA IndStep == IndInv /\ [Next]_vars => IndInv'
<1>1. ASSUME IndInv, NEW r \in Runs, RunStep(r) PROVE IndInv'
  <2>1. Types'
    BY <1>1, TypesStep DEF IndInv
  <2>2. \A s \in Runs : Solid(s)' /\ Hermetic(s)'
    BY <1>1, SolidStep, HermeticStep
  <2>3. OnFile'
    BY <1>1, OnFileStep
  <2> QED BY <2>1, <2>2, <2>3 DEF IndInv
<1>2. ASSUME IndInv, UNCHANGED vars PROVE IndInv'
  <2>1. Types' /\ OnFile'
    BY <1>2 DEF vars, IndInv, Types, OnFile, SoundRun, Whole, SeedsOn
  <2>2. ASSUME NEW r \in Runs PROVE Solid(r)' /\ Hermetic(r)'
    <3>1. Solid(r) /\ Hermetic(r)
      BY <1>2 DEF IndInv
    <3>2. Solid(r)'
      BY <1>2, <3>1 DEF vars, Solid, Whole, SeedsOn
    <3>3. Hermetic(r)'
      BY <1>2, <3>1 DEF vars, Hermetic, Alone, Early
    <3> QED BY <3>2, <3>3
  <2> QED BY <2>1, <2>2 DEF IndInv
<1> QED BY <1>1, <1>2 DEF Next, RunStep

\* So it holds throughout.
LEMMA Inductive == Spec => []IndInv
  BY IndInit, IndStep, PTL DEF Spec

-----------------------------------------------------------------------------
(* The theorems.                                                           *)

\* Scripts, servers and files keep their shape whatever is interleaved,
\* stalled or killed; the history never grows past its limit.
THEOREM TypeCorrect == Spec => []TypeOK
<1>1. IndInv => TypeOK
  <2> SUFFICES ASSUME IndInv PROVE TypeOK
    OBVIOUS
  <2>1. Types
    BY DEF IndInv
  <2>2. \A r \in Runs : /\ script[r].kind \in Kinds /\ script[r].pc \in Pcs
                        /\ script[r].by \subseteq Runs /\ script[r].fresh \in BOOLEAN
                        /\ script[r].quote \in Runs \cup {None}
    BY <2>1 DEF Types, Script
  <2>3. \A k \in Kinds : evidence[k].log \subseteq Runs /\ evidence[k].json \subseteq Runs
    BY <2>1 DEF Types
  <2> QED BY <2>1, <2>2, <2>3 DEF Types, TypeOK, Children
<1> QED BY <1>1, Inductive, PTL

\* live_server keeps its promise of hermetic runs to each run whose port no
\* other run has drawn.
THEOREM RunsAreHermetic == Spec => []HermeticUnlessPortIsShared
<1>1. IndInv => HermeticUnlessPortIsShared
  <2> SUFFICES ASSUME IndInv, NEW r \in Runs, \A s \in Runs \ {r} : port[s] # port[r]
               PROVE  script[r].by \subseteq {r} /\ script[r].fresh
    BY DEF HermeticUnlessPortIsShared
  <2>1. script[r].by \subseteq {r} /\ script[r].fresh = TRUE
    BY DEF IndInv, Hermetic, Alone
  <2> QED BY <2>1, Zenon
<1> QED BY <1>1, Inductive, PTL

\* Transcripts, figures and quoted benchmarks are of runs that finished their
\* walk on a week that could be planned and took their server down first.
THEOREM EvidenceIsWhole == Spec => []EvidenceIsOfAWholeRun
<1>1. IndInv => EvidenceIsOfAWholeRun
  BY DEF IndInv, OnFile, SoundRun, EvidenceIsOfAWholeRun
<1> QED BY <1>1, Inductive, PTL

-----------------------------------------------------------------------------
(* The history of the benchmark.                                           *)

\* The list l, of k entries, is the end of the list s, of m entries.
EndOf(l, k, s, m) ==
    /\ Len(l) = k /\ Len(s) = m /\ k <= m
    /\ \A i \in 1 .. k : l[i] = s[m - k + i]

LEMMA LastIs ==
  ASSUME NEW T, NEW s \in Seq(T), NEW n \in Nat \ {0}, NEW m \in Nat, Len(s) = m,
         NEW k \in Nat, k = IF m < n THEN m ELSE n
  PROVE  Last(s, n) \in Seq(T) /\ EndOf(Last(s, n), k, s, m)
<1>1. \A i \in 1 .. m : s[i] \in T
  BY ElementOfSeq
<1>2. k <= m /\ m - k + 1 \in Nat
  OBVIOUS
<1>3. PICK a \in Nat : a = m - k + 1
  BY <1>2
<1>4. Last(s, n) = SubSeq(s, a, m)
  <2>1. a = IF m < n THEN 1 ELSE m - n + 1
    BY <1>2, <1>3
  <2> QED BY <2>1 DEF Last
<1>5. a \in Int /\ m \in Int /\ \A i \in a .. m : s[i] \in T
  BY <1>1, <1>2, <1>3
<1>6. PICK l : l = SubSeq(s, a, m)
  OBVIOUS
<1>7. /\ l \in Seq(T)
      /\ Len(l) = IF a <= m THEN m - a + 1 ELSE 0
      /\ \A i \in 1 .. m - a + 1 : l[i] = s[a + i - 1]
  BY <1>5, <1>6, SubSeqProperties
<1>8. Len(l) = k
  BY <1>2, <1>3, <1>7
<1>9. \A i \in 1 .. k : l[i] = s[m - k + i]
  <2> TAKE i \in 1 .. k
  <2>1. a + i - 1 = m - k + i /\ i \in 1 .. m - a + 1
    BY <1>2, <1>3
  <2> QED BY <1>7, <2>1
<1> QED BY <1>2, <1>4, <1>6, <1>7, <1>8, <1>9 DEF EndOf

\* Who appends to the end of a list and takes the end appends to the list.
LEMMA LastOfAppended ==
  ASSUME NEW T, NEW s \in Seq(T), NEW x \in T, NEW n \in Nat \ {0}
  PROVE  Last(Append(Last(s, n), x), n) = Last(Append(s, x), n)
<1>1. PICK m \in Nat : Len(s) = m
  OBVIOUS
<1>2. PICK k \in Nat : k = IF m < n THEN m ELSE n
  <2>1. (IF m < n THEN m ELSE n) \in Nat
    OBVIOUS
  <2> QED BY <2>1
<1>3. PICK l \in Seq(T) : l = Last(s, n) /\ EndOf(l, k, s, m)
  <2>1. Last(s, n) \in Seq(T) /\ EndOf(Last(s, n), k, s, m)
    BY <1>1, <1>2, LastIs
  <2> QED BY <2>1
<1>4. PICK a \in Seq(T) : a = Append(l, x)
  BY AppendProperties
<1>5. Len(a) = k + 1 /\ a[k + 1] = x /\ \A i \in 1 .. k : a[i] = l[i]
  BY <1>3, <1>4, AppendProperties DEF EndOf
<1>6. PICK b \in Seq(T) : b = Append(s, x)
  BY AppendProperties
<1>7. Len(b) = m + 1 /\ b[m + 1] = x /\ \A i \in 1 .. m : b[i] = s[i]
  BY <1>1, <1>6, AppendProperties
<1>8. \A i \in 1 .. k + 1 : a[i] = b[m - k + i]
  <2> TAKE i \in 1 .. k + 1
  <2>1. CASE i = k + 1
    <3>1. m - k + i = m + 1
      BY <2>1
    <3> QED BY <1>5, <1>7, <2>1, <3>1
  <2>2. CASE i # k + 1
    <3>1. i \in 1 .. k /\ m - k + i \in 1 .. m
      BY <1>2, <2>2
    <3> QED BY <1>3, <1>5, <1>7, <3>1 DEF EndOf
  <2> QED BY <2>1, <2>2
<1>9. PICK c \in Nat : /\ c = IF k + 1 < n THEN k + 1 ELSE n
                       /\ c = IF m + 1 < n THEN m + 1 ELSE n
                       /\ c <= k + 1 /\ c <= m + 1
  <2>1. /\ (IF k + 1 < n THEN k + 1 ELSE n) \in Nat
        /\ (IF k + 1 < n THEN k + 1 ELSE n) = (IF m + 1 < n THEN m + 1 ELSE n)
        /\ (IF k + 1 < n THEN k + 1 ELSE n) <= k + 1
        /\ (IF k + 1 < n THEN k + 1 ELSE n) <= m + 1
    BY <1>2
  <2> QED BY <2>1
<1>10. k + 1 \in Nat /\ m + 1 \in Nat
  OBVIOUS
<1>11. PICK p \in Seq(T) : p = Last(a, n) /\ EndOf(p, c, a, k + 1)
  <2>1. Last(a, n) \in Seq(T) /\ EndOf(Last(a, n), c, a, k + 1)
    BY <1>5, <1>9, <1>10, LastIs
  <2> QED BY <2>1
<1>12. PICK q \in Seq(T) : q = Last(b, n) /\ EndOf(q, c, b, m + 1)
  <2>1. Last(b, n) \in Seq(T) /\ EndOf(Last(b, n), c, b, m + 1)
    BY <1>7, <1>9, <1>10, LastIs
  <2> QED BY <2>1
<1>13. ASSUME NEW i \in 1 .. c
       PROVE  p[i] = q[i]
  <2>1. k + 1 - c + i \in 1 .. k + 1 /\ m - k + (k + 1 - c + i) = m + 1 - c + i
    BY <1>9
  <2>2. p[i] = a[k + 1 - c + i] /\ q[i] = b[m + 1 - c + i]
    BY <1>11, <1>12 DEF EndOf
  <2> QED BY <1>8, <2>1, <2>2
<1>14. p = q
  BY <1>11, <1>12, <1>13, SeqEqual DEF EndOf
<1> QED BY <1>3, <1>4, <1>6, <1>11, <1>12, <1>14

InUpdate == {"appended", "truncated"}

\* As long as nobody updates the file while another does or is killed while
\* it is cut short, it is the end of what was ever written to it, and what the
\* one who updates it will write is the end of that with his own entry.
HistoryInv ==
    /\ ledger \in [order : Seq(Entries), clean : BOOLEAN]
    /\ ledger.clean =>
          /\ \A r, s \in Updating : r = s
          /\ \A r \in Updating : script[r].seen = Append(Last(ledger.order, HistoryLimit), r)
          /\ \A r \in Runs : script[r].pc = "truncated" => history = Torn
          /\ (\A r \in Runs : script[r].pc # "truncated") =>
                history = Last(ledger.order, HistoryLimit)

LEMMA HistoryInit == Init => HistoryInv
<1> SUFFICES ASSUME Init PROVE HistoryInv
  OBVIOUS
<1>1. \A r \in Runs : script[r].pc = "idle"
  <2>1. PICK kinds : script = [r \in Runs |->
            [kind |-> kinds[r], pc |-> "idle", at |-> 1, by |-> {}, fresh |-> TRUE,
             quote |-> None, seen |-> <<>>]]
    BY DEF Init
  <2> QED BY <2>1
<1>2. Updating = {} /\ \A r \in Runs : script[r].pc # "truncated"
  BY <1>1 DEF Updating
<1>3. PICK e \in Seq(Entries) : e = <<Earlier>> /\ Len(e) = 1
  <2>1. <<Earlier>> \in Seq(Entries) /\ Len(<<Earlier>>) = 1
    BY DEF Entries
  <2> QED BY <2>1
<1>4. PICK t \in BOOLEAN : t = TRUE
  OBVIOUS
<1>5. ledger = [order |-> e, clean |-> t]
  BY <1>3, <1>4 DEF Init
<1>6. ledger \in [order : Seq(Entries), clean : BOOLEAN] /\ ledger.order = e
  BY <1>5
<1>7. e = Last(e, HistoryLimit)
  <2>1. PICK n \in Nat \ {0}, k \in Nat : n = HistoryLimit /\ k = 1
    BY LimitAssumption
  <2>2. k = IF 1 < n THEN 1 ELSE n
    BY <2>1
  <2>3. PICK l \in Seq(Entries) : l = Last(e, n) /\ EndOf(l, k, e, 1)
    <3>1. Last(e, n) \in Seq(Entries) /\ EndOf(Last(e, n), k, e, 1)
      BY <1>3, <2>2, LastIs
    <3> QED BY <3>1
  <2>4. Len(l) = 1 /\ \A i \in 1 .. 1 : l[i] = e[i]
    BY <2>1, <2>3 DEF EndOf
  <2>5. l = e
    BY <1>3, <2>4, SeqEqual
  <2> QED BY <2>1, <2>3, <2>5
<1>8. history = e
  BY <1>3 DEF Init
<1> QED BY <1>2, <1>6, <1>7, <1>8 DEF HistoryInv

\* A step of run r that leaves the history alone and whoever is updating it.
Bystanding(r) ==
    /\ history' = history /\ ledger' = ledger
    /\ \A s \in Runs : {script[s].pc, script'[s].pc} \cap InUpdate # {} =>
                          script'[s] = script[s]

Outside == Pcs \ InUpdate

LEMMA OthersStandBy ==
  ASSUME Types, NEW r \in Runs, RunStep(r),
         ~ReadHistory(r), ~TruncateHistory(r), ~WriteHistory(r), ~Cut(r)
  PROVE  Bystanding(r)
<1>0. script \in [Runs -> Script]
  BY DEF Types
<1>1. history' = history /\ ledger' = ledger
  BY DEF RunStep, Start, Advance, Request, Load, MakePlan, Measure, Look, Evaluate, NoBrowser, Unlink,
         Capture, Healthy, FindExited, Abandon, Teardown, Kill, Reap, Report, OpenLog,
         WriteLog, OpenFigures, WriteFigures, Bind, Exit, Stall, Die, files
<1>2. ASSUME \A s \in Runs \ {r} : script'[s] = script[s],
             script[r].pc \in Outside, script'[r].pc \in Outside
      PROVE  Bystanding(r)
  BY <1>1, <1>2 DEF Bystanding, Outside
<1>3. ASSUME script[r].pc \in Outside, NEW pc \in Outside, Become(r, pc) \/ Leave(r, pc)
      PROVE  Bystanding(r)
  <2>1. pc \in Pcs
    BY DEF Outside
  <2>2. (\A s \in Runs \ {r} : script'[s] = script[s]) /\ script'[r].pc = pc
    BY <1>0, <1>3, <2>1, BecomeDoes, LeaveDoes
  <2> QED BY <1>2, <1>3, <2>2
<1>4. CASE \/ Start(r) \/ Abandon(r) \/ FindExited(r) \/ Kill(r)
           \/ OpenLog(r) \/ WriteLog(r) \/ OpenFigures(r) \/ WriteFigures(r)
  <2>1. PICK pc \in Outside : Become(r, pc) \/ Leave(r, pc)
    BY <1>4 DEF Start, Abandon, FindExited, Kill, OpenLog, WriteLog, OpenFigures, WriteFigures,
                Outside, Pcs, InUpdate, Ended
  <2>2. script[r].pc \in Outside
    BY <1>4 DEF Start, Abandon, FindExited, Kill, OpenLog, WriteLog, OpenFigures, WriteFigures,
                Outside, Pcs, InUpdate
  <2> QED BY <1>3, <2>1, <2>2
<1>5. CASE Reap(r)
  <2>1. PICK pc \in Outside : Become(r, pc) \/ Leave(r, pc)
    BY <1>5 DEF Reap, Outside, Pcs, InUpdate, Ended
  <2>2. script[r].pc \in Outside
    BY <1>5 DEF Reap, Outside, Pcs, InUpdate
  <2> QED BY <1>3, <2>1, <2>2
<1>6. CASE Healthy(r)
  <2>1. PICK s \in Answering(r) : script' = [script EXCEPT ![r].pc = "walk", ![r].by = @ \cup {s}]
    BY <1>6 DEF Healthy
  <2>2. (\A q \in Runs \ {r} : script'[q] = script[q]) /\ script'[r].pc = "walk"
    BY <1>0, <2>1 DEF Script
  <2>3. script[r].pc \in Outside /\ "walk" \in Outside
    BY <1>6 DEF Healthy, Outside, Pcs, InUpdate
  <2> QED BY <1>2, <2>2, <2>3
<1>7. CASE Request(r) /\ ~NoBrowser(r)
  <2>1. PICK by, fresh, quote : Proceed(r, by, fresh, quote)
    BY <1>7 DEF Request, Load, MakePlan, Measure, Look, Evaluate, Unlink, Capture
  <2>2. PICK pc \in {"walk", "terminating"} :
            pc = IF script[r].at = Len(Walk(script[r].kind)) THEN "terminating" ELSE "walk"
    OBVIOUS
  <2>3. script' = [script EXCEPT ![r].at = @ + 1, ![r].by = @ \cup by, ![r].fresh = @ /\ fresh,
                                 ![r].quote = quote, ![r].pc = pc]
    BY <2>1, <2>2, Zenon DEF Proceed
  <2>4. (\A q \in Runs \ {r} : script'[q] = script[q]) /\ script'[r].pc = pc
    BY <1>0, <2>3 DEF Script
  <2>5. script[r].pc \in Outside /\ pc \in Outside
    BY <1>7, <2>2 DEF Request, Load, MakePlan, Measure, Look, Evaluate, Unlink, Capture,
                      Doing, Outside, Pcs, InUpdate
  <2> QED BY <1>2, <2>4, <2>5
<1>9. CASE NoBrowser(r)
  <2>1. (\A q \in Runs \ {r} : script'[q] = script[q]) /\ script'[r].pc = "terminating"
    BY <1>0, <1>9 DEF NoBrowser, Script
  <2>2. script[r].pc \in Outside /\ "terminating" \in Outside
    BY <1>9 DEF NoBrowser, Doing, Outside, Pcs, InUpdate
  <2> QED BY <1>2, <2>1, <2>2
<1>8. CASE Bind(r) \/ Exit(r) \/ Stall(r) \/ Die(r)
  BY <1>1, <1>8 DEF Bind, Exit, Stall, Die, Bystanding
<1> QED
  BY <1>4, <1>5, <1>6, <1>7, <1>8, <1>9 DEF RunStep, Advance, Teardown, Report

LEMMA HistoryKeptByBystanding ==
  ASSUME HistoryInv, NEW r \in Runs, Bystanding(r)
  PROVE  HistoryInv'
<1>1. \A s \in Runs : s \in Updating' <=> s \in Updating
  BY DEF Updating, Bystanding, InUpdate
<1>2. \A s \in Updating : s \in Runs /\ script'[s].seen = script[s].seen
  BY DEF Updating, Bystanding, InUpdate
<1>3. \A s \in Runs : script'[s].pc = "truncated" <=> script[s].pc = "truncated"
  BY DEF Bystanding, InUpdate
<1>4. Updating' = Updating
  BY <1>1 DEF Updating
<1> QED BY <1>2, <1>3, <1>4 DEF HistoryInv, Bystanding

\* The four steps that update the history, or are killed while they do.
LEMMA HistoryIsRead ==
  ASSUME Types, HistoryInv, NEW r \in Runs, ReadHistory(r)
  PROVE  HistoryInv'
<1>1. PICK c \in BOOLEAN : c = (ledger.clean /\ Updating = {})
  <2>1. (ledger.clean /\ Updating = {}) \in BOOLEAN
    BY Zenon DEF HistoryInv
  <2> QED BY <2>1
<1>2. ledger' = [ledger EXCEPT !.clean = c] /\ history' = history
  BY <1>1, Zenon DEF ReadHistory
<1>3. ledger' \in [order : Seq(Entries), clean : BOOLEAN] /\ ledger'.order = ledger.order
      /\ ledger'.clean = c
  BY <1>2 DEF HistoryInv
<1>4. ASSUME ledger'.clean = TRUE
      PROVE  /\ \A q, s \in Updating' : q = s
             /\ \A q \in Updating' : script'[q].seen = Append(Last(ledger'.order, HistoryLimit), q)
             /\ \A q \in Runs : script'[q].pc # "truncated"
             /\ history' = Last(ledger'.order, HistoryLimit)
  <2>1. ledger.clean = TRUE /\ Updating = {}
    <3>1. c
      BY <1>3, <1>4
    <3>2. ledger.clean /\ Updating = {}
      BY <1>1, <3>1, Zenon
    <3>3. ledger.clean \in BOOLEAN
      BY DEF HistoryInv
    <3> QED BY <3>2, <3>3
  <2>2. history = Last(ledger.order, HistoryLimit)
    BY <2>1 DEF HistoryInv, Updating
  <2>3. history # Torn
    <3>1. PICK order \in Seq(Entries), n \in Nat \ {0} : order = ledger.order /\ n = HistoryLimit
      BY LimitAssumption DEF HistoryInv
    <3>2. PICK m \in Nat : Len(order) = m
      OBVIOUS
    <3>3. PICK k \in Nat : k = IF m < n THEN m ELSE n
      <4>1. (IF m < n THEN m ELSE n) \in Nat
        OBVIOUS
      <4> QED BY <4>1
    <3>4. Last(order, n) \in Seq(Entries)
      BY <3>2, <3>3, LastIs
    <3> QED BY <2>2, <3>1, <3>4, NamesAssumption DEF Entries
  <2>4. PICK seen : seen = Append(history, r)
    OBVIOUS
  <2>5. script' = [script EXCEPT ![r].pc = "appended", ![r].seen = seen]
    BY <2>3, <2>4 DEF ReadHistory
  <2>6. script \in [Runs -> Script]
    BY DEF Types
  <2>7. /\ \A s \in Runs \ {r} : script'[s] = script[s]
        /\ script'[r].pc = "appended" /\ script'[r].seen = seen
    BY <2>5, <2>6 DEF Script
  <2>8. Updating' = {r} /\ \A q \in Runs : script'[q].pc # "truncated"
    BY <2>1, <2>7 DEF Updating
  <2> QED BY <1>2, <1>3, <2>2, <2>4, <2>7, <2>8
<1>5. ledger'.clean \in BOOLEAN
  BY <1>3
<1> QED BY <1>3, <1>4, <1>5 DEF HistoryInv

LEMMA HistoryIsTruncated ==
  ASSUME Types, HistoryInv, NEW r \in Runs, TruncateHistory(r)
  PROVE  HistoryInv'
<1>1. ledger' = ledger /\ script[r].pc = "appended" /\ script \in [Runs -> Script]
  BY DEF TruncateHistory, Types
<1>0. history' = Torn
  BY DEF TruncateHistory
<1>2. /\ \A s \in Runs \ {r} : script'[s] = script[s]
      /\ script'[r].pc = "truncated" /\ script'[r].seen = script[r].seen
  BY <1>1, BecomeDoes DEF TruncateHistory, Pcs
<1>3. Updating' = Updating
  BY <1>1, <1>2 DEF Updating
<1>4. \A s \in Updating : script'[s].seen = script[s].seen
  BY <1>2 DEF Updating
<1> QED BY <1>0, <1>1, <1>2, <1>3, <1>4 DEF HistoryInv

LEMMA HistoryIsWritten ==
  ASSUME Types, HistoryInv, NEW r \in Runs, WriteHistory(r)
  PROVE  HistoryInv'
<1>1. PICK order \in Seq(Entries), n \in Nat \ {0} : order = ledger.order /\ n = HistoryLimit
  BY LimitAssumption DEF HistoryInv
<1>2. PICK more \in Seq(Entries) : more = Append(order, r)
  BY AppendProperties DEF Entries
<1>3. ledger' \in [order : Seq(Entries), clean : BOOLEAN] /\ ledger'.order = more
      /\ ledger'.clean = ledger.clean
  <2>1. ledger' = [ledger EXCEPT !.order = more]
    BY <1>1, <1>2 DEF WriteHistory
  <2> QED BY <2>1 DEF HistoryInv
<1>4. script[r].pc = "truncated" /\ script \in [Runs -> Script]
  BY DEF WriteHistory, Types
<1>5. /\ \A s \in Runs \ {r} : script'[s] = script[s]
      /\ script'[r].pc = "report"
  BY <1>4 DEF WriteHistory, Script
<1>6. ASSUME ledger.clean
      PROVE  /\ Updating' = {} /\ \A q \in Runs : script'[q].pc # "truncated"
             /\ history' = Last(more, n)
  <2>1. Updating = {r}
    BY <1>4, <1>6 DEF Updating, HistoryInv
  <2>2. Updating' = {} /\ \A q \in Runs : script'[q].pc # "truncated"
    BY <1>5, <2>1 DEF Updating
  <2>3. script[r].seen = Append(Last(order, n), r)
    BY <1>1, <1>6, <2>1 DEF HistoryInv
  <2>4. r \in Entries
    BY DEF Entries
  <2>5. Last(Append(Last(order, n), r), n) = Last(Append(order, r), n)
    BY <2>4, LastOfAppended
  <2>6. history = Torn
    BY <1>4, <1>6 DEF HistoryInv
  <2> QED BY <1>1, <1>2, <2>2, <2>3, <2>5, <2>6 DEF WriteHistory
<1> QED BY <1>1, <1>3, <1>6 DEF HistoryInv

LEMMA HistoryIsCut ==
  ASSUME Types, HistoryInv, NEW r \in Runs, Cut(r)
  PROVE  HistoryInv'
<1>1. PICK c \in BOOLEAN : c = (ledger.clean /\ script[r].pc # "truncated")
  <2>1. (ledger.clean /\ script[r].pc # "truncated") \in BOOLEAN
    BY Zenon DEF HistoryInv
  <2> QED BY <2>1
<1>2. ledger' = [ledger EXCEPT !.clean = c] /\ history' = history
  BY <1>1, Zenon DEF Cut
<1>3. ledger' \in [order : Seq(Entries), clean : BOOLEAN] /\ ledger'.order = ledger.order
      /\ ledger'.clean = c
  BY <1>2 DEF HistoryInv
<1>4. (\A s \in Runs \ {r} : script'[s] = script[s]) /\ script'[r].pc = "cut"
  <2>1. script \in [Runs -> Script] /\ "cut" \in Pcs /\ Leave(r, "cut")
    BY DEF Types, Cut, Pcs, Ended
  <2> QED BY <2>1, LeaveDoes
<1>5. Updating' = Updating \ {r}
  BY <1>4 DEF Updating
<1>6. \A s \in Updating \ {r} : s \in Runs /\ script'[s].seen = script[s].seen
  BY <1>4 DEF Updating
<1>7. ASSUME c
      PROVE  /\ ledger.clean
             /\ \A s \in Runs : script'[s].pc = "truncated" => script[s].pc = "truncated"
             /\ (\A s \in Runs : script'[s].pc # "truncated") =>
                   \A s \in Runs : script[s].pc # "truncated"
  <2>1. ledger.clean /\ script[r].pc # "truncated"
    BY <1>1, <1>7, Zenon
  <2> QED BY <1>4, <2>1
<1> QED BY <1>2, <1>3, <1>5, <1>6, <1>7 DEF HistoryInv

LEMMA HistoryStep == Types /\ HistoryInv /\ [Next]_vars => HistoryInv'
<1>1. ASSUME Types, HistoryInv, NEW r \in Runs, RunStep(r) PROVE HistoryInv'
  BY <1>1, OthersStandBy, HistoryKeptByBystanding, HistoryIsRead, HistoryIsTruncated,
     HistoryIsWritten, HistoryIsCut
<1>2. ASSUME HistoryInv, UNCHANGED vars PROVE HistoryInv'
  BY <1>2 DEF vars, HistoryInv, Updating
<1> QED BY <1>1, <1>2 DEF Next, RunStep

\* As long as one benchmark updates the history at a time and none is killed
\* while the file is cut short, the file holds the last HistoryLimit entries of
\* all that were ever made, in the order in which they were made.
THEOREM HistoryIsKept == Spec => []HistoryKept
<1>1. Spec => []HistoryInv
  <2>1. IndInv => Types
    BY DEF IndInv
  <2> QED BY <2>1, HistoryInit, HistoryStep, Inductive, PTL DEF Spec
<1>2. HistoryInv => HistoryKept
  <2> SUFFICES ASSUME HistoryInv, ledger.clean, Updating = {} PROVE HistoryKept
    BY DEF HistoryKept
  <2>1. PICK order \in Seq(Entries), n \in Nat \ {0} : order = ledger.order /\ n = HistoryLimit
    BY LimitAssumption DEF HistoryInv
  <2>2. PICK m \in Nat : Len(order) = m
    OBVIOUS
  <2>3. PICK k \in Nat : k = IF m < n THEN m ELSE n
    <3>1. (IF m < n THEN m ELSE n) \in Nat
      OBVIOUS
    <3> QED BY <3>1
  <2>4. history = Last(order, n)
    BY <2>1 DEF HistoryInv, Updating
  <2>5. EndOf(history, k, order, m)
    BY <2>2, <2>3, <2>4, LastIs
  <2> QED BY <2>1, <2>2, <2>3, <2>5 DEF HistoryKept, EndOf
<1> QED BY <1>1, <1>2, PTL
=============================================================================
