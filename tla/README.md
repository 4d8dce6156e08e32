# AquaOps-ON verification

TLA+ models of AquaOps ON, a decision-support application for small Ontario
drinking-water systems (FastAPI, SQLAlchemy over SQLite or PostgreSQL, uvicorn
workers), with TLC runs on small instances and TLAPS proofs for every value of
the constants. Paths below are relative to `src/`.

## 1. Inventory

The application is one deployable process group: `AQUAOPS_WORKERS` uvicorn
workers over one database. A worker runs `async def` handlers on its event loop
(one at a time unless they await) and `def` handlers in a thread pool, each with
a database session of its own. There is no scheduler in the repository
(the nightly APScheduler batch of `docs/architecture.md` is not implemented),
no lock, no row version and no `SELECT ... FOR UPDATE`: primary keys, one unique
constraint and the commit of a session are all the synchronisation there is.

| Part | State | Operations | Interacts with |
|---|---|---|---|
| M1 ingest: `modules/m1_ingest.py`, `app/services/ingest.py`, upload endpoints, `POST /readings` | `chlorine_reading` (unique on point and time), `lab_result_upload` | parse and classify a laboratory file, store receipt and readings; add a manual reading | its readings are the series M2 reads |
| M2 alert service: `app/services/detect.py`, `POST /detect/run`, acknowledgement | `anomaly_alert` | a detection pass raises or refreshes the open alert of a point; an operator acknowledges one | reads readings; the dashboard shows the inbox |
| M2 detector: `modules/m2_detect.py` | none | EWMA shift, isolation forest, trend to the limit | called by a pass |
| M3 planner: `modules/m3_schedule.py` | none | capacity check, angular sweep, nearest neighbour, 2-opt, arrival times | called by `build_week_plan` |
| M4 rule file: `modules/m4_rules.py` | `rules/oreg170.yaml`; a cache in each worker | `load_rules` by modification time; `generate_tasks` | read by startup, `GET /rules`, generation |
| M4 duties and plans: `app/services/plan.py`, `rules.py`, `scheduling.py`, dashboard buttons | `reg_rule`, `required_task`, `route_plan`, `route_stop` | synchronise the catalogue, generate a week's tasks, plan it, confirm, export | M4 rules, M3 |
| Startup: `app/main.py`, `app/services/case.py`, `app/db.py` | schema, `water_system`, `sampling_point`, `vehicle`, `operator` | `init_db`, `ensure_case_system`, `sync_rules` in every worker | all tables |
| Authentication: `app/auth.py` | token digests read from the environment at start; a signed cookie in the browser, nothing on the server | sign in, sign out, decide whom a request is admitted as | in front of all endpoints; names the operator an acknowledgement is recorded under |
| M5 dashboard: `modules/m5_dashboard.py`, `dashboard.py`, `templates/` | the page in a browser: panels, a form, requests under way | render; poll the inbox, follow events; the forms call the services above | M1, M2, M4, authentication |
| M6 evaluation: `modules/m6_eval.py`, `app/services/evaluate.py`, `POST /eval/run` | `eval_run`, `eval_metric`, report files | inject a decay, replay it through M2, judge six frozen criteria, store run and report | M2, a preview of M4's plan |
| Evidence scripts: `examples/unit6_*.py` | a server process and its scratch database per run; transcripts, figures, screenshots and a benchmark history in `Unit6/evidence` beside the repository | start, walk over HTTP, take down, report | all endpoints; each other's files |

Where it is hard, and what makes each part correct:

* **M1.** The keys on record are read, the file is classified against them and
  everything is committed at once; other workers and the thread pool write the
  same table meanwhile, clients retry. Correct if receipts and readings agree,
  no row of a file is dropped without a word, a replay stores nothing, and
  nobody ever rewrites a reading.
* **M2 alert service.** A pass reads the series, runs a slow detector, reads the
  open alerts and commits; another pass or an acknowledgement may come between
  any two of these. The ORM writes only changed columns. Correct if there is one
  open alert per point, its columns tell one story, passes and operators never
  write over each other, and an acknowledged row names who was told so.
* **M4 duties and plans.** Three services, each a read and a commit, compose
  into one button; the rule file is read twice per request; ids are
  deterministic so that concurrent generations collide. Correct if unverified
  rules stay inert, plans and task statuses agree, a week's plan covers all its
  duties, and plans are frozen.
* **M3.** Loops that change the list they scan, sectors by rounding, days that
  roll over. Correct if every task is visited once, the improvement ends in a
  local optimum, the shift holds and times are possible to drive.
* **M4 rule file, startup.** A stat before a read, a bounded cache shared by
  threads, several workers seeding one database and failing each other's
  inserts. Correct if a load is what the file was during the call, the seed is
  whole or absent, a serving worker has everything behind it, and in the end
  all workers serve.

* **M2 detector, M6.** Signs, boundaries and indices of statistics that no
  test can enumerate; a commit followed by a file of a name that runs share.
  Correct if an alarm follows a fall and not a rise, if a criterion that passes
  has a witness in the data, and if what a report file holds belongs to runs on
  record.
* **Authentication and M5.** Cookies outlive sign-outs, restarts and rotated
  tokens; polls cross acknowledgements, and a page shows what was true when it
  was rendered; a request is admitted before its form is received and acted on.
  Correct if an acknowledgement is recorded under the identity the form showed,
  admitted of someone who had signed in within a shift, and if what the page
  shows catches up with what is stored.
* **Evidence scripts.** A port that was free a moment ago, a child that exits,
  stalls on a full pipe or ignores SIGTERM, a history file that is read,
  truncated and written. Correct if a run talks to its own server, evidence is
  that of a whole run, the history loses nothing and no server is left behind.

`PROJECT.json` lists the hazards line by line with the properties that watch
them, and says where a property stops short of its hazard; this section is the
summary.

## 2. Plan

In order of what the application lives from. All of it is done.

1. `ReadingLog`, `LabIngest`, `LabIngestProofs`: M1, with the write-once log as
   abstract specification.
2. `Alerts`, `AlertsProofs`: the M2 service.
3. `WeekPlan`: catalogue, duties, plans. Routing is abstracted to the set of
   stops.
4. `Schedule`: the M3 planner step by step.
5. `RuleCache`, `Startup`, `StartupProofs`: the rule cache in every thread of
   every worker, composed with the lifespan of the workers.
6. `Sessions`, `Dashboard`: who a request is admitted as, and a browser tab that
   polls, posts and is overtaken.
7. `Detector`, `Evaluation`: M2's statistics in exact integers, M6 over them.
8. `Harness`: the evidence scripts side by side.
9. `WeekPlanProofs`, `HarnessProofs`, `EvaluationProofs`.
10. `ScheduleProofs`, `DashboardProofs`, the history file in `HarnessProofs`,
    the detector's statistics in `EvaluationProofs`, and the type invariants
    that were left.
11. `WeekBook`, the abstract week plan that `WeekPlan` implements.

## 3. Modules and the code

Each MC module fixes small instances; the `.cfg` of a run names them.

**`ReadingLog`** is what the reading table promises: one variable, entries under
new keys are appended in a transaction, nothing is rewritten.

**`LabIngest`.** `readings` and `receipts` are the two tables. `Classify` is
`ingest_lab_csv` down to its `SELECT` (with `parse_lab_csv` as `Parses` and
`Refused`), `CommitUpload`, `ConflictUpload` and `AbortUpload` are its commit.
`loop` says which upload holds the event loop of a worker: the handlers are
`async def` without an await after the file is read, so two uploads interleave
only on different workers. `PostReading` and `PostConflict` are `add_reading`,
a thread-pool handler that may run at any moment. A time stamp is a wall-clock
reading and an offset; `MeasuredAt` drops the offset as `_parse_timestamp` does.

**`Alerts`.** `ReadSeries`, `LoadOpen` and `QuietPass`, `RaiseAlert` or
`RefreshAlert` are the three database moments of `run_detection`; `LoadAlert`
and `CommitAck` those of `acknowledge`. `Refreshed` writes the columns whose
value differs from the loaded one, as SQLAlchemy's unit of work does. The
detector is a function of the length of the series (`History`). `overlapped`
is a history variable.

**`WeekPlan`.** A request goes through `sync_rules` (`LoadCatalogue`,
`CommitCatalogue`, `CatalogueConflict`), `generate_week_tasks` (`LoadWeek`,
`CommitTasks`, `TasksConflict`), `build_week_plan` (`LoadTasks`, `RefusePlan`,
`CommitPlan`) and confirmation (`LoadPlan`, `RefuseConfirm`, `CommitConfirm`),
as many of them as its endpoint calls. `EditYaml` is the person who edits the
rule file. A rule is its verified flag.

**`WeekBook`** is what the tables of duties and plans promise: duties are entered
under one label, a plan and the marks of the duties it visits appear together,
plans are confirmed, each in one transaction, and nothing is struck out. `Book`
in `WeekPlan` is the mapping: a duty is its draft label, the marks are the rows
whose status is planned, a plan is its week, its stops and whether it is
confirmed. Who asked, what a request has read and what it will write are not in
the book, so a step that only reads is a stutter and a commit that comes late,
after others, must still be an entry.

**`Schedule`.** `Init` picks the arguments of `plan_routes`. `Refuse` and
`Accept` are `infeasibility_detail`; `Drive` and `NextSector` the sweep and
nearest neighbour; `StartRoute`, `TryReversal` and `EndPass` are `two_opt`, a
candidate at a time; `Walk` and `NextVehicle` are `_assign_etas`. `order` is the
list sorted by bearing that the sectors are cut from. Distances are whole driving
minutes, bearings are ranks. A shift starts at eight; `ShiftHolds` speaks of
those that end before midnight. A longer one runs into the dates of the next
day, and the plan does not tell which day an arrival belongs to. `nearest_neighbour_km` (the
evaluation's baseline) and `_fits_shift` (called by nobody) are left out.

**`RuleCache`** is `load_rules`: `StatFile`, then `CacheHit`, or `CacheMiss`,
`ReadFile` and `Store`, by any thread of any worker, while the file is edited
in place or removed and rewritten. Python's `lru_cache` runs the function
outside its lock, which `Store` allows for; which entry a full cache gives up
is left open. `during` is a history variable: what the file was during a call.

**`Startup`** EXTENDS `RuleCache` and composes it with `lifespan`:
`InspectSchema`, `CreateSchema` and `SchemaDone` (`create_all`: the tables that
are missing, together or one by one, since SQLite commits each of them),
`LookForSeed` and `CommitSeed` (`ensure_case_system`), the load, `LookForRules` and `CommitRules`
(`sync_rules`); a conflict, an unreadable file or a `Crash` ends the process
with its cache. Requests are `GET /rules` and its like.

**`Sessions`** holds no variables: `ParseTokens` and `LoadTokens` are the
configuration, `Identify`, `SignSession` and `ReadSession` the credentials,
`Caller` the verdict of the middleware on a request. A token stands for its
digest and for the signatures keyed with it; nobody forges one. A configuration
maps the positions of the variable's entries to operator and token; `Ttl` is
positive; the source has twelve hours.

**`Dashboard`** EXTENDS `Sessions` and composes it with a tab of one browser.
`jar` is the cookie, `config` the process's tokens, `tab`, `inbox`, `trend` and
`form` the page, `due` the chart's pending refresh, `reply` a poll's answer and
`post` an acknowledgement on the way. `PollInbox` and `DeliverInbox`,
`SubmitAck` and `DeliverAck` are the two ends of a request, between which others
act: `AcknowledgeByApi`, `SignIn` and `SignOutElsewhere` in other tabs, `Restart`
with other tokens. On the server an acknowledgement has two moments of its own:
`AdmitAck` or `AckRefused` is the middleware, which checks the session once
(`app/auth.py:231`) and then awaits the application; `RecordAck` or `FailAck` is
the commit, after the form was received and a thread was free, however late. The
other requests are checked and served in one step: a poll or a page of someone
whose session ends meanwhile differs from one admitted just before. Without HTMX
(`htmx` is FALSE) forms are plain posts. `era` counts sign-ins, sign-outs and
restarts; `MaxReadings` bounds what is stored for a point.

**`Detector`** is `analyse` and `reason_codes` as operators. Averages are kept as
fractions, so that no comparison is rounded; the forest's answer is an external
choice, one for each prefix of the series. `DetectorAssumption` asks for a trend
window and a minimum of two readings or more; the source has five of each.

**`Evaluation`** EXTENDS `Detector`: `Measure` is the whole computation of `run`
and `build_metrics`, `Commit` the transaction. The report is opened, which
empties it (`OpenReport`), and written (`WriteReport`), over the text of another
request that wrote it since, wholly or in part. `Fail` is whatever ends a request
before it touches the file, `FailToWrite` whatever ends it after: the file is
empty, or holds the beginning of the text. `texts` says whose text is in a file;
`last` and `sole` are history variables: who opened it last, and whether that
request had it to itself.

**`Harness`** walks each script's requests in their order (`Walk`). `Start`,
`Healthy`, `FindExited`, `Kill` and `Reap` are `live_server` and
`wait_for_health`; `Load` to `Capture` the phases of the walk; `ReadHistory`,
`TruncateHistory` and `WriteHistory` are `update_p95_history`; `OpenLog`,
`WriteLog`, `OpenFigures` and `WriteFigures` the end, each file emptied before it
is written. Of a file on disk the model keeps whose text is in it: none while it
is empty, two runs' where they wrote it at once (`Written`). A history that two
benchmarks wrote at once may parse no longer, and counts as empty then
(`Torn`). Without a browser (`NoBrowser`) nothing is captured or removed. `Bind`, `Exit`, `Stall` and `Die` are the child,
`Cut` a script that is killed. `ledger` is a history variable.

## 4. Runs

Passing runs:

| Run | Instance | What it shows |
|---|---|---|
| `ingest` | 3 uploads of 4 files on 2 workers, 2 manual readings, 1 of 2 points registered | Receipts and readings agree under all interleavings; every row is refused or on record; of the uploads of one file one at most stores rows; the table is a `ReadingLog` |
| `alerts` | 2 detector threads of 2 passes, 2 acknowledgements, 1 point with a series of up to 4 readings | No two open alerts where no two passes held the point between `SELECT` and commit; verdicts are whole there; acknowledgements are owned; no step writes evidence and acknowledgement |
| `weekplan` | 3 requests of any kind, 2 weeks, 3 rules, 1 point, capacity of 2 tasks, 1 edit of the file | Status and plans agree; a plan covers its week; tasks without draft label and rows shown as verified were verified once; tasks advance only; duties and plans are a `WeekBook`, in which plans are frozen |
| `schedule` | all lists of up to 3 stops and lists of 4 or 5 distinct ones, in two listing orders, 5 fleets of none to three vehicles, two solvers | Every task once; the local optimum 2-opt reaches; shifts hold; the planner ends |
| `startup` | 2 workers, 3 threads, 2 tables, a cache of one entry, 2 revisions of the file, 1 crash | Loads are current; the seed is whole or absent; serving workers are prepared; all workers serve in the end |
| `dashboard` | 1 tab, 1 point, 1 reading, 1 alert, 2 operators, 3 tokens, 4 environments (none, two tokens, one rotated, a refused variable), a session of one tick in a clock of two, 2 changes of session or server | Acknowledgements are recorded as the form showed and admitted within a shift of signing in; the inbox catches up; an uploaded result reaches the chart |
| `evaluation` | every series of 3 to 5 readings over 3 levels, every answer of the forest, 2 requests of commits that share a report file | Alarms follow falls and not rises; criteria that pass have a witness; what a report file holds is of runs on record, and of the last that wrote it alone |
| `harness` | 2 runs in 3 pairings (two benchmarks; integration and benchmark; review and integration), 2 ports, plannable and infeasible weeks, a history of 2 entries | Runs that share no port are hermetic; evidence is of whole runs; the history keeps its latest; teardown ends |

Runs that find what the documents or comments say violated (the quotations are
in `PROJECT.json`, "findings"):

| Run | What happens |
|---|---|
| `ingest_race` | A manual reading commits between the classification and the commit of an upload: `IntegrityError`, a 500, the whole file rolled back |
| `alerts_ack_refresh` | A pass that loaded an open alert refreshes it after it was acknowledged |
| `weekplan_draft` | A draft generation stores tasks of an unverified rule; the ordinary planning of the week routes them |
| `schedule_windows` | A plan is accepted whose last stop comes after its week |

### Bounds

`MaxPasses`, `MaxEdits`, `MaxCrashes`, `MaxReadings`, `MaxNow`, `MaxEras` and
the lengths of `History`, of the series and of the file, request and run sets
are the only bounds; they limit how often something happens, never what happens
then. Deadlock is checked for `startup` and `dashboard`, which never stop; in
the others the requests are answered, the scripts are over, or the planner has
returned.

* *ingest*: two uploads on two workers are the least that overlap, the third
  finds what they left; the four files cover an unregistered point in the
  middle, a repeated key with another value, a value out of range, a blank, a
  collision of wall clocks and an empty file. Manual rows hit a key of the
  files, a key of a refused row and an unregistered point.
* *alerts*: every race is between two actors over one row; points do not
  interact, so one is enough. Four verdicts differ in each column.
* *weekplan*: two requests race and a third finds the outcome; the capacity of
  two tasks makes a plan with a third task refused; one edit verifies,
  withdraws or adds a rule between the two reads of one request.
* *schedule*: five stops are the fewest on which this town's tour takes 2-opt a
  second pass; fleets include none, one too short to be feasible, and three
  vehicles for stops that do not divide evenly. The driving times are those of
  a grid of roads, so a triangle inequality holds.
* *startup*: one entry is the tightest cache, two revisions are the least that
  an old entry can hide, two workers the least that fail each other; two tables
  can be half there.

* *dashboard*: one alert and one reading are what a page can be stale about; two
  eras let the browser's session be replaced and the server be restarted with
  other tokens, in either order; two ticks of a one-tick session reach both
  sides of the expiry, also between the check of a session and the record. A second alert adds nothing to either: each form is of
  one alert, and the inbox is replaced as a whole.
* *evaluation*: three readings are the least the detector judges; one level lies
  below the fixed threshold and two above the watch level, which the injected
  decay takes below it or not. The episode is the third to the fifth reading,
  the end of the longest series, and is cut short by the shorter ones. The
  window of three slides over all of them. The two commits share the name of
  their report, so two requests empty, mix and mend each other's.
* *harness*: two runs suffice for every race, over a port, the history file or a
  quoted benchmark; two ports make them draw the same one or not; two entries
  make the limit bite at the second benchmark.

Symmetry is used where identities are only compared (requests, workers,
operators, weeks, commits) and in no run with a liveness property.

### Fairness

`LabIngest`, `Alerts`, `WeekPlan` and `Evaluation` assume none: clients,
operators and passes may stop anywhere, and no liveness is claimed. `Schedule` assumes weak fairness
of the planner, which is sequential code without blocking calls. `Startup`
assumes that a lifespan which can go on does (sequential code of a live
process), that the thread running it finishes its load, that a worker that
ended is started again (uvicorn's supervisor with several workers,
`restart: unless-stopped` of `docker-compose.yml`), and that whoever removed the
rule file writes it again. Nothing is assumed of requests, crashes or other
edits. `Dashboard` assumes that the page's script polls while it is not kept
from it, that what was sent is answered or fails, and that answers arrive;
nobody has to type, sign in, upload or restart the server, so `InboxConverges`
and `UploadReachesTrend` speak of pages that stay open on a server that is up.
`Harness` assumes that a script goes on (each request, poll and wait in it has a
timeout) and that a process that was sent SIGKILL ends; the server owes nothing.

## 5. Proofs

Each of the eight proof modules shows an inductive invariant, by one lemma per
action, and derives its theorems from it. Assumptions are the named ASSUMEs of
the modules, which TLC evaluates on each run. They say what the constants are,
and this much more: `MinutesAssumption` that the way back is as long as the way
there, `TimeAssumption` that a session lasts whole seconds and at least one,
`NamesAssumption` of `Harness` that a history that cannot be parsed is no
sequence of entries,
`DetectorAssumption` what is said of it above.

The library's induction theorems cannot be used (they take an operator as a
parameter). Where sums and running totals need induction, the proofs argue by a
least counterexample: the lengths, or the sets, at which the fact fails have no
least one. `LeastNumber` and `LeastSubset` provide it.

* **`LabIngestProofs`.** `IndInv` is the type invariant with `OneReadingPerKey`
  (the unique constraint), `SeenIsOnRecord` (what a handler found on record
  stays there: stale knowledge is incomplete, never wrong), `Provenance` (a
  receipt is the one of its file as classified, and the readings under its id
  are the ones pending then) and `ReplaysPendNothing`. Without `Provenance`
  neither the receipts nor the accounting of rows is inductive, since they speak
  of the table only. Proved: `TypeCorrect`, `ReceiptsAgree`, `RowsAccounted`,
  `ReplaysAreNoOps`, `WriteOnce` (`LabIngest` implements `ReadingLog`) and, from
  `RangeInv`, `RangeErrorsLeft`. Finiteness of files makes the cardinalities
  meaningful.
* **`AlertsProofs`.** `IndInv` adds to the types `PassIsSound`,
  `RequestIsSound`, `FreshIds` and `NoOpenAlertOfOwn`: a pass that found no open
  alert stays right about those of its own thread. Proved: `TypeCorrect`,
  `OneOpenPerDetector`, `OneOpenPerPoint` (with one detector thread),
  `AcknowledgementsOwned`, `ColumnsKept`. A second invariant, `WindowInv`, says
  that on a point without overlap what a pass loaded is still so when it
  commits; from it `OneOpenUnlessOverlapped` and `OneVerdict`.
* **`StartupProofs`.** `CacheInv`: an entry under a time holds a revision of
  that time or later, and a call has witnessed every revision since the time it
  took. `LifespanInv`: the seed is whole or absent, and at each point of the
  lifespan the earlier commits are there. Proved, for any number of workers,
  threads and edits and any cache size: `Invariants`, `LoadsStayCurrent`,
  `SeedStaysWhole`, `ServingIsPrepared`; with
  `Bounds` (times are those of edits, a cache never holds more than its size)
  also `TypeCorrect`.
* **`ScheduleProofs`.** `IInv` is the types and what each loop owes to the next.
  `OrderInv`: the sorted list is the given one in another order. `SweepInv`: a
  vehicle is given stops of its own sector, none twice and in the end all.
  `RouteInv`: the route is an order of these, and a pass that has improved
  nothing has measured every reversal before the one at hand against this very
  route; without the second part the last pass would say nothing of the
  reversals before its last improvement. `PlanInv`: what is planned are the
  stops of the vehicles that are through and those visited. `DayInv`: what the
  walk has counted of its day is what the plan says of that day, and no later
  day has begun. Proved for any town, fleet and list: `TypeCorrect`,
  `PlansAreComplete`, `NoReversalIsLeft`, `ShiftsAreHeld`.
* **`DashboardProofs`.** `IInv` adds to the types (`ConfigInv`, `ClockInv`,
  `JarInv`, `StoreInv`, `ScreenInv`, `PostInv`) the one fact that ties the two
  ends of a request: what was rendered, asked for or sent since cookie or process
  last changed was rendered for whom the cookie proves now (`IdentityInv`).
  The identity property is not inductive without it, because the server never
  sees the name on the form. `AdmissionInv` is what the middleware leaves to the
  record: a request in hand was admitted of someone who was on shift then and
  whose token the process still knows. The clock may have passed the shift's end
  since, and a sign-in elsewhere may have replaced the cookie in the browser, so
  it speaks of the cookie and the time the request carries. Proved: `Invariant`, `TypeCorrect`, `FormsAreHonest`,
  `AcksAreWithinShift`.
* **`WeekPlanProofs`.** `IndInv` adds to the types what a request remembers:
  the rules it loaded were verified if they said so (`RemembersRules`), and the
  duties it read are still there when it commits, since none is ever removed
  (`RemembersTasks`); and that each
  plan belongs to a request that was accepted (`PlansAreAccepted`), which ties
  the table to the answers. Proved: `TypeCorrect`, `DutiesMatchPlans`,
  `VerificationIsEarned`, `NothingLeftOut`, `DutiesOnlyAdvance`,
  `PlansStayFrozen` and `BookIsKept` (`WeekPlan` implements `WeekBook`: three
  commits write the tables, and each is an entry of the book; that a plan visits
  something, and what is still on record, is what `RemembersTasks` says of a
  request under way).
* **`HarnessProofs`.** `Solid` says what a run has behind it: one that reports
  has finished its walk and reaped its server, one that is past the planning had
  a week it can go on with. `Hermetic` says that a run whose port nobody shares
  has talked to itself only and finds its database empty until it loads it,
  `OnFile` that each text on file, whole or mixed with another, and each quoted
  one is of such a run. `HistoryInv`: while no two updates overlap and none is
  killed with the file cut short, the file cannot be read between truncating and
  writing and is otherwise the end of all that was ever written to it, and what
  an updater holds is that with its own entry. Proved: `TypeCorrect`, `RunsAreHermetic`,
  `EvidenceIsWhole`, `HistoryIsKept`.
* **`EvaluationProofs`.** `RowOfOwn`: a request writes one row, under its own id,
  before it opens the report of that row; `FileInv` and `LastWriter`: the request
  that opened a file last is still at it or through with it, and while it is
  alone the file is empty until its text is there, whatever was left before;
  `HeldInv`: verdicts that are held or
  stored are owed to the detector's answers on this series, which are the same
  at every replay. Proved: `TypeCorrect`, `ReportsAreOnRecord`;
  `VerdictsAreWitnessed`, from two lemmas: `NoBetterF1` (whoever flags no label
  more and no other reading less has no higher F1) and `LeadIsAWarning`; and
  `AlarmsAreOfFalls`, which is about the statistics. A running total of a list of
  numbers exists and is what its fold yields. The trend is a weighed total, of
  which each part is compared with the middle reading: it is downward if the
  window falls and not if it rises. The average never exceeds the highest
  reading, so a series that ends on its highest shows no shift downward. The
  theorem holds of all integer series and any span of the average, of which the
  run tries a few hundred.

`OneOpenPerDetector`, `RangeErrorsLeft`, `PlansStayFrozen` (which `WeekBook`
implies) and `Invariant` are theorems that no run repeats.

Every state invariant and every action property of the passing runs is a
theorem, and so are the refinements of `ReadingLog` and `WeekBook`. Only model-checked are the
liveness properties `Terminates`, `AllServeInTheEnd`, `InboxConverges`,
`UploadReachesTrend` and `TearsDown`: liveness under fairness is out of the
prover's reach.

## 6. Where code and documents part without a run

* The UTC offset of a time stamp is dropped (`modules/m1_ingest.py:119`);
  `docs/data-model.md:5` has times in UTC. Two instants can collide and one
  instant can be stored twice.
* A manual reading out of range is stored and then answered 500
  (`app/api/v1/readings.py:92`, `:112`). The theorem `RangeErrorsLeft` states
  what the code does.
* Two overlapping passes both find no open alert and both insert one
  (`app/services/detect.py:59`), where the comment above (`:47-50`) has one open
  alert per point; `OneOpenAlertUnlessOverlapped` leaves those out.
* The view of a planned week shows the plan of the week planned last:
  `latest_plan` does not ask for the week (`app/services/plan.py:223`). Plan one
  week, then another, and open the first.
* Index 0 of a tour is a stop and not the depot, and `two_opt` never moves it
  (`modules/m3_schedule.py:100`): a reversal of the first stops may shorten a
  tour it returned. `NoTriedReversalHelps` speaks of the reversals it tries.
* Two overlapping passes can leave an alert with columns of two verdicts
  (`app/services/detect.py:74`); `OneVerdictUnlessOverlapped` leaves those out.
* Two acknowledgements of one alert (`detect.py:144`) or two confirmations of
  one plan (`app/api/v1/scheduling.py:75`) that overlap are both accepted; the
  last acknowledgement stands in the row.
* `sync_rules` rewrites catalogue rows in place (`app/services/plan.py:43`)
  where `app/models.py:10` speaks of versions; a task may also refer to a rule
  that is not in `reg_rule` yet when the file was edited in between.
* `run_detection_all` walks all points (`detect.py:114`); its docstring says
  active ones.
* A rule file missing at the stat and back at the read is cached under -1
  (`modules/m4_rules.py:51`); a later call that finds no file is served that
  revision. `LoadsAreCurrent` excepts calls without a time. Two edits within one
  tick of the file system look like one.
* The planner can return a longer tour than the nearest-neighbour baseline that
  `tests/test_m3_schedule.py:142` compares it with on the case system; rounding
  up leaves a vehicle without stops for 4 stops and 3 vehicles. Arrival times
  leave out the minutes of service at earlier stops (`modules/m3_schedule.py:217`),
  and `total_km` counts one closed tour per vehicle however many days it takes.
* M5: `dashboard.html:239` promises that a refresh can never wipe a half-entered
  operator ID. The filter keeps polls from being sent while a form has the focus;
  the answer of one that was sent before still replaces the form. The identity a
  form shows is that of the page's rendering: after another sign-in in the same
  browser the acknowledgement is recorded under the new one, which is why
  `AcknowledgedAsShown` asks for one era. A refused acknowledgement of a plain
  form is redirected and its notice lost. The chart follows uploads from its own
  page only.
* Authentication: a session ends with its token, but a restart with the old token
  revives it. Two operators with one token are the last one named. The session
  is checked when a request arrives (`app/auth.py:231`); an acknowledgement whose
  form is long in coming is recorded although the shift has ended meanwhile, and
  `AckWithinShift` bounds the time of its admission only.
* M2: `EWMA_SHIFT_UP` is what a downward shift raises. A series that is flat at
  zero raises nothing: it has neither noise nor slope.
* M6: criterion 3 passes without a plan; false alarms of the whole replay are
  counted as those of a week; a false alarm before the episode counts as lead.
  A report is written over the one of the same name, which is the first seven
  digits of the commit: a write that fails or is killed
  (`app/services/evaluate.py:130`) leaves another run's report empty or in
  pieces, although that run was answered 201, and two writes at once may mix.
  Only the next write that is alone with the file mends it; the rows of both runs
  stay.
* Evidence scripts: `unit6_harness.py:9` promises hermetic runs; two runs that
  draw one port talk to one server, and each finds the other's rows. A benchmark
  killed between truncating and writing the history makes the next start from an
  empty one, and so do two that write it at once where the texts do not fit.
  Transcripts and figures of two runs of one script may mix. `seed_case` ends with a `KeyError` on a week that cannot be planned,
  which the integration walk handles. The integration run quotes the worst p95,
  while the benchmark itself judges the conservative one. Panels of an earlier
  screenshot stay when a new one cannot be cut. A script that is killed leaves
  its server running.

## 7. Not modelled

* **scikit-learn's isolation forest and floating point**: the forest's answer is
  any; the other statistics are exact, so rounding in the last digit is left out.
* **M5**: drawing, and the network and week panels, which feed nothing back. The
  week's buttons are actions of `WeekPlan`.
* **Authentication**: forging a signature or guessing a token; the path a sign-in
  returns to. A legacy token that holds a comma would be split by the parser; a
  token here is one.
* **M3**: `nearest_neighbour_km`, the baseline, which M6 takes as a number.
* **Evidence scripts**: percentiles, memory, the timing of the rule catalogue and
  the texts of the checks.
* **Read-only endpoints** (registry, listings, exports) except where what they
  show is a property (`latest_plan`).
* **Loaders of network and registry files**: read once at startup; the seed is
  the set of the kinds of rows they yield.
* **Isolation levels**: a commit is atomic and a statement sees what is
  committed, which holds for SQLite and for PostgreSQL at its default level. A
  database that is locked or fails is the abort action of the request.
* **`tests/`, `docs/` and the other `examples/`**: read as references.
