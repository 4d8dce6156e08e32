------------------------------ MODULE WeekPlan ------------------------------
(***************************************************************************)
(* M4 and the planning service: the rule file becomes a catalogue, duties  *)
(* (required_task) and route plans, while other requests and the person    *)
(* who edits rules/oreg170.yaml go on working.                             *)
(*                                                                         *)
(* A request is one of                                                     *)
(*   generate  POST /tasks/generate: sync_rules, generate_week_tasks       *)
(*   plan      POST /plans: build_week_plan                                *)
(*   week      POST /dash/week/plan: all three, never with drafts          *)
(*   confirm   POST /plans/{id}/confirm and POST /dash/week/confirm        *)
(* Each service call reads, computes and commits; between the read and the *)
(* commit anything may happen, and each call reads the rule file anew.     *)
(*                                                                         *)
(* Routing (M3) is abstracted to what the tables show of it: a plan holds  *)
(* every task it was given.  A rule is its verified flag, and only rules   *)
(* with hard_constraint are in Rules.                                      *)
(***************************************************************************)
EXTENDS Integers, Sequences, FiniteSets

CONSTANTS
    Rules,          \* rule ids
    Points,         \* active sampling points of the system
    Weeks,          \* ISO weeks
    Requests,       \* requests in flight
    FirstYaml,      \* the rule file at startup
    Capacity,       \* tasks the fleet's service minutes allow in a week
    MaxEdits,       \* bound: edits of the rule file
    None

\* The rules of a file or of the table, and which of them are verified.
Catalogue == UNION {[R -> BOOLEAN] : R \in SUBSET Rules}

ASSUME YamlAssumption == FirstYaml \in Catalogue
ASSUME BoundsAssumption == Capacity \in Nat /\ MaxEdits \in Nat

VARIABLES
    yaml,           \* rules/oreg170.yaml as load_rules returns it
    edits,          \* how often it was edited
    everVerified,   \* history: rules some revision of the file verified
    catalogue,      \* table reg_rule
    tasks,          \* table required_task: <<point, rule, week>> -> row
    plans,          \* table route_plan with its stops, by created_at
    request

vars == <<yaml, edits, everVerified, catalogue, tasks, plans, request>>

TaskIds == Points \X Rules \X Weeks     \* uuid5 of point, rule and week
RuleOf(t) == t[2]
WeekOf(t) == t[3]

Verified(rules) == {r \in DOMAIN rules : rules[r]}

-----------------------------------------------------------------------------
NewRequest ==
    [kind |-> None, week |-> None, draft |-> FALSE, pc |-> "new",
     rules |-> None, rows |-> None, ids |-> {}, plan |-> 0]

\* lifespan has synchronised the catalogue before the first request.
Init ==
    /\ yaml = FirstYaml
    /\ edits = 0
    /\ everVerified = Verified(FirstYaml)
    /\ catalogue = FirstYaml
    /\ tasks = [t \in {} |-> None]
    /\ plans = <<>>
    /\ request = [k \in Requests |-> NewRequest]

\* Somebody verifies a rule, withdraws that or adds a rule; load_rules sees
\* the new file at its next call.
EditYaml(r, verified) ==
    /\ edits < MaxEdits
    /\ r \in DOMAIN yaml => yaml[r] # verified
    /\ edits' = edits + 1
    /\ yaml' = [q \in DOMAIN yaml \cup {r} |-> IF q = r THEN verified ELSE yaml[q]]
    /\ everVerified' = everVerified \cup Verified(yaml')
    /\ UNCHANGED <<catalogue, tasks, plans, request>>

FirstStep(kind) ==
    CASE kind \in {"generate", "week"} -> "sync"
      [] kind = "plan" -> "plan"
      [] kind = "confirm" -> "confirm"

Arrive(k, kind, week, draft) ==
    /\ request[k].pc = "new"
    /\ draft => kind = "generate"
    /\ request' = [request EXCEPT ![k] =
                    [NewRequest EXCEPT !.kind = kind, !.week = week,
                                       !.draft = draft, !.pc = FirstStep(kind)]]
    /\ UNCHANGED <<yaml, edits, everVerified, catalogue, tasks, plans>>

\* Request k moves on and remembers what is in `locals`.
Proceed(k, step, locals) ==
    request' = [request EXCEPT ![k] =
        [f \in DOMAIN NewRequest |->
            IF f = "pc" THEN step
            ELSE IF f \in DOMAIN locals THEN locals[f] ELSE @[f]]]

Nothing == [f \in {} |-> None]

-----------------------------------------------------------------------------
(* sync_rules.                                                             *)

LoadCatalogue(k) ==
    /\ request[k].pc = "sync"
    /\ Proceed(k, "syncing", [rules |-> yaml, rows |-> catalogue])
    /\ UNCHANGED <<yaml, edits, everVerified, catalogue, tasks, plans>>

Missing(k) == DOMAIN request[k].rules \ DOMAIN request[k].rows

\* Mutant: a new row is verified until the file says otherwise.
SyncedVerified(k, r) ==
    LET rules == request[k].rules
        rows == request[k].rows
    IN  IF r \in Missing(k) THEN TRUE
        ELSE IF r \in DOMAIN rules /\ rules[r] # rows[r] THEN rules[r]
        ELSE catalogue[r]

\* A row that was not found is inserted; one that was found is updated in the
\* columns that differ from it; rows the file no longer has stay.
Synced(k, r) ==
    LET rules == request[k].rules
        rows == request[k].rows
    IN  IF r \in Missing(k) THEN rules[r]
        ELSE IF r \in DOMAIN rules /\ rules[r] # rows[r] THEN rules[r]
        ELSE catalogue[r]

CommitCatalogue(k) ==
    /\ request[k].pc = "syncing"
    /\ Missing(k) \cap DOMAIN catalogue = {}
    /\ catalogue' = [r \in DOMAIN catalogue \cup Missing(k) |-> Synced(k, r)]
    /\ Proceed(k, "expand", Nothing)
    /\ UNCHANGED <<yaml, edits, everVerified, tasks, plans>>

\* Somebody else inserted the rule first: IntegrityError, a 500.
CatalogueConflict(k) ==
    /\ request[k].pc = "syncing"
    /\ Missing(k) \cap DOMAIN catalogue # {}
    /\ Proceed(k, "error", Nothing)
    /\ UNCHANGED <<yaml, edits, everVerified, catalogue, tasks, plans>>

-----------------------------------------------------------------------------
(* generate_week_tasks.                                                    *)

\* generate_tasks: a task for each active point and each rule that is not
\* inert, or for each rule when drafts are asked for.
Batch(rules, week, draft) ==
    Points \X (IF draft THEN DOMAIN rules ELSE Verified(rules)) \X {week}

LoadWeek(k) ==
    /\ request[k].pc = "expand"
    /\ Proceed(k, "expanding",
               [rules |-> yaml,
                ids |-> {t \in DOMAIN tasks : WeekOf(t) = request[k].week}])
    /\ UNCHANGED <<yaml, edits, everVerified, catalogue, tasks, plans>>

BatchOf(k) == Batch(request[k].rules, request[k].week, request[k].draft)
NewTasks(k) == BatchOf(k) \ request[k].ids

AfterTasks(k) == IF request[k].kind = "week" THEN "plan" ELSE "ok"

NewTask(k) ==
    [status |-> "pending", draft |-> request[k].draft]

\* Mutant: the whole batch is merged into the table, known tasks included.
CommitTasksMerging(k) ==
    /\ request[k].pc = "expanding"
    /\ tasks' = [t \in DOMAIN tasks \cup BatchOf(k) |->
                    IF t \in BatchOf(k) THEN NewTask(k) ELSE tasks[t]]
    /\ Proceed(k, AfterTasks(k), Nothing)
    /\ UNCHANGED <<yaml, edits, everVerified, catalogue, plans>>

CommitTasks(k) ==
    /\ request[k].pc = "expanding"
    /\ NewTasks(k) \cap DOMAIN tasks = {}
    /\ tasks' = [t \in DOMAIN tasks \cup NewTasks(k) |->
                    IF t \in NewTasks(k) THEN NewTask(k) ELSE tasks[t]]
    /\ Proceed(k, AfterTasks(k), Nothing)
    /\ UNCHANGED <<yaml, edits, everVerified, catalogue, plans>>

\* Mutant: a primary-key conflict is taken for "already generated".
TasksConflictSwallowed(k) ==
    /\ request[k].pc = "expanding"
    /\ NewTasks(k) \cap DOMAIN tasks # {}
    /\ Proceed(k, AfterTasks(k), Nothing)
    /\ UNCHANGED <<yaml, edits, everVerified, catalogue, tasks, plans>>

\* A concurrent run inserted one of the tasks: the whole batch is rolled back.
TasksConflict(k) ==
    /\ request[k].pc = "expanding"
    /\ NewTasks(k) \cap DOMAIN tasks # {}
    /\ Proceed(k, "error", Nothing)
    /\ UNCHANGED <<yaml, edits, everVerified, catalogue, tasks, plans>>

-----------------------------------------------------------------------------
(* build_week_plan.                                                        *)

WeekTasks(week) == {t \in DOMAIN tasks : WeekOf(t) = week}

Plannable(ids) == ids # {} /\ Cardinality(ids) <= Capacity

LoadTasks(k) ==
    /\ request[k].pc = "plan"
    /\ Plannable(WeekTasks(request[k].week))
    /\ Proceed(k, "planning", [ids |-> WeekTasks(request[k].week)])
    /\ UNCHANGED <<yaml, edits, everVerified, catalogue, tasks, plans>>

\* No duties, or more than the fleet can serve: a ValueError, nothing written.
RefusePlan(k) ==
    /\ request[k].pc = "plan"
    /\ ~Plannable(WeekTasks(request[k].week))
    /\ Proceed(k, "refused", Nothing)
    /\ UNCHANGED <<yaml, edits, everVerified, catalogue, tasks, plans>>

\* Mutant: the plan enters the table with a task's status.
NewPlanPending(k) ==
    [week |-> request[k].week, status |-> "pending", stops |-> request[k].ids, by |-> k]

NewPlan(k) ==
    [week |-> request[k].week, status |-> "draft", stops |-> request[k].ids, by |-> k]

Planned(ids) ==
    [t \in DOMAIN tasks |-> IF t \in ids THEN [tasks[t] EXCEPT !.status = "planned"]
                                         ELSE tasks[t]]

\* Mutant: every duty the week has by now is marked as planned.
CommitPlanMarkingAll(k) ==
    /\ request[k].pc = "planning"
    /\ plans' = Append(plans, NewPlan(k))
    /\ tasks' = Planned(WeekTasks(request[k].week))
    /\ Proceed(k, "ok", Nothing)
    /\ UNCHANGED <<yaml, edits, everVerified, catalogue>>

\* Mutant: planning a week again rewrites the plan it already has.
CommitPlanInPlace(k) ==
    LET known == {i \in DOMAIN plans : plans[i].week = request[k].week}
    IN  /\ request[k].pc = "planning"
        /\ plans' = IF known = {} THEN Append(plans, NewPlan(k))
                    ELSE [i \in DOMAIN plans |->
                            IF i \in known THEN NewPlan(k) ELSE plans[i]]
        /\ tasks' = Planned(request[k].ids)
        /\ Proceed(k, "ok", Nothing)
        /\ UNCHANGED <<yaml, edits, everVerified, catalogue>>

\* One transaction: the plan, its stops, the status of the tasks it visits.
CommitPlan(k) ==
    /\ request[k].pc = "planning"
    /\ plans' = Append(plans, NewPlan(k))
    /\ tasks' = Planned(request[k].ids)
    /\ Proceed(k, "ok", Nothing)
    /\ UNCHANGED <<yaml, edits, everVerified, catalogue>>

-----------------------------------------------------------------------------
(* Confirming a plan.                                                      *)

LoadPlan(k, i) ==
    /\ request[k].pc = "confirm"
    /\ plans[i].status = "draft"
    /\ Proceed(k, "confirming", [plan |-> i])
    /\ UNCHANGED <<yaml, edits, everVerified, catalogue, tasks, plans>>

RefuseConfirm(k, i) ==
    /\ request[k].pc = "confirm"
    /\ plans[i].status = "confirmed"
    /\ Proceed(k, "refused", [plan |-> i])
    /\ UNCHANGED <<yaml, edits, everVerified, catalogue, tasks, plans>>

CommitConfirm(k) ==
    /\ request[k].pc = "confirming"
    /\ plans' = [plans EXCEPT ![request[k].plan].status = "confirmed"]
    /\ Proceed(k, "ok", Nothing)
    /\ UNCHANGED <<yaml, edits, everVerified, catalogue, tasks>>

-----------------------------------------------------------------------------
\* A commit fails, or the process dies between two steps of a request.
Abort(k) ==
    /\ request[k].pc \in {"syncing", "expand", "expanding", "plan", "planning",
                          "confirming"}
    /\ Proceed(k, "error", Nothing)
    /\ UNCHANGED <<yaml, edits, everVerified, catalogue, tasks, plans>>

RequestStep(k) ==
    \/ \E kind \in {"generate", "plan", "week", "confirm"}, week \in Weeks,
          draft \in BOOLEAN : Arrive(k, kind, week, draft)
    \/ LoadCatalogue(k)
    \/ CommitCatalogue(k)
    \/ CatalogueConflict(k)
    \/ LoadWeek(k)
    \/ CommitTasks(k)
    \/ TasksConflict(k)
    \/ LoadTasks(k)
    \/ RefusePlan(k)
    \/ CommitPlan(k)
    \/ \E i \in DOMAIN plans : LoadPlan(k, i) \/ RefuseConfirm(k, i)
    \/ CommitConfirm(k)
    \/ Abort(k)

Next ==
    \/ \E r \in Rules, verified \in BOOLEAN : EditYaml(r, verified)
    \/ \E k \in Requests : RequestStep(k)

Spec == Init /\ [][Next]_vars

-----------------------------------------------------------------------------
(* Properties.                                                             *)

Task == [status : {"pending", "planned"}, draft : BOOLEAN]
Plan == [week : Weeks, status : {"draft", "confirmed"},
         stops : SUBSET TaskIds, by : Requests]
Request == [kind : {"generate", "plan", "week", "confirm", None},
            week : Weeks \cup {None}, draft : BOOLEAN,
            pc : {"new", "sync", "syncing", "expand", "expanding", "plan",
                  "planning", "confirm", "confirming", "ok", "refused", "error"},
            rules : Catalogue \cup {None}, rows : Catalogue \cup {None},
            ids : SUBSET TaskIds, plan : Nat]

\* The tables and the requests have the shapes of models.py and enums.py.
TypeOK ==
    /\ yaml \in Catalogue
    /\ edits \in 0 .. MaxEdits
    /\ everVerified \subseteq Rules
    /\ catalogue \in Catalogue
    /\ DOMAIN tasks \subseteq TaskIds
    /\ \A t \in DOMAIN tasks : tasks[t] \in Task
    /\ plans \in Seq(Plan)
    /\ request \in [Requests -> Request]

\* required_task rows are never deleted; whatever is regenerated or planned
\* again, a row keeps its draft label, and its status moves from pending to
\* planned and never back.
TasksOnlyAdvance ==
    [][/\ DOMAIN tasks \subseteq DOMAIN tasks'
       /\ \A t \in DOMAIN tasks :
            /\ tasks'[t].draft = tasks[t].draft
            /\ tasks[t].status = "planned" => tasks'[t].status = "planned"]_tasks

\* A task is marked planned exactly when some plan visits it, and a plan
\* visits tasks on record of its own week only, although tasks are added
\* while the plan is computed.
PlannedIffRouted ==
    /\ \A t \in DOMAIN tasks :
          tasks[t].status = "planned" <=> \E i \in DOMAIN plans : t \in plans[i].stops
    /\ \A i \in DOMAIN plans : plans[i].stops \subseteq WeekTasks(plans[i].week)

\* "Generate this week's plan" leaves nothing out: the plan visits every duty
\* of the rules that were expanded for it, also when the week was planned
\* before and when other requests generated part of it.
WeekPlanCoversItsDuties ==
    \A i \in DOMAIN plans :
        request[plans[i].by].kind = "week" => BatchOf(plans[i].by) \subseteq plans[i].stops

\* An unverified rule is inert on the default path: a task without the draft
\* label, like a row of the catalogue that says so, is of a rule that some
\* revision of the rule file verified, although the file is read twice per
\* request and may be edited in between, and requests that synchronise the
\* catalogue overlap.
VerifiedMeansSomebodyDid ==
    /\ Verified(catalogue) \subseteq everVerified
    /\ \A t \in DOMAIN tasks : ~tasks[t].draft => RuleOf(t) \in everVerified

\* Plans are frozen in all but their confirmation: a plan is never dropped or
\* re-routed, and a confirmed plan stays confirmed.
PlansAreFrozen ==
    [][/\ Len(plans) <= Len(plans')
       /\ \A i \in DOMAIN plans :
            \/ plans'[i] = plans[i]
            \/ plans'[i] = [plans[i] EXCEPT !.status = "confirmed"]]_plans

\* Duties and plans are a book in which nothing is struck out: see WeekBook.
Book == INSTANCE WeekBook WITH
    Duties <- TaskIds,
    Due <- [t \in TaskIds |-> WeekOf(t)],
    duties <- [t \in DOMAIN tasks |-> tasks[t].draft],
    planned <- {t \in DOMAIN tasks : tasks[t].status = "planned"},
    routes <- [i \in DOMAIN plans |->
                 [week |-> plans[i].week, stops |-> plans[i].stops,
                  confirmed |-> plans[i].status = "confirmed"]]

\* generate_week_tasks, build_week_plan and confirm_plan, though each reads
\* first and commits later, implement the book: what is entered was not there,
\* a plan and the marks of its duties appear together and speak of duties on
\* record, and confirming a plan twice, or planning a week again, changes
\* nothing that was there.
ImplementsWeekBook == Book!Spec

-----------------------------------------------------------------------------
(* What the comments and documents say and the code does not do.           *)

\* m4_rules.py: "An unverified guess must never become a compliance schedule".
PlansHoldVerifiedDuties ==
    \A i \in DOMAIN plans : \A t \in plans[i].stops : RuleOf(t) \in everVerified
=============================================================================
