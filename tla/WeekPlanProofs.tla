--------------------------- MODULE WeekPlanProofs ---------------------------
(***************************************************************************)
(* Proofs about WeekPlan, for any rules, points, weeks, requests and       *)
(* edits of the rule file.                                                 *)
(*                                                                         *)
(* The tables only grow, and what a request remembers of them stays true   *)
(* while others commit (RemembersTasks, RemembersRules): this is what      *)
(* carries a request from what it read to what it writes.                  *)
(***************************************************************************)
EXTENDS WeekPlan, TLAPS

-----------------------------------------------------------------------------
(* Requests and catalogues.                                                *)

Fields == {"kind", "week", "draft", "pc", "rules", "rows", "ids", "plan"}

\* A request that has not arrived yet.
LEMMA NewRequestTyped == NewRequest \in Request /\ DOMAIN NewRequest = Fields
  BY DEF NewRequest, Request, Fields

\* What Proceed leaves of a request, field by field, and that it touches no
\* other request.
LEMMA ProceedFields ==
  ASSUME request \in [Requests -> Request], NEW k \in Requests,
         NEW step, NEW locals, Proceed(k, step, locals)
  PROVE  /\ DOMAIN request' = Requests
         /\ \A q \in Requests \ {k} : request'[q] = request[q]
         /\ request'[k] =
              [f \in Fields |-> IF f = "pc" THEN step
                                ELSE IF f \in DOMAIN locals THEN locals[f]
                                ELSE request[k][f]]
  BY NewRequestTyped DEF Proceed

LEMMA ProceedValues ==
  ASSUME request \in [Requests -> Request], NEW k \in Requests,
         NEW step, NEW locals, Proceed(k, step, locals),
         DOMAIN locals \subseteq {"rules", "rows", "ids", "plan"}
  PROVE  LET r == request'[k]
             s == request[k]
         IN /\ r.pc = step /\ r.kind = s.kind /\ r.week = s.week /\ r.draft = s.draft
            /\ r.rules = IF "rules" \in DOMAIN locals THEN locals["rules"] ELSE s.rules
            /\ r.rows = IF "rows" \in DOMAIN locals THEN locals["rows"] ELSE s.rows
            /\ r.ids = IF "ids" \in DOMAIN locals THEN locals["ids"] ELSE s.ids
            /\ r.plan = IF "plan" \in DOMAIN locals THEN locals["plan"] ELSE s.plan
            /\ r = [kind |-> r.kind, week |-> r.week, draft |-> r.draft, pc |-> r.pc,
                    rules |-> r.rules, rows |-> r.rows, ids |-> r.ids, plan |-> r.plan]
<1> DEFINE r == request'[k]
<1> DEFINE F(f) == IF f = "pc" THEN step
                   ELSE IF f \in DOMAIN locals THEN locals[f] ELSE request[k][f]
<1>1. r = [f \in Fields |-> F(f)]
  BY ProceedFields
<1>2. r = [kind |-> r.kind, week |-> r.week, draft |-> r.draft, pc |-> r.pc,
           rules |-> r.rules, rows |-> r.rows, ids |-> r.ids, plan |-> r.plan]
  <2> HIDE DEF F
  <2> QED BY <1>1 DEF Fields
<1>3. \A f \in Fields : r[f] = F(f)
  BY <1>1
<1>4. "pc" \notin DOMAIN locals /\ "kind" \notin DOMAIN locals /\ "week" \notin DOMAIN locals
      /\ "draft" \notin DOMAIN locals
  OBVIOUS
<1> QED BY <1>2, <1>3, <1>4 DEF Fields

\* A batch holds tasks of its week and of the rules it was expanded from.
LEMMA BatchTasks ==
  ASSUME NEW rules \in Catalogue, NEW week \in Weeks, NEW draft \in BOOLEAN,
         NEW t \in Batch(rules, week, draft)
  PROVE  /\ t \in TaskIds /\ WeekOf(t) = week
         /\ ~draft => RuleOf(t) \in Verified(rules)
<1>1. DOMAIN rules \subseteq Rules
  BY DEF Catalogue
<1>2. PICK p \in Points, r \in (IF draft THEN DOMAIN rules ELSE Verified(rules)) :
          t = <<p, r, week>>
  BY DEF Batch
<1> QED BY <1>1, <1>2 DEF TaskIds, WeekOf, RuleOf, Verified

\* A request keeps its type as long as what it remembers has one.
LEMMA ProceedTyped ==
  ASSUME request \in [Requests -> Request], NEW k \in Requests,
         NEW step \in {"syncing", "expand", "expanding", "plan", "planning",
                       "confirming", "ok", "refused", "error"},
         NEW locals, Proceed(k, step, locals),
         DOMAIN locals \subseteq {"rules", "rows", "ids", "plan"},
         "rules" \in DOMAIN locals => locals["rules"] \in Catalogue,
         "rows" \in DOMAIN locals => locals["rows"] \in Catalogue,
         "ids" \in DOMAIN locals => locals["ids"] \subseteq TaskIds,
         "plan" \in DOMAIN locals => locals["plan"] \in Nat
  PROVE  request' \in [Requests -> Request]
<1>1. request[k] \in Request
  OBVIOUS
<1> DEFINE r == request'[k]
<1>2. /\ r = [kind |-> r.kind, week |-> r.week, draft |-> r.draft, pc |-> r.pc,
              rules |-> r.rules, rows |-> r.rows, ids |-> r.ids, plan |-> r.plan]
      /\ r.pc = step /\ r.kind = request[k].kind /\ r.week = request[k].week
      /\ r.draft = request[k].draft
      /\ r.rules \in Catalogue \cup {None} /\ r.rows \in Catalogue \cup {None}
      /\ r.ids \in SUBSET TaskIds /\ r.plan \in Nat
  <2>1. /\ request[k].rules \in Catalogue \cup {None} /\ request[k].rows \in Catalogue \cup {None}
        /\ request[k].ids \in SUBSET TaskIds /\ request[k].plan \in Nat
    BY <1>1 DEF Request
  <2> QED BY <2>1, ProceedValues
<1>3. /\ request[k].kind \in {"generate", "plan", "week", "confirm", None}
      /\ request[k].week \in Weeks \cup {None} /\ request[k].draft \in BOOLEAN
  BY <1>1 DEF Request
<1>4. r \in Request
  <2> HIDE DEF r
  <2> QED BY <1>2, <1>3 DEF Request
<1>5. DOMAIN request' = Requests /\ \A q \in Requests \ {k} : request'[q] = request[q]
  BY ProceedFields
<1>6. request' = [q \in Requests |-> request'[q]]
  BY <1>5 DEF Proceed
<1> QED BY <1>4, <1>5, <1>6

-----------------------------------------------------------------------------
(* The inductive invariant.                                                *)

\* What a request remembers of the rule file and of the plans.
RemembersRules(k) ==
    /\ request[k].pc # "new" => request[k].week \in Weeks
    /\ \/ request[k].pc \in {"syncing", "expanding"}
       \/ request[k].kind = "week" /\ request[k].pc \in {"plan", "planning"}
       => request[k].rules \in Catalogue /\ Verified(request[k].rules) \subseteq everVerified
    /\ request[k].pc = "syncing" => request[k].rows \in Catalogue
    /\ request[k].pc = "confirming" => request[k].plan \in DOMAIN plans

\* What it remembers of the tasks: they stay on record.
RemembersTasks(k) ==
    /\ request[k].pc \in {"expanding", "planning"} =>
            request[k].ids \subseteq WeekTasks(request[k].week)
    /\ request[k].kind = "week" /\ request[k].pc \in {"plan", "planning"} =>
            BatchOf(k) \subseteq WeekTasks(request[k].week)
    /\ request[k].kind = "week" /\ request[k].pc = "planning" =>
            BatchOf(k) \subseteq request[k].ids
    /\ request[k].pc = "planning" => request[k].ids # {}

PlansAreAccepted == \A i \in DOMAIN plans : request[plans[i].by].pc = "ok"

IndInv ==
    /\ TypeOK
    /\ Verified(yaml) \subseteq everVerified
    /\ VerifiedMeansSomebodyDid
    /\ PlannedIffRouted
    /\ \A k \in Requests : RemembersRules(k) /\ RemembersTasks(k)
    /\ PlansAreAccepted
    /\ WeekPlanCoversItsDuties

\* lifespan leaves the system in such a state (main.py), before any request.
LEMMA IndInit == Init => IndInv
<1> SUFFICES ASSUME Init PROVE IndInv
  OBVIOUS
<1>1. request \in [Requests -> Request] /\ \A k \in Requests : request[k] = NewRequest
  BY NewRequestTyped DEF Init
<1>2. tasks = [t \in {} |-> None] /\ DOMAIN tasks = {} /\ plans = <<>> /\ plans \in Seq(Plan)
      /\ DOMAIN plans = {}
  BY DEF Init
<1>3. FirstYaml \in Catalogue /\ Verified(FirstYaml) \subseteq Rules /\ MaxEdits \in Nat
  BY YamlAssumption, BoundsAssumption DEF Catalogue, Verified
<1>4. TypeOK
  BY <1>1, <1>2, <1>3 DEF Init, TypeOK
<1>5. \A k \in Requests : request[k].pc = "new"
  BY <1>1 DEF NewRequest
<1>6. \A k \in Requests : RemembersRules(k) /\ RemembersTasks(k)
  BY <1>5 DEF RemembersRules, RemembersTasks
<1>7. VerifiedMeansSomebodyDid /\ Verified(yaml) \subseteq everVerified
  BY <1>2 DEF Init, VerifiedMeansSomebodyDid
<1>8. PlannedIffRouted /\ PlansAreAccepted /\ WeekPlanCoversItsDuties
  BY <1>2 DEF PlannedIffRouted, PlansAreAccepted, WeekPlanCoversItsDuties
<1> QED BY <1>4, <1>6, <1>7, <1>8 DEF IndInv

\* Whoever takes no part in a step remembers what he did: the tables grow.
LEMMA OthersRemember ==
  ASSUME NEW q \in Requests, RemembersRules(q), RemembersTasks(q),
         request'[q] = request[q],
         everVerified \subseteq everVerified', DOMAIN tasks \subseteq DOMAIN tasks',
         DOMAIN plans \subseteq DOMAIN plans'
  PROVE  RemembersRules(q)' /\ RemembersTasks(q)'
<1>1. \A w : WeekTasks(w) \subseteq WeekTasks(w)'
  BY DEF WeekTasks
<1>2. BatchOf(q)' = BatchOf(q)
  BY DEF BatchOf
<1>3. RemembersRules(q)'
  BY DEF RemembersRules
<1>4. RemembersTasks(q)'
  BY <1>1, <1>2 DEF RemembersTasks
<1> QED BY <1>3, <1>4

\* Plans stand while a request that has not been answered moves on.
LEMMA PlansStand ==
  ASSUME IndInv, NEW k \in Requests, request[k].pc # "ok",
         \A q \in Requests \ {k} : request'[q] = request[q], plans' = plans
  PROVE  PlansAreAccepted' /\ WeekPlanCoversItsDuties'
<1> USE DEF IndInv
<1>1. \A i \in DOMAIN plans : plans[i].by \in Requests \ {k}
  <2> SUFFICES ASSUME NEW i \in DOMAIN plans PROVE plans[i].by \in Requests \ {k}
    OBVIOUS
  <2>1. plans[i] \in Plan
    BY DEF TypeOK
  <2> QED BY <2>1 DEF Plan, PlansAreAccepted
<1>2. \A q \in Requests \ {k} : BatchOf(q)' = BatchOf(q)
  BY DEF BatchOf
<1> QED BY <1>1, <1>2 DEF PlansAreAccepted, WeekPlanCoversItsDuties

\* A step of one request that writes no table.
LEMMA LocalStep ==
  ASSUME IndInv, NEW k \in Requests, request[k].pc # "ok",
         \A q \in Requests \ {k} : request'[q] = request[q],
         request' \in [Requests -> Request],
         RemembersRules(k)', RemembersTasks(k)',
         UNCHANGED <<yaml, edits, everVerified, catalogue, tasks, plans>>
  PROVE  IndInv'
<1>1. TypeOK' /\ (Verified(yaml) \subseteq everVerified)'
  BY DEF IndInv, TypeOK, Verified
<1>2. VerifiedMeansSomebodyDid' /\ PlannedIffRouted'
  BY DEF IndInv, VerifiedMeansSomebodyDid, PlannedIffRouted, WeekTasks, Verified
<1>3. \A q \in Requests : RemembersRules(q)' /\ RemembersTasks(q)'
  <2> SUFFICES ASSUME NEW q \in Requests PROVE RemembersRules(q)' /\ RemembersTasks(q)'
    OBVIOUS
  <2>1. CASE q = k
    BY <2>1
  <2>2. CASE q # k
    BY <2>2, OthersRemember DEF IndInv
  <2> QED BY <2>1, <2>2
<1>4. PlansAreAccepted' /\ WeekPlanCoversItsDuties'
  BY PlansStand
<1> QED BY <1>1, <1>2, <1>3, <1>4 DEF IndInv

-----------------------------------------------------------------------------
(* The steps.                                                              *)

\* An edit of the rule file changes no table; the history takes in what it
\* verifies.
LEMMA IndEditYaml ==
  ASSUME IndInv, NEW r \in Rules, NEW verified \in BOOLEAN, EditYaml(r, verified)
  PROVE  IndInv'
<1> USE DEF IndInv
<1>1. UNCHANGED <<catalogue, tasks, plans, request>> /\ everVerified \subseteq everVerified'
      /\ Verified(yaml') \subseteq everVerified'
  BY DEF EditYaml
<1>2. yaml' \in Catalogue /\ everVerified' \subseteq Rules /\ edits' \in 0 .. MaxEdits
  <2>1. yaml \in Catalogue /\ edits \in 0 .. MaxEdits /\ MaxEdits \in Nat /\ everVerified \subseteq Rules
    BY BoundsAssumption DEF TypeOK
  <2>2. DOMAIN yaml \cup {r} \in SUBSET Rules /\ \A q \in DOMAIN yaml : yaml[q] \in BOOLEAN
    BY <2>1 DEF Catalogue
  <2>3. yaml' \in [DOMAIN yaml \cup {r} -> BOOLEAN]
    BY <2>2 DEF EditYaml
  <2>4. yaml' \in Catalogue
    BY <2>2, <2>3 DEF Catalogue
  <2>5. Verified(yaml') \subseteq Rules
    BY <2>4 DEF Catalogue, Verified
  <2> QED BY <2>1, <2>4, <2>5 DEF EditYaml
<1>3. TypeOK'
  BY <1>1, <1>2 DEF TypeOK
<1>4. VerifiedMeansSomebodyDid'
  BY <1>1 DEF VerifiedMeansSomebodyDid, Verified
<1>5. PlannedIffRouted' /\ PlansAreAccepted' /\ WeekPlanCoversItsDuties'
  BY <1>1 DEF PlannedIffRouted, WeekTasks, PlansAreAccepted, WeekPlanCoversItsDuties, BatchOf
<1>6. \A q \in Requests : RemembersRules(q)' /\ RemembersTasks(q)'
  BY <1>1, OthersRemember
<1>7. (Verified(yaml) \subseteq everVerified)'
  BY <1>1 DEF Verified
<1> QED BY <1>3, <1>4, <1>5, <1>6, <1>7

\* A request enters with nothing remembered.
LEMMA IndArrive ==
  ASSUME IndInv, NEW k \in Requests, NEW kind \in {"generate", "plan", "week", "confirm"},
         NEW week \in Weeks, NEW draft \in BOOLEAN, Arrive(k, kind, week, draft)
  PROVE  IndInv'
<1>1. request[k].pc = "new" /\ request \in [Requests -> Request]
  BY DEF IndInv, TypeOK, Arrive
<1>2. FirstStep(kind) \in {"sync", "plan", "confirm"} /\ (FirstStep(kind) = "plan" => kind = "plan")
  BY DEF FirstStep
<1> DEFINE r == [NewRequest EXCEPT !.kind = kind, !.week = week, !.draft = draft,
                                   !.pc = FirstStep(kind)]
<1> DEFINE s == [kind |-> kind, week |-> week, draft |-> draft, pc |-> FirstStep(kind),
                 rules |-> None, rows |-> None, ids |-> {}, plan |-> 0]
<1>3. r = s
  <2>1. DOMAIN r = Fields /\ DOMAIN s = Fields
    BY DEF NewRequest, Fields
  <2>2. \A f \in Fields : r[f] = s[f]
    <3>1. \A f \in Fields \ {"kind", "week", "draft", "pc"} : NewRequest[f] = s[f]
      BY DEF NewRequest, Fields
    <3>2. DOMAIN NewRequest = Fields
      BY NewRequestTyped
    <3>3. s["draft"] = draft
      BY Zenon
    <3>4. /\ s["kind"] = kind /\ s["week"] = week /\ s["pc"] = FirstStep(kind)
      OBVIOUS
    <3> HIDE DEF s
    <3> QED BY <3>1, <3>2, <3>3, <3>4 DEF Fields
  <2>3. r = [f \in Fields |-> r[f]] /\ s = [f \in Fields |-> s[f]]
    BY <2>1 DEF NewRequest
  <2> HIDE DEF r, s
  <2> QED BY <2>2, <2>3
<1>4. r \in Request
  <2>1. s \in Request
    <3>1. FirstStep(kind) \in {"sync", "plan", "confirm"}
      BY <1>2
    <3> QED BY <3>1 DEF Request
  <2> QED BY <1>3, <2>1
<1>5. request' = [request EXCEPT ![k] = r]
  BY DEF Arrive
<1>6. request' \in [Requests -> Request] /\ request'[k] = r
      /\ \A q \in Requests \ {k} : request'[q] = request[q]
  <2> HIDE DEF r
  <2> QED BY <1>1, <1>4, <1>5
<1>7. /\ request'[k].pc = FirstStep(kind) /\ request'[k].week = week
      /\ request'[k].kind = kind
  BY <1>3, <1>6
<1>8. RemembersRules(k)' /\ RemembersTasks(k)'
  BY <1>2, <1>7 DEF RemembersRules, RemembersTasks
<1>9. UNCHANGED <<yaml, edits, everVerified, catalogue, tasks, plans>>
  BY DEF Arrive
<1> QED BY <1>1, <1>6, <1>8, <1>9, LocalStep

\* The steps that read something, or give up.
LEMMA IndLocal ==
  ASSUME IndInv, NEW k \in Requests,
         \/ LoadCatalogue(k) \/ CatalogueConflict(k) \/ LoadWeek(k) \/ TasksConflict(k)
         \/ LoadTasks(k) \/ RefusePlan(k) \/ Abort(k)
         \/ \E i \in DOMAIN plans : LoadPlan(k, i) \/ RefuseConfirm(k, i)
  PROVE  IndInv'
<1>1. /\ request \in [Requests -> Request] /\ yaml \in Catalogue /\ catalogue \in Catalogue
      /\ DOMAIN tasks \subseteq TaskIds /\ Verified(yaml) \subseteq everVerified
      /\ RemembersRules(k) /\ RemembersTasks(k)
      /\ DOMAIN plans \subseteq Nat
  BY DEF IndInv, TypeOK
<1>2. UNCHANGED <<yaml, edits, everVerified, catalogue, tasks, plans>>
  BY DEF LoadCatalogue, CatalogueConflict, LoadWeek, TasksConflict, LoadTasks,
         RefusePlan, Abort, LoadPlan, RefuseConfirm
<1>3. ASSUME NEW step \in {"syncing", "expanding", "planning", "confirming", "refused", "error"},
             NEW locals, Proceed(k, step, locals), request[k].pc \notin {"ok", "new"},
             DOMAIN locals \subseteq {"rules", "rows", "ids", "plan"},
             "rules" \in DOMAIN locals => locals["rules"] \in Catalogue,
             "rows" \in DOMAIN locals => locals["rows"] \in Catalogue,
             "ids" \in DOMAIN locals => locals["ids"] \subseteq TaskIds,
             "plan" \in DOMAIN locals => locals["plan"] \in Nat,
             RemembersRules(k)', RemembersTasks(k)'
      PROVE  IndInv'
  <2>1. request' \in [Requests -> Request]
    BY <1>1, <1>3, ProceedTyped
  <2>2. \A q \in Requests \ {k} : request'[q] = request[q]
    BY <1>1, <1>3, ProceedFields
  <2> QED BY <1>2, <1>3, <2>1, <2>2, LocalStep
<1>4. ASSUME NEW step \in {"refused", "error"}, Proceed(k, step, Nothing),
             request[k].pc \notin {"ok", "new"}
      PROVE  IndInv'
  <2>1. DOMAIN Nothing = {}
    BY DEF Nothing
  <2>2. request'[k].pc = step /\ request'[k].week = request[k].week
    BY <1>1, <1>4, <2>1, ProceedValues
  <2>3. RemembersRules(k)' /\ RemembersTasks(k)'
    BY <1>1, <1>4, <2>2 DEF RemembersRules, RemembersTasks
  <2> QED BY <1>3, <1>4, <2>1, <2>3
<1>5. CASE LoadCatalogue(k)
  <2> DEFINE locals == [rules |-> yaml, rows |-> catalogue]
  <2>1. Proceed(k, "syncing", locals) /\ request[k].pc = "sync"
        /\ DOMAIN locals = {"rules", "rows"}
        /\ locals["rules"] = yaml /\ locals["rows"] = catalogue
    BY <1>5 DEF LoadCatalogue
  <2> HIDE DEF locals
  <2>2. /\ request'[k].pc = "syncing" /\ request'[k].week = request[k].week
        /\ request'[k].rules = yaml /\ request'[k].rows = catalogue
    BY <1>1, <2>1, ProceedValues
  <2>3. RemembersRules(k)' /\ RemembersTasks(k)'
    BY <1>1, <1>2, <2>1, <2>2 DEF RemembersRules, RemembersTasks
  <2> QED BY <1>1, <1>3, <2>1, <2>3
<1>6. CASE LoadWeek(k)
  <2> DEFINE locals == [rules |-> yaml,
                        ids |-> {t \in DOMAIN tasks : WeekOf(t) = request[k].week}]
  <2>1. Proceed(k, "expanding", locals) /\ request[k].pc = "expand"
        /\ DOMAIN locals = {"rules", "ids"}
        /\ locals["rules"] = yaml /\ locals["ids"] = WeekTasks(request[k].week)
    BY <1>6 DEF LoadWeek, WeekTasks
  <2> HIDE DEF locals
  <2>2. /\ request'[k].pc = "expanding" /\ request'[k].week = request[k].week
        /\ request'[k].rules = yaml /\ request'[k].ids = WeekTasks(request[k].week)
    BY <1>1, <2>1, ProceedValues
  <2>3. WeekTasks(request[k].week) \subseteq TaskIds
        /\ WeekTasks(request[k].week)' = WeekTasks(request[k].week)
    BY <1>1, <1>2, <2>2 DEF WeekTasks
  <2>4. RemembersRules(k)' /\ RemembersTasks(k)'
    BY <1>1, <1>2, <2>1, <2>2, <2>3 DEF RemembersRules, RemembersTasks
  <2> QED BY <1>1, <1>3, <2>1, <2>3, <2>4
<1>7. CASE LoadTasks(k)
  <2> DEFINE locals == [ids |-> WeekTasks(request[k].week)]
  <2>1. Proceed(k, "planning", locals) /\ request[k].pc = "plan"
        /\ DOMAIN locals = {"ids"} /\ locals["ids"] = WeekTasks(request[k].week)
        /\ WeekTasks(request[k].week) # {}
    BY <1>7 DEF LoadTasks, Plannable
  <2> HIDE DEF locals
  <2>2. /\ request'[k].pc = "planning" /\ request'[k].week = request[k].week
        /\ request'[k].kind = request[k].kind /\ request'[k].draft = request[k].draft
        /\ request'[k].rules = request[k].rules
        /\ request'[k].ids = WeekTasks(request[k].week)
    BY <1>1, <2>1, ProceedValues
  <2>3. WeekTasks(request[k].week) \subseteq TaskIds
        /\ WeekTasks(request[k].week)' = WeekTasks(request[k].week)
    BY <1>1, <1>2, <2>2 DEF WeekTasks
  <2>4. BatchOf(k)' = BatchOf(k)
    BY <2>2 DEF BatchOf
  <2>5. RemembersRules(k)' /\ RemembersTasks(k)'
    BY <1>1, <1>2, <2>1, <2>2, <2>3, <2>4 DEF RemembersRules, RemembersTasks
  <2> QED BY <1>3, <2>1, <2>3, <2>5
<1>8. ASSUME NEW i \in DOMAIN plans, NEW step \in {"confirming", "refused"},
             request[k].pc = "confirm", Proceed(k, step, [plan |-> i])
      PROVE  IndInv'
  <2> DEFINE locals == [plan |-> i]
  <2>1. Proceed(k, step, locals) /\ DOMAIN locals = {"plan"} /\ locals["plan"] = i
    BY <1>8
  <2> HIDE DEF locals
  <2>2. request'[k].pc = step /\ request'[k].week = request[k].week /\ request'[k].plan = i
    BY <1>1, <2>1, ProceedValues
  <2>3. RemembersRules(k)' /\ RemembersTasks(k)'
    BY <1>1, <1>2, <1>8, <2>2 DEF RemembersRules, RemembersTasks
  <2>4. i \in Nat
    BY <1>1
  <2> QED BY <1>3, <1>8, <2>1, <2>3, <2>4
<1>9. CASE CatalogueConflict(k) \/ TasksConflict(k) \/ RefusePlan(k) \/ Abort(k)
  BY <1>4, <1>9 DEF CatalogueConflict, TasksConflict, RefusePlan, Abort
<1>10. CASE \E i \in DOMAIN plans : LoadPlan(k, i) \/ RefuseConfirm(k, i)
  BY <1>8, <1>10 DEF LoadPlan, RefuseConfirm
<1> QED BY <1>5, <1>6, <1>7, <1>9, <1>10

\* A commit of one request, apart from what is particular to the table.
LEMMA CommitStep ==
  ASSUME IndInv, NEW k \in Requests, request[k].pc # "ok",
         NEW step \in {"expand", "plan", "ok"}, Proceed(k, step, Nothing),
         everVerified' = everVerified, DOMAIN tasks \subseteq DOMAIN tasks',
         DOMAIN plans \subseteq DOMAIN plans',
         request[k].kind = "week" /\ step = "plan" =>
            /\ request[k].rules \in Catalogue /\ Verified(request[k].rules) \subseteq everVerified
            /\ BatchOf(k) \subseteq WeekTasks(request[k].week)'
  PROVE  /\ request' \in [Requests -> Request]
         /\ \A q \in Requests \ {k} : request'[q] = request[q]
         /\ request'[k].pc = step /\ request'[k].kind = request[k].kind
         /\ BatchOf(k)' = BatchOf(k)
         /\ request[k].pc # "new" =>
                \A q \in Requests : RemembersRules(q)' /\ RemembersTasks(q)'
<1>1. request \in [Requests -> Request] /\ DOMAIN Nothing = {}
  BY DEF IndInv, TypeOK, Nothing
<1>2. request' \in [Requests -> Request]
  BY <1>1, ProceedTyped
<1>3. \A q \in Requests \ {k} : request'[q] = request[q]
  BY <1>1, ProceedFields
<1>4. /\ request'[k].pc = step /\ request'[k].kind = request[k].kind
      /\ request'[k].week = request[k].week /\ request'[k].draft = request[k].draft
      /\ request'[k].rules = request[k].rules
  BY <1>1, ProceedValues
<1>5. BatchOf(k)' = BatchOf(k)
  BY <1>4 DEF BatchOf
<1>6. ASSUME request[k].pc # "new" PROVE RemembersRules(k)' /\ RemembersTasks(k)'
  <2>1. RemembersRules(k)
    BY DEF IndInv
  <2>2. RemembersRules(k)'
    BY <1>4, <1>6, <2>1 DEF RemembersRules, Verified
  <2>3. RemembersTasks(k)'
    <3>1. WeekTasks(request[k].week)' = {t \in DOMAIN tasks' : WeekOf(t) = request[k].week}
      BY <1>4 DEF WeekTasks
    <3> QED BY <1>4, <1>5 DEF RemembersTasks
  <2> QED BY <2>2, <2>3
<1>7. \A q \in Requests \ {k} : RemembersRules(q)' /\ RemembersTasks(q)'
  BY <1>3, OthersRemember DEF IndInv
<1> QED BY <1>2, <1>3, <1>4, <1>5, <1>6, <1>7

\* sync_rules commits: what the file said when it was loaded was verified by
\* that revision, and the rows of others keep what they had.
LEMMA IndCommitCatalogue ==
  ASSUME IndInv, NEW k \in Requests, CommitCatalogue(k)
  PROVE  IndInv'
<1> DEFINE rules == request[k].rules
           rows == request[k].rows
<1>1. /\ request[k].pc = "syncing" /\ UNCHANGED <<yaml, edits, everVerified, tasks, plans>>
      /\ Proceed(k, "expand", Nothing)
      /\ catalogue' = [r \in DOMAIN catalogue \cup Missing(k) |-> Synced(k, r)]
  BY DEF CommitCatalogue
<1>2. /\ rules \in Catalogue /\ Verified(rules) \subseteq everVerified /\ rows \in Catalogue
      /\ catalogue \in Catalogue /\ Verified(catalogue) \subseteq everVerified
  BY <1>1 DEF IndInv, TypeOK, RemembersRules, VerifiedMeansSomebodyDid
<1>3. /\ \A q \in Requests : RemembersRules(q)' /\ RemembersTasks(q)'
      /\ request' \in [Requests -> Request]
      /\ \A q \in Requests \ {k} : request'[q] = request[q]
  BY <1>1, CommitStep
<1>4. catalogue' \in Catalogue /\ Verified(catalogue') \subseteq everVerified
  <2>1. /\ DOMAIN rules \subseteq Rules /\ DOMAIN catalogue \subseteq Rules
        /\ \A r \in DOMAIN rules : rules[r] \in BOOLEAN
        /\ \A r \in DOMAIN catalogue : catalogue[r] \in BOOLEAN
    BY <1>2 DEF Catalogue
  <2>2. Missing(k) \subseteq DOMAIN rules
    BY DEF Missing
  <2>3. \A r \in DOMAIN catalogue \cup Missing(k) :
           \/ r \in DOMAIN rules /\ Synced(k, r) = rules[r]
           \/ r \in DOMAIN catalogue /\ Synced(k, r) = catalogue[r]
    BY <2>2 DEF Synced
  <2> HIDE DEF rules
  <2>4. \A r \in DOMAIN catalogue \cup Missing(k) : Synced(k, r) \in BOOLEAN
    BY <2>1, <2>3
  <2>5. catalogue' \in [DOMAIN catalogue \cup Missing(k) -> BOOLEAN]
    BY <1>1, <2>4
  <2>6. DOMAIN catalogue \cup Missing(k) \in SUBSET Rules
    BY <2>1, <2>2
  <2>7. catalogue' \in Catalogue
    BY <2>5, <2>6 DEF Catalogue
  <2>8. \A r \in Verified(catalogue') : r \in Verified(rules) \/ r \in Verified(catalogue)
    BY <1>1, <2>3 DEF Verified
  <2> QED BY <1>2, <2>7, <2>8
<1>5. TypeOK' /\ (Verified(yaml) \subseteq everVerified)'
  BY <1>1, <1>3, <1>4 DEF IndInv, TypeOK, Verified
<1>6. VerifiedMeansSomebodyDid' /\ PlannedIffRouted'
  BY <1>1, <1>4 DEF IndInv, VerifiedMeansSomebodyDid, PlannedIffRouted, WeekTasks, Verified
<1>7. PlansAreAccepted' /\ WeekPlanCoversItsDuties'
  BY <1>1, <1>3, PlansStand
<1> QED BY <1>3, <1>5, <1>6, <1>7 DEF IndInv

\* generate_week_tasks commits: new duties are pending, so no plan stops there,
\* and the batch is in the table when the week is planned.
LEMMA IndCommitTasks ==
  ASSUME IndInv, NEW k \in Requests, CommitTasks(k)
  PROVE  IndInv'
<1> DEFINE new == NewTasks(k)
<1>1. /\ request[k].pc = "expanding" /\ UNCHANGED <<yaml, edits, everVerified, catalogue, plans>>
      /\ Proceed(k, AfterTasks(k), Nothing) /\ new \cap DOMAIN tasks = {}
      /\ tasks' = [t \in DOMAIN tasks \cup new |->
                      IF t \in new THEN NewTask(k) ELSE tasks[t]]
  BY DEF CommitTasks
<1>2. /\ request[k].rules \in Catalogue /\ Verified(request[k].rules) \subseteq everVerified
      /\ request[k].week \in Weeks /\ request[k].draft \in BOOLEAN
      /\ request[k].ids \subseteq WeekTasks(request[k].week)
  BY <1>1 DEF IndInv, TypeOK, RemembersRules, RemembersTasks, Request
<1>3. ASSUME NEW t \in BatchOf(k)
      PROVE  /\ t \in TaskIds /\ WeekOf(t) = request[k].week
             /\ ~request[k].draft => RuleOf(t) \in everVerified
  <2>1. t \in Batch(request[k].rules, request[k].week, request[k].draft)
    BY DEF BatchOf
  <2>2. /\ t \in TaskIds /\ WeekOf(t) = request[k].week
        /\ ~request[k].draft => RuleOf(t) \in Verified(request[k].rules)
    BY <1>2, <2>1, BatchTasks
  <2> QED BY <1>2, <2>2, Zenon
<1>4. new \subseteq BatchOf(k) /\ BatchOf(k) \subseteq request[k].ids \cup new
  BY DEF NewTasks
<1>5. AfterTasks(k) \in {"plan", "ok"}
  BY DEF AfterTasks
<1>6. /\ DOMAIN tasks' = DOMAIN tasks \cup new
      /\ \A t \in DOMAIN tasks : tasks'[t] = tasks[t]
      /\ \A t \in new : tasks'[t] = NewTask(k)
  BY <1>1
<1> HIDE DEF new
<1>7. BatchOf(k) \subseteq WeekTasks(request[k].week)'
  <2>1. request \in [Requests -> Request] /\ DOMAIN Nothing = {}
    BY DEF IndInv, TypeOK, Nothing
  <2>2. request'[k].week = request[k].week
    BY <1>1, <1>5, <2>1, ProceedValues
  <2>3. WeekTasks(request[k].week) \subseteq DOMAIN tasks
    BY DEF WeekTasks
  <2>4. WeekTasks(request[k].week)' = {t \in DOMAIN tasks' : WeekOf(t) = request[k].week}
    BY <2>2 DEF WeekTasks
  <2> QED BY <1>2, <1>3, <1>4, <1>6, <2>3, <2>4
<1>8. /\ \A q \in Requests : RemembersRules(q)' /\ RemembersTasks(q)'
      /\ request' \in [Requests -> Request]
      /\ \A q \in Requests \ {k} : request'[q] = request[q]
  BY <1>1, <1>2, <1>5, <1>6, <1>7, CommitStep
<1>9. NewTask(k) \in Task /\ NewTask(k).status = "pending"
  BY <1>2 DEF NewTask, Task
<1>10. NewTask(k).draft = request[k].draft
  BY Zenon DEF NewTask
<1>11. TypeOK'
  <2>1. TypeOK
    BY DEF IndInv
  <2>2. DOMAIN tasks' \subseteq TaskIds
    BY <1>3, <1>4, <1>6, <2>1 DEF TypeOK
  <2>3. \A t \in DOMAIN tasks' : tasks'[t] \in Task
    <3>1. \A t \in DOMAIN tasks : tasks[t] \in Task
      BY <2>1 DEF TypeOK
    <3> QED BY <1>6, <1>9, <3>1
  <2> QED BY <1>1, <1>8, <2>1, <2>2, <2>3 DEF TypeOK
<1>12. VerifiedMeansSomebodyDid'
  <2>1. /\ Verified(catalogue) \subseteq everVerified
        /\ \A t \in DOMAIN tasks : ~tasks[t].draft => RuleOf(t) \in everVerified
    BY DEF IndInv, VerifiedMeansSomebodyDid
  <2>2. \A t \in new : ~request[k].draft => RuleOf(t) \in everVerified
    BY <1>3, <1>4
  <2>3. ASSUME NEW t \in DOMAIN tasks', ~tasks'[t].draft PROVE RuleOf(t) \in everVerified
    <3>1. CASE t \in new
      <4>1. tasks'[t] = NewTask(k)
        BY <1>6, <3>1
      <4>2. ~request[k].draft
        BY <1>10, <2>3, <4>1, Zenon
      <4> QED BY <2>2, <3>1, <4>2, Zenon
    <3>2. CASE t \in DOMAIN tasks
      <4>1. tasks'[t] = tasks[t]
        BY <1>6, <3>2
      <4>2. ~tasks[t].draft
        BY <2>3, <4>1, Zenon
      <4> QED BY <2>1, <3>2, <4>2, Zenon
    <3> QED BY <1>6, <3>1, <3>2
  <2>4. (Verified(catalogue) \subseteq everVerified)'
    BY <1>1, <2>1 DEF Verified
  <2>5. everVerified' = everVerified
    BY <1>1
  <2>6. \A t \in DOMAIN tasks' : ~tasks'[t].draft => RuleOf(t) \in everVerified
    BY <2>3, Zenon
  <2> QED BY <2>4, <2>5, <2>6, Zenon DEF VerifiedMeansSomebodyDid, RuleOf
<1>13. PlannedIffRouted'
  <2>1. \A i \in DOMAIN plans : plans[i].stops \subseteq WeekTasks(plans[i].week)
    BY DEF IndInv, PlannedIffRouted
  <2>2. \A i \in DOMAIN plans : plans[i].stops \subseteq DOMAIN tasks
    BY <2>1 DEF WeekTasks
  <2>3. \A t \in new : ~\E i \in DOMAIN plans : t \in plans[i].stops
    BY <1>1, <2>2 DEF new
  <2>4. (\A i \in DOMAIN plans : plans[i].stops \subseteq WeekTasks(plans[i].week))'
    BY <1>1, <1>6, <2>1 DEF WeekTasks
  <2>5. \A t \in DOMAIN tasks :
           tasks'[t].status = "planned" <=> \E i \in DOMAIN plans' : t \in plans'[i].stops
    BY <1>1, <1>6 DEF IndInv, PlannedIffRouted
  <2>6. \A t \in new :
           tasks'[t].status = "planned" <=> \E i \in DOMAIN plans' : t \in plans'[i].stops
    BY <1>1, <1>6, <1>9, <2>3
  <2> QED BY <1>6, <2>4, <2>5, <2>6 DEF PlannedIffRouted
<1>14. PlansAreAccepted' /\ WeekPlanCoversItsDuties'
  BY <1>1, <1>8, PlansStand
<1>15. (Verified(yaml) \subseteq everVerified)'
  BY <1>1 DEF IndInv, Verified
<1> QED BY <1>8, <1>11, <1>12, <1>13, <1>14, <1>15 DEF IndInv

\* build_week_plan commits: the duties it read are still on record, and no plan
\* before it was made by this request.
LEMMA IndCommitPlan ==
  ASSUME IndInv, NEW k \in Requests, CommitPlan(k)
  PROVE  IndInv'
<1>1. /\ request[k].pc = "planning" /\ UNCHANGED <<yaml, edits, everVerified, catalogue>>
      /\ Proceed(k, "ok", Nothing)
      /\ plans' = Append(plans, NewPlan(k)) /\ tasks' = Planned(request[k].ids)
  BY DEF CommitPlan
<1>2. /\ request[k].week \in Weeks /\ request[k].ids \subseteq TaskIds
      /\ request[k].ids \subseteq WeekTasks(request[k].week)
      /\ request[k].kind = "week" => BatchOf(k) \subseteq request[k].ids
      /\ request \in [Requests -> Request] /\ plans \in Seq(Plan)
  BY <1>1 DEF IndInv, TypeOK, RemembersRules, RemembersTasks, Request
<1>0. PICK n \in Nat : n = Len(plans) + 1
  BY <1>2
<1>3. NewPlan(k) \in Plan
  BY <1>2 DEF NewPlan, Plan
<1>4. /\ plans' \in Seq(Plan) /\ DOMAIN plans' = DOMAIN plans \cup {n} /\ n \notin DOMAIN plans
      /\ \A i \in DOMAIN plans : plans'[i] = plans[i]
      /\ plans'[n] = NewPlan(k)
  BY <1>0, <1>1, <1>2, <1>3
<1>5. /\ NewPlan(k).week = request[k].week /\ NewPlan(k).stops = request[k].ids
      /\ NewPlan(k).by = k
  BY DEF NewPlan
<1>6. /\ DOMAIN tasks' = DOMAIN tasks
      /\ \A t \in DOMAIN tasks : /\ tasks'[t] \in Task
                                 /\ tasks'[t].draft = tasks[t].draft
                                 /\ tasks'[t].status = IF t \in request[k].ids THEN "planned"
                                                       ELSE tasks[t].status
  <2>1. \A t \in DOMAIN tasks : tasks[t] \in Task
    BY DEF IndInv, TypeOK
  <2>2. /\ DOMAIN tasks' = DOMAIN tasks
        /\ \A t \in DOMAIN tasks : tasks'[t] = IF t \in request[k].ids
                                               THEN [tasks[t] EXCEPT !.status = "planned"]
                                               ELSE tasks[t]
    BY <1>1 DEF Planned
  <2>3. ASSUME NEW r \in Task
        PROVE  /\ [r EXCEPT !.status = "planned"] \in Task
               /\ [r EXCEPT !.status = "planned"].draft = r.draft
               /\ [r EXCEPT !.status = "planned"].status = "planned"
    BY DEF Task
  <2>4. ASSUME NEW t \in DOMAIN tasks
        PROVE  /\ tasks'[t] \in Task
               /\ tasks'[t].draft = tasks[t].draft
               /\ tasks'[t].status = IF t \in request[k].ids THEN "planned" ELSE tasks[t].status
    <3>1. CASE t \in request[k].ids
      <4>1. tasks'[t] = [tasks[t] EXCEPT !.status = "planned"] /\ tasks[t] \in Task
        BY <2>1, <2>2, <3>1
      <4>2. /\ [tasks[t] EXCEPT !.status = "planned"] \in Task
            /\ [tasks[t] EXCEPT !.status = "planned"].draft = tasks[t].draft
            /\ [tasks[t] EXCEPT !.status = "planned"].status = "planned"
        BY <2>3, <4>1, Zenon
      <4> QED BY <3>1, <4>1, <4>2, Zenon
    <3>2. CASE t \notin request[k].ids
      <4>1. tasks'[t] = tasks[t]
        BY <2>2, <3>2
      <4> QED BY <2>1, <3>2, <4>1, Zenon
    <3> QED BY <3>1, <3>2
  <2> QED BY <2>2, <2>4, Zenon
<1>7. /\ \A q \in Requests : RemembersRules(q)' /\ RemembersTasks(q)'
      /\ request' \in [Requests -> Request] /\ BatchOf(k)' = BatchOf(k)
      /\ \A q \in Requests \ {k} : request'[q] = request[q]
      /\ request'[k].pc = "ok" /\ request'[k].kind = request[k].kind
  BY <1>1, <1>4, <1>6, CommitStep
<1>8. TypeOK' /\ (Verified(yaml) \subseteq everVerified)'
  <2>1. TypeOK
    BY DEF IndInv
  <2>2. \A t \in DOMAIN tasks' : tasks'[t] \in Task
    BY <1>6
  <2> QED BY <1>1, <1>4, <1>6, <1>7, <2>1, <2>2 DEF IndInv, TypeOK, Verified
<1>9. VerifiedMeansSomebodyDid'
  <2>1. /\ Verified(catalogue) \subseteq everVerified
        /\ \A t \in DOMAIN tasks : ~tasks[t].draft => RuleOf(t) \in everVerified
    BY DEF IndInv, VerifiedMeansSomebodyDid
  <2>2. (Verified(catalogue) \subseteq everVerified)' /\ everVerified' = everVerified
    BY <1>1, <2>1 DEF Verified
  <2>3. \A t \in DOMAIN tasks' : ~tasks'[t].draft => RuleOf(t) \in everVerified
    BY <1>6, <2>1, Zenon
  <2> QED BY <2>2, <2>3, Zenon DEF VerifiedMeansSomebodyDid, RuleOf
<1>10. PlannedIffRouted'
  <2>1. /\ \A t \in DOMAIN tasks :
              tasks[t].status = "planned" <=> \E i \in DOMAIN plans : t \in plans[i].stops
        /\ \A i \in DOMAIN plans : plans[i].stops \subseteq WeekTasks(plans[i].week)
    BY DEF IndInv, PlannedIffRouted
  <2>2. \A w : WeekTasks(w)' = {t \in DOMAIN tasks : WeekOf(t) = w}
    BY <1>6 DEF WeekTasks
  <2>3. (\A i \in DOMAIN plans : plans[i].stops \subseteq WeekTasks(plans[i].week))'
    BY <1>2, <1>4, <1>5, <1>6, <2>1 DEF WeekTasks
  <2>4. ASSUME NEW t \in DOMAIN tasks
        PROVE  tasks'[t].status = "planned" <=> \E i \in DOMAIN plans' : t \in plans'[i].stops
    <3>1. (\E i \in DOMAIN plans' : t \in plans'[i].stops)
          <=> t \in request[k].ids \/ \E i \in DOMAIN plans : t \in plans[i].stops
      BY <1>4, <1>5
    <3>2. tasks'[t].status = "planned" <=> t \in request[k].ids \/ tasks[t].status = "planned"
      BY <1>6
    <3> QED BY <2>1, <3>1, <3>2
  <2> QED BY <1>6, <2>3, <2>4 DEF PlannedIffRouted
<1>11. PlansAreAccepted' /\ WeekPlanCoversItsDuties'
  <2>1. \A i \in DOMAIN plans : plans[i].by \in Requests \ {k}
    <3> SUFFICES ASSUME NEW i \in DOMAIN plans PROVE plans[i].by \in Requests \ {k}
      OBVIOUS
    <3>1. plans[i] \in Plan
      BY <1>2
    <3>2. request[plans[i].by].pc = "ok"
      BY DEF IndInv, PlansAreAccepted
    <3> QED BY <1>1, <3>1, <3>2 DEF Plan
  <2>2. \A q \in Requests \ {k} : BatchOf(q)' = BatchOf(q)
    BY <1>7 DEF BatchOf
  <2>3. PlansAreAccepted'
    BY <1>4, <1>5, <1>7, <2>1 DEF IndInv, PlansAreAccepted
  <2>4. WeekPlanCoversItsDuties
    BY DEF IndInv
  <2>5. ASSUME NEW i \in DOMAIN plans
        PROVE  request'[plans'[i].by].kind = "week" =>
                   (BatchOf(plans[i].by) \subseteq plans[i].stops)'
    <3>1. plans'[i] = plans[i] /\ request'[plans[i].by] = request[plans[i].by]
      BY <1>4, <1>7, <2>1
    <3> QED BY <2>2, <2>4, <3>1 DEF WeekPlanCoversItsDuties, BatchOf
  <2>6. request'[k].kind = "week" => BatchOf(k)' \subseteq request[k].ids
    BY <1>2, <1>7
  <2>7. request'[plans'[n].by].kind = "week" => (BatchOf(plans[n].by) \subseteq plans[n].stops)'
    BY <1>4, <1>5, <2>6 DEF BatchOf
  <2> QED BY <1>4, <2>3, <2>5, <2>7 DEF WeekPlanCoversItsDuties
<1> QED BY <1>7, <1>8, <1>9, <1>10, <1>11 DEF IndInv

\* A confirmation writes the status of one plan that is still there.
LEMMA IndCommitConfirm ==
  ASSUME IndInv, NEW k \in Requests, CommitConfirm(k)
  PROVE  IndInv'
<1> DEFINE j == request[k].plan
<1>1. /\ request[k].pc = "confirming" /\ UNCHANGED <<yaml, edits, everVerified, catalogue, tasks>>
      /\ Proceed(k, "ok", Nothing)
      /\ plans' = [plans EXCEPT ![j].status = "confirmed"]
  BY DEF CommitConfirm
<1>2. j \in DOMAIN plans /\ plans \in Seq(Plan) /\ request \in [Requests -> Request]
  BY <1>1 DEF IndInv, TypeOK, RemembersRules
<1> HIDE DEF j
<1>3. /\ plans' \in Seq(Plan) /\ DOMAIN plans' = DOMAIN plans
      /\ \A i \in DOMAIN plans : /\ plans'[i].week = plans[i].week
                                 /\ plans'[i].stops = plans[i].stops
                                 /\ plans'[i].by = plans[i].by
  <2>1. ASSUME NEW p \in Plan
        PROVE  /\ [p EXCEPT !.status = "confirmed"] \in Plan
               /\ [p EXCEPT !.status = "confirmed"].week = p.week
               /\ [p EXCEPT !.status = "confirmed"].stops = p.stops
               /\ [p EXCEPT !.status = "confirmed"].by = p.by
    BY DEF Plan
  <2>2. /\ DOMAIN plans' = DOMAIN plans
        /\ plans'[j] = [plans[j] EXCEPT !.status = "confirmed"]
        /\ \A i \in DOMAIN plans \ {j} : plans'[i] = plans[i]
    BY <1>1, <1>2
  <2>3. \A i \in DOMAIN plans : plans[i] \in Plan
    BY <1>2
  <2>4. \A i \in DOMAIN plans : /\ plans'[i] \in Plan
                                /\ plans'[i].week = plans[i].week
                                /\ plans'[i].stops = plans[i].stops
                                /\ plans'[i].by = plans[i].by
    <3> SUFFICES ASSUME NEW i \in DOMAIN plans
                 PROVE  /\ plans'[i] \in Plan
                        /\ plans'[i].week = plans[i].week
                        /\ plans'[i].stops = plans[i].stops
                        /\ plans'[i].by = plans[i].by
      OBVIOUS
    <3>1. CASE i = j
      BY <2>1, <2>2, <2>3, <3>1, Zenon
    <3>2. CASE i # j
      BY <2>2, <2>3, <3>2
    <3> QED BY <3>1, <3>2
  <2>5. plans' \in Seq(Plan)
    BY <1>1, <1>2, <2>1, <2>3
  <2> QED BY <2>2, <2>4, <2>5
<1>4. /\ \A q \in Requests : RemembersRules(q)' /\ RemembersTasks(q)'
      /\ request' \in [Requests -> Request]
      /\ \A q \in Requests \ {k} : request'[q] = request[q]
  BY <1>1, <1>3, CommitStep
<1>5. TypeOK' /\ (Verified(yaml) \subseteq everVerified)'
  BY <1>1, <1>3, <1>4 DEF IndInv, TypeOK, Verified
<1>6. VerifiedMeansSomebodyDid'
  BY <1>1 DEF IndInv, VerifiedMeansSomebodyDid, Verified
<1>7. PlannedIffRouted'
  BY <1>1, <1>3 DEF IndInv, PlannedIffRouted, WeekTasks
<1>8. PlansAreAccepted' /\ WeekPlanCoversItsDuties'
  <2>1. \A i \in DOMAIN plans : plans[i].by \in Requests \ {k}
    <3> SUFFICES ASSUME NEW i \in DOMAIN plans PROVE plans[i].by \in Requests \ {k}
      OBVIOUS
    <3>1. plans[i] \in Plan
      BY <1>2
    <3>2. request[plans[i].by].pc = "ok"
      BY DEF IndInv, PlansAreAccepted
    <3> QED BY <1>1, <3>1, <3>2 DEF Plan
  <2>2. PlansAreAccepted'
    BY <1>3, <1>4, <2>1 DEF IndInv, PlansAreAccepted
  <2>3. WeekPlanCoversItsDuties'
    BY <1>3, <1>4, <2>1 DEF IndInv, WeekPlanCoversItsDuties, BatchOf
  <2> QED BY <2>2, <2>3
<1> QED BY <1>4, <1>5, <1>6, <1>7, <1>8 DEF IndInv

\* Every step of every request keeps the invariant.
LEMMA IndStep == IndInv /\ [Next]_vars => IndInv'
<1> SUFFICES ASSUME IndInv, [Next]_vars PROVE IndInv'
  OBVIOUS
<1>1. CASE \E r \in Rules, verified \in BOOLEAN : EditYaml(r, verified)
  BY <1>1, IndEditYaml
<1>2. ASSUME NEW k \in Requests, RequestStep(k) PROVE IndInv'
  <2>1. CASE \E kind \in {"generate", "plan", "week", "confirm"}, week \in Weeks,
                draft \in BOOLEAN : Arrive(k, kind, week, draft)
    BY <2>1, IndArrive
  <2>2. CASE \/ LoadCatalogue(k) \/ CatalogueConflict(k) \/ LoadWeek(k) \/ TasksConflict(k)
             \/ LoadTasks(k) \/ RefusePlan(k) \/ Abort(k)
             \/ \E i \in DOMAIN plans : LoadPlan(k, i) \/ RefuseConfirm(k, i)
    BY <2>2, IndLocal
  <2>3. CASE CommitCatalogue(k)
    BY <2>3, IndCommitCatalogue
  <2>4. CASE CommitTasks(k)
    BY <2>4, IndCommitTasks
  <2>5. CASE CommitPlan(k)
    BY <2>5, IndCommitPlan
  <2>6. CASE CommitConfirm(k)
    BY <2>6, IndCommitConfirm
  <2> QED BY <1>2, <2>1, <2>2, <2>3, <2>4, <2>5, <2>6 DEF RequestStep
<1>3. CASE UNCHANGED vars
  BY <1>3 DEF vars, IndInv, TypeOK, Verified, VerifiedMeansSomebodyDid, PlannedIffRouted,
              WeekTasks, RemembersRules, RemembersTasks, BatchOf, PlansAreAccepted,
              WeekPlanCoversItsDuties
<1> QED BY <1>1, <1>2, <1>3 DEF Next

\* So it holds throughout.
LEMMA Inductive == Spec => []IndInv
  BY IndInit, IndStep, PTL DEF Spec

-----------------------------------------------------------------------------
(* What a step does to the duties and to the plans on record.              *)

\* Only the end of generate_week_tasks and of build_week_plan write duties.
LEMMA DutiesAdvance ==
  ASSUME IndInv, [Next]_vars
  PROVE  \/ UNCHANGED tasks
         \/ /\ DOMAIN tasks \subseteq DOMAIN tasks'
            /\ \A t \in DOMAIN tasks :
                 /\ tasks'[t].draft = tasks[t].draft
                 /\ tasks[t].status = "planned" => tasks'[t].status = "planned"
<1>1. ASSUME NEW k \in Requests, CommitTasks(k)
      PROVE  DOMAIN tasks \subseteq DOMAIN tasks' /\ \A t \in DOMAIN tasks : tasks'[t] = tasks[t]
  BY <1>1 DEF CommitTasks
<1>2. ASSUME NEW k \in Requests, CommitPlan(k), NEW t \in DOMAIN tasks
      PROVE  /\ t \in DOMAIN tasks' /\ tasks'[t].draft = tasks[t].draft
             /\ tasks[t].status = "planned" => tasks'[t].status = "planned"
  <2>1. /\ t \in DOMAIN tasks'
        /\ \/ tasks'[t] = [tasks[t] EXCEPT !.status = "planned"]
           \/ tasks'[t] = tasks[t]
    BY <1>2 DEF CommitPlan, Planned
  <2>2. tasks[t] \in Task
    BY DEF IndInv, TypeOK
  <2>3. ASSUME NEW r \in Task
        PROVE  /\ [r EXCEPT !.status = "planned"].draft = r.draft
               /\ [r EXCEPT !.status = "planned"].status = "planned"
    BY DEF Task
  <2>4. CASE tasks'[t] = tasks[t]
    BY <2>1, <2>4, Zenon
  <2>5. CASE tasks'[t] = [tasks[t] EXCEPT !.status = "planned"]
    BY <2>1, <2>2, <2>3, <2>5, Zenon
  <2> QED BY <2>1, <2>4, <2>5
<1>3. ASSUME NEW k \in Requests, RequestStep(k)
      PROVE  UNCHANGED tasks \/ CommitTasks(k) \/ CommitPlan(k)
  BY <1>3 DEF RequestStep, Arrive, LoadCatalogue, CommitCatalogue, CatalogueConflict, LoadWeek,
              TasksConflict, LoadTasks, RefusePlan, LoadPlan, RefuseConfirm, CommitConfirm, Abort
<1>4. ASSUME NEW r \in Rules, NEW verified \in BOOLEAN, EditYaml(r, verified)
      PROVE  UNCHANGED tasks
  BY <1>4 DEF EditYaml
<1>5. UNCHANGED tasks \/ \E k \in Requests : CommitTasks(k) \/ CommitPlan(k)
  BY <1>3, <1>4 DEF Next, vars
<1>6. ASSUME NEW k \in Requests, CommitTasks(k), NEW t \in DOMAIN tasks
      PROVE  /\ tasks'[t].draft = tasks[t].draft
             /\ tasks[t].status = "planned" => tasks'[t].status = "planned"
  BY <1>1, <1>6, Zenon
<1>7. CASE \E k \in Requests : CommitTasks(k)
  BY <1>1, <1>6, <1>7, Zenon
<1>8. CASE \E k \in Requests : CommitPlan(k)
  <2>1. DOMAIN tasks \subseteq DOMAIN tasks'
    BY <1>2, <1>8
  <2> QED BY <1>2, <1>8, <2>1, Zenon
<1> QED BY <1>5, <1>7, <1>8, Zenon

\* Only the end of build_week_plan and of a confirmation write plans.
LEMMA PlansFreeze ==
  ASSUME IndInv, [Next]_vars
  PROVE  \/ UNCHANGED plans
         \/ /\ Len(plans) <= Len(plans')
            /\ \A i \in DOMAIN plans :
                 \/ plans'[i] = plans[i]
                 \/ plans'[i] = [plans[i] EXCEPT !.status = "confirmed"]
<1>1. plans \in Seq(Plan)
  BY DEF IndInv, TypeOK
<1>2. ASSUME NEW k \in Requests, CommitPlan(k)
      PROVE  Len(plans) <= Len(plans') /\ \A i \in DOMAIN plans : plans'[i] = plans[i]
  <2>1. plans' = Append(plans, NewPlan(k))
    BY <1>2 DEF CommitPlan
  <2> QED BY <1>1, <2>1
<1>3. ASSUME NEW k \in Requests, CommitConfirm(k)
      PROVE  /\ Len(plans) <= Len(plans')
             /\ \A i \in DOMAIN plans :
                  \/ plans'[i] = plans[i]
                  \/ plans'[i] = [plans[i] EXCEPT !.status = "confirmed"]
  <2>1. /\ request[k].plan \in DOMAIN plans
        /\ plans' = [plans EXCEPT ![request[k].plan].status = "confirmed"]
    BY <1>3 DEF CommitConfirm, IndInv, RemembersRules
  <2>2. Len(plans') = Len(plans)
    BY <1>1, <2>1
  <2> QED BY <1>1, <2>1, <2>2
<1>4. ASSUME NEW k \in Requests, RequestStep(k)
      PROVE  UNCHANGED plans \/ CommitPlan(k) \/ CommitConfirm(k)
  BY <1>4 DEF RequestStep, Arrive, LoadCatalogue, CommitCatalogue, CatalogueConflict, LoadWeek,
              CommitTasks, TasksConflict, LoadTasks, RefusePlan, LoadPlan, RefuseConfirm, Abort
<1>5. ASSUME NEW r \in Rules, NEW verified \in BOOLEAN, EditYaml(r, verified)
      PROVE  UNCHANGED plans
  BY <1>5 DEF EditYaml
<1>6. UNCHANGED plans \/ \E k \in Requests : CommitPlan(k) \/ CommitConfirm(k)
  BY <1>4, <1>5 DEF Next, vars
<1> QED BY <1>2, <1>3, <1>6

-----------------------------------------------------------------------------
(* What a step does to the book.                                           *)

Labels == [t \in DOMAIN tasks |-> tasks[t].draft]
Marked == {t \in DOMAIN tasks : tasks[t].status = "planned"}
Drawn == [i \in DOMAIN plans |-> [week |-> plans[i].week, stops |-> plans[i].stops,
                                  confirmed |-> plans[i].status = "confirmed"]]

\* The book's entries in terms of these.
Entered(new, draft) ==
    /\ new \cap DOMAIN Labels = {}
    /\ \A d, e \in new : WeekOf(d) = WeekOf(e)
    /\ Labels' = [d \in DOMAIN Labels \cup new |-> IF d \in new THEN draft ELSE Labels[d]]
    /\ UNCHANGED <<Marked, Drawn>>

Routed(week, stops) ==
    /\ stops # {}
    /\ \A d \in stops : d \in DOMAIN Labels /\ WeekOf(d) = week
    /\ Drawn' = Append(Drawn, [week |-> week, stops |-> stops, confirmed |-> FALSE])
    /\ Marked' = Marked \cup stops
    /\ UNCHANGED Labels

Confirmed(i) ==
    /\ i \in DOMAIN Drawn
    /\ Drawn' = [Drawn EXCEPT ![i].confirmed = TRUE]
    /\ UNCHANGED <<Labels, Marked>>

LEMMA EnteredInBook ==
  ASSUME NEW new \in SUBSET TaskIds, NEW draft \in BOOLEAN, Entered(new, draft)
  PROVE  Book!Next
<1>1. \A d, e \in new : [t \in TaskIds |-> WeekOf(t)][d] = [t \in TaskIds |-> WeekOf(t)][e]
  BY DEF Entered
<1>2. Book!Enter(new, draft)
  BY <1>1, Zenon DEF Entered, Book!Enter, Labels, Marked, Drawn
<1> QED BY <1>2 DEF Book!Next

LEMMA RoutedInBook ==
  ASSUME NEW stops \in SUBSET TaskIds, NEW week, Routed(week, stops)
  PROVE  Book!Next
<1>1. \A d \in stops : d \in DOMAIN Labels /\ [t \in TaskIds |-> WeekOf(t)][d] = week
  BY DEF Routed
<1>2. week \in {[t \in TaskIds |-> WeekOf(t)][d] : d \in stops}
  BY <1>1 DEF Routed
<1>3. Book!Route(week, stops)
  BY <1>1, Zenon DEF Routed, Book!Route, Labels, Marked, Drawn
<1> QED BY <1>2, <1>3 DEF Book!Next

LEMMA ConfirmedInBook ==
  ASSUME NEW i, Confirmed(i)
  PROVE  Book!Next
<1>1. Book!Confirm(i)
  BY Zenon DEF Confirmed, Book!Confirm, Labels, Marked, Drawn
<1>2. i \in DOMAIN Drawn
  BY DEF Confirmed
<1> QED BY <1>1, <1>2 DEF Book!Next, Drawn

\* Three commits write the tables of duties and plans.
LEMMA OnlyCommits ==
  ASSUME [Next]_vars
  PROVE  \/ UNCHANGED <<tasks, plans>>
         \/ \E k \in Requests : CommitTasks(k) \/ CommitPlan(k) \/ CommitConfirm(k)
<1>1. ASSUME NEW k \in Requests, RequestStep(k)
      PROVE  UNCHANGED <<tasks, plans>> \/ CommitTasks(k) \/ CommitPlan(k) \/ CommitConfirm(k)
  BY <1>1 DEF RequestStep, Arrive, LoadCatalogue, CommitCatalogue, CatalogueConflict, LoadWeek,
              TasksConflict, LoadTasks, RefusePlan, LoadPlan, RefuseConfirm, Abort
<1>2. ASSUME NEW r \in Rules, NEW verified \in BOOLEAN, EditYaml(r, verified)
      PROVE  UNCHANGED <<tasks, plans>>
  BY <1>2 DEF EditYaml
<1> QED BY <1>1, <1>2 DEF Next, vars

\* A generation enters its new duties, under the label that was asked for.
LEMMA CommitTasksEnters ==
  ASSUME IndInv, IndInv', NEW k \in Requests, CommitTasks(k)
  PROVE  Book!Next
<1> DEFINE new == NewTasks(k)
           draft == request[k].draft
<1>1. /\ request[k].pc = "expanding" /\ plans' = plans /\ new \cap DOMAIN tasks = {}
      /\ DOMAIN tasks' = DOMAIN tasks \cup new
      /\ \A t \in DOMAIN tasks : tasks'[t] = tasks[t]
      /\ \A t \in new : tasks'[t] = NewTask(k)
  BY DEF CommitTasks
<1>2. /\ request[k].rules \in Catalogue /\ request[k].week \in Weeks /\ draft \in BOOLEAN
  BY <1>1 DEF IndInv, TypeOK, RemembersRules, Request
<1>3. \A t \in new : t \in TaskIds /\ WeekOf(t) = request[k].week
  <2>1. \A t \in new : t \in Batch(request[k].rules, request[k].week, draft)
    BY DEF NewTasks, BatchOf
  <2> QED BY <1>2, <2>1, BatchTasks
<1>4. NewTask(k).draft = draft /\ NewTask(k).status = "pending"
  BY DEF NewTask
<1> HIDE DEF new, draft
<1>5. DOMAIN Labels = DOMAIN tasks /\ \A t \in DOMAIN tasks : Labels[t] = tasks[t].draft
  BY DEF Labels
<1>6. Labels' = [t \in DOMAIN Labels \cup new |-> IF t \in new THEN draft ELSE Labels[t]]
  <2>1. \A t \in new : tasks'[t].draft = draft
    BY <1>1, <1>4, Zenon
  <2>2. \A t \in DOMAIN tasks : t \notin new /\ tasks'[t].draft = Labels[t]
    BY <1>1, <1>5
  <2>3. Labels' = [t \in DOMAIN tasks \cup new |-> tasks'[t].draft]
    BY <1>1 DEF Labels
  <2> QED BY <1>5, <2>1, <2>2, <2>3, Zenon
<1>7. Marked' = Marked
  BY <1>1, <1>4 DEF Marked
<1>8. Drawn' = Drawn
  BY <1>1 DEF Drawn
<1>9. Entered(new, draft)
  BY <1>1, <1>3, <1>5, <1>6, <1>7, <1>8 DEF Entered
<1>10. new \in SUBSET TaskIds
  BY <1>3
<1> QED BY <1>2, <1>9, <1>10, EnteredInBook

\* A plan visits what was due when it was computed, which is on record still,
\* and marks it.
LEMMA CommitPlanRoutes ==
  ASSUME IndInv, IndInv', NEW k \in Requests, CommitPlan(k)
  PROVE  Book!Next
<1> DEFINE stops == request[k].ids
           week == request[k].week
<1>1. /\ request[k].pc = "planning" /\ tasks' = Planned(stops)
      /\ plans' = Append(plans, NewPlan(k)) /\ plans \in Seq(Plan)
  BY DEF CommitPlan, IndInv, TypeOK
<1>2. /\ week \in Weeks /\ stops # {} /\ stops \subseteq TaskIds
      /\ \A t \in stops : t \in DOMAIN tasks /\ WeekOf(t) = week
  BY <1>1 DEF IndInv, TypeOK, RemembersRules, RemembersTasks, Request, WeekTasks
<1>3. NewPlan(k).week = week /\ NewPlan(k).stops = stops /\ NewPlan(k).status = "draft"
  BY DEF NewPlan
<1> HIDE DEF stops, week
<1>4. \A t \in DOMAIN tasks : tasks[t] \in Task
  BY DEF IndInv, TypeOK
<1>5. /\ DOMAIN tasks' = DOMAIN tasks
      /\ \A t \in DOMAIN tasks : tasks'[t] = IF t \in stops
                                             THEN [tasks[t] EXCEPT !.status = "planned"]
                                             ELSE tasks[t]
  BY <1>1 DEF Planned
<1>6. ASSUME NEW r \in Task
      PROVE  /\ [r EXCEPT !.status = "planned"].draft = r.draft
             /\ [r EXCEPT !.status = "planned"].status = "planned"
  BY DEF Task
<1>7. ASSUME NEW t \in DOMAIN tasks
      PROVE  /\ tasks'[t].draft = tasks[t].draft
             /\ tasks'[t].status = IF t \in stops THEN "planned" ELSE tasks[t].status
  <2>1. CASE t \in stops
    <3>1. tasks'[t] = [tasks[t] EXCEPT !.status = "planned"]
      BY <1>5, <2>1
    <3> QED BY <1>4, <1>6, <2>1, <3>1, Zenon
  <2>2. CASE t \notin stops
    <3>1. tasks'[t] = tasks[t]
      BY <1>5, <2>2
    <3> QED BY <2>2, <3>1, Zenon
  <2> QED BY <2>1, <2>2
<1>8. Labels' = Labels
  <2>1. Labels' = [t \in DOMAIN tasks |-> tasks'[t].draft]
    BY <1>5 DEF Labels
  <2> QED BY <1>7, <2>1, Zenon DEF Labels
<1>9. Marked' = Marked \cup stops
  BY <1>2, <1>5, <1>7 DEF Marked
<1> DEFINE line(p) == [week |-> p.week, stops |-> p.stops, confirmed |-> p.status = "confirmed"]
<1>10. line(NewPlan(k)) = [week |-> week, stops |-> stops, confirmed |-> FALSE]
  <2>1. (NewPlan(k).status = "confirmed") = FALSE
    BY <1>3
  <2> QED BY <1>3, <2>1, Zenon
<1>11. Drawn' = Append(Drawn, [week |-> week, stops |-> stops, confirmed |-> FALSE])
  <2>1. Drawn = [i \in DOMAIN plans |-> line(plans[i])]
    BY DEF Drawn
  <2>2. Drawn' = [i \in DOMAIN plans' |-> line(plans'[i])]
    BY DEF Drawn
  <2> HIDE DEF line
  <2>3. Drawn' = Append(Drawn, line(NewPlan(k)))
    BY <1>1, <2>1, <2>2
  <2> QED BY <1>10, <2>3
<1>12. Routed(week, stops)
  <2>1. DOMAIN Labels = DOMAIN tasks
    BY DEF Labels
  <2> QED BY <1>2, <1>8, <1>9, <1>11, <2>1 DEF Routed
<1> QED BY <1>2, <1>12, RoutedInBook

\* A line of the book with another last column.
LEMMA ChangedLine ==
  ASSUME NEW week, NEW stops, NEW b, NEW c
  PROVE  [[week |-> week, stops |-> stops, confirmed |-> b] EXCEPT !.confirmed = c]
         = [week |-> week, stops |-> stops, confirmed |-> c]
  OBVIOUS

LEMMA ConfirmedLine ==
  ASSUME NEW week, NEW stops, NEW b
  PROVE  [[week |-> week, stops |-> stops, confirmed |-> b] EXCEPT !.confirmed = TRUE]
         = [week |-> week, stops |-> stops, confirmed |-> TRUE]
  BY ChangedLine, Zenon

\* A confirmation changes one plan at most, and that only to confirmed.
LEMMA CommitConfirmConfirms ==
  ASSUME IndInv, NEW k \in Requests, CommitConfirm(k)
  PROVE  Book!Next
<1> DEFINE n == request[k].plan
           line(p) == [week |-> p.week, stops |-> p.stops, confirmed |-> p.status = "confirmed"]
<1>1. /\ n \in DOMAIN plans /\ plans \in Seq(Plan) /\ tasks' = tasks
      /\ plans' = [plans EXCEPT ![n].status = "confirmed"]
  BY DEF CommitConfirm, IndInv, TypeOK, RemembersRules
<1> HIDE DEF n
<1>2. ASSUME NEW r \in Plan
      PROVE  /\ [r EXCEPT !.status = "confirmed"].week = r.week
             /\ [r EXCEPT !.status = "confirmed"].stops = r.stops
             /\ [r EXCEPT !.status = "confirmed"].status = "confirmed"
  BY DEF Plan
<1>3. Drawn = [i \in DOMAIN plans |-> line(plans[i])]
  BY DEF Drawn
<1>4. Drawn' = [i \in DOMAIN plans' |-> line(plans'[i])]
  BY DEF Drawn
<1>5. /\ DOMAIN plans' = DOMAIN plans /\ plans'[n] = [plans[n] EXCEPT !.status = "confirmed"]
      /\ \A i \in DOMAIN plans : i # n => plans'[i] = plans[i]
  BY <1>1
<1>6. line(plans'[n]) = [line(plans[n]) EXCEPT !.confirmed = TRUE]
  <2>1. plans[n] \in Plan
    BY <1>1
  <2>2. plans'[n].week = plans[n].week /\ plans'[n].stops = plans[n].stops
        /\ plans'[n].status = "confirmed"
    BY <1>2, <1>5, <2>1, Zenon
  <2>3. (plans'[n].status = "confirmed") = TRUE
    BY <2>2
  <2> DEFINE old == line(plans[n])
  <2>4. line(plans'[n]) = [week |-> plans[n].week, stops |-> plans[n].stops, confirmed |-> TRUE]
    BY <2>2, <2>3, Zenon
  <2>5. [old EXCEPT !.confirmed = TRUE]
        = [week |-> plans[n].week, stops |-> plans[n].stops, confirmed |-> TRUE]
    BY ConfirmedLine, Zenon
  <2> QED BY <2>4, <2>5
<1> HIDE DEF line
<1>7. Drawn' = [Drawn EXCEPT ![n].confirmed = TRUE]
  BY <1>1, <1>3, <1>4, <1>5, <1>6
<1>8. Labels' = Labels /\ Marked' = Marked /\ n \in DOMAIN Drawn
  BY <1>1, <1>3 DEF Labels, Marked
<1> QED BY <1>7, <1>8, ConfirmedInBook DEF Confirmed

-----------------------------------------------------------------------------
(* The theorems.                                                           *)

\* However requests of m4_rules.py and plan.py overlap, fail half-way and
\* race with the editor of the rule file, tables and requests keep their shape.
THEOREM TypeCorrect == Spec => []TypeOK
<1>1. IndInv => TypeOK
  BY DEF IndInv
<1> QED BY <1>1, Inductive, PTL

\* A duty says "planned" exactly when some plan stops there, and a plan stops
\* only at duties on record of its own week (build_week_plan).
THEOREM DutiesMatchPlans == Spec => []PlannedIffRouted
<1>1. IndInv => PlannedIffRouted
  BY DEF IndInv
<1> QED BY <1>1, Inductive, PTL

\* generate_tasks keeps unverified rules inert: no unlabelled duty and no
\* verified row of the catalogue without a revision of the file behind it.
THEOREM VerificationIsEarned == Spec => []VerifiedMeansSomebodyDid
<1>1. IndInv => VerifiedMeansSomebodyDid
  BY DEF IndInv
<1> QED BY <1>1, Inductive, PTL

\* A plan that POST /dash/week/plan made visits every duty of the rules that
\* were expanded for it.
THEOREM NothingLeftOut == Spec => []WeekPlanCoversItsDuties
<1>1. IndInv => WeekPlanCoversItsDuties
  BY DEF IndInv
<1> QED BY <1>1, Inductive, PTL

\* Duties are never deleted, relabelled or un-planned by a later generation
\* or plan of the same week.
THEOREM DutiesOnlyAdvance == Spec => TasksOnlyAdvance
<1>1. IndInv /\ [Next]_vars =>
        [/\ DOMAIN tasks \subseteq DOMAIN tasks'
         /\ \A t \in DOMAIN tasks :
              /\ tasks'[t].draft = tasks[t].draft
              /\ tasks[t].status = "planned" => tasks'[t].status = "planned"]_tasks
  BY DutiesAdvance
<1> QED BY <1>1, Inductive, PTL DEF Spec, TasksOnlyAdvance

\* Plans are appended and confirmed, never dropped, rewritten or taken back
\* to draft (routes.py, plan.py).
THEOREM PlansStayFrozen == Spec => PlansAreFrozen
<1>1. IndInv /\ [Next]_vars =>
        [/\ Len(plans) <= Len(plans')
         /\ \A i \in DOMAIN plans :
              \/ plans'[i] = plans[i]
              \/ plans'[i] = [plans[i] EXCEPT !.status = "confirmed"]]_plans
  BY PlansFreeze
<1> QED BY <1>1, Inductive, PTL DEF Spec, PlansAreFrozen

\* generate_week_tasks, build_week_plan and confirm_plan, of any number of
\* requests, implement the book of duties and plans of WeekBook.
THEOREM BookIsKept == Spec => ImplementsWeekBook
<1>1. Init => Book!Init
  <2> SUFFICES ASSUME Init PROVE Book!Init
    OBVIOUS
  <2>1. DOMAIN tasks = {} /\ plans = <<>>
    BY DEF Init
  <2>2. Labels = [d \in {} |-> FALSE] /\ Marked = {} /\ Drawn = <<>>
    BY <2>1 DEF Labels, Marked, Drawn
  <2> QED BY <2>2 DEF Book!Init, Labels, Marked, Drawn
<1>2. ASSUME IndInv, IndInv', [Next]_vars
      PROVE  [Book!Next]_<<Labels, Marked, Drawn>>
  <2>1. CASE UNCHANGED <<tasks, plans>>
    BY <2>1 DEF Labels, Marked, Drawn
  <2> QED BY <1>2, <2>1, OnlyCommits, CommitTasksEnters, CommitPlanRoutes, CommitConfirmConfirms
<1> QED BY <1>1, <1>2, Inductive, PTL DEF Spec, ImplementsWeekBook, Book!Spec, Labels, Marked, Drawn
=============================================================================
