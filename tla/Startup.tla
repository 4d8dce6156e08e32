------------------------------ MODULE Startup -------------------------------
(***************************************************************************)
(* The lifespan of the worker processes over one database: init_db,        *)
(* ensure_case_system and sync_rules run in every worker before it serves, *)
(* any of them may fail or be killed, and uvicorn starts it again.         *)
(* Requests then load the rules, each worker through a cache of its own.   *)
(*                                                                         *)
(* The seeded tables are the set of the kinds of rows that are there; the  *)
(* catalogue is the revision of the rule file it was written from.         *)
(***************************************************************************)
EXTENDS RuleCache

CONSTANTS
    Tables,         \* how many tables the models declare
    Main,           \* the thread of a worker that runs its lifespan
    MaxCrashes      \* bound: workers killed

ASSUME StartupAssumption ==
    /\ Workers \X {Main} \subseteq Callers /\ MaxCrashes \in Nat
    /\ Tables \in Nat \ {0}

VARIABLES
    schema,         \* how many of the tables exist: they are created in one order
    rows,           \* the seeded rows that are committed
    catalogue,      \* table reg_rule
    worker,         \* worker -> where its lifespan is, and what it has read
    crashes

dbVars == <<schema, rows, catalogue>>
vars == <<cacheVars, dbVars, worker, crashes>>

SeedRows == {"system", "points", "V1", "V2", "operator"}

Down == [pc |-> "down", found |-> 0, missing |-> {}, before |-> NoFile]

\* The lifespan of w reaches its next call; the locals of the last are gone.
At(w, step) == worker' = [worker EXCEPT ![w] = [Down EXCEPT !.pc = step]]

\* An empty disk, and every worker about to start.
Init ==
    /\ CacheInit
    /\ schema = 0
    /\ rows = {}
    /\ catalogue = NoFile
    /\ worker = [w \in Workers |-> Down]
    /\ crashes = 0

\* The exception leaves lifespan and the process ends, with its cache.
Ends(w) ==
    /\ worker' = [worker EXCEPT ![w] = Down]
    /\ cache' = [cache EXCEPT ![w] = Empty]
    /\ call' = [c \in Callers |-> IF c[1] = w THEN Idle ELSE call[c]]

Crash(w) ==
    /\ crashes < MaxCrashes
    /\ worker[w].pc # "down"
    /\ crashes' = crashes + 1
    /\ Ends(w)
    /\ UNCHANGED <<fileVars, dbVars>>

(* init_db: create_all looks for the tables and creates those it missed,   *)
(* all in one commit or, where DDL is not transactional, one by one.       *)

InspectSchema(w) ==
    /\ worker[w].pc = "down"
    /\ worker' = [worker EXCEPT ![w].pc = "schema", ![w].found = schema]
    /\ UNCHANGED <<cacheVars, dbVars, crashes>>

CreateSchema(w) ==
    /\ worker[w].pc = "schema"
    /\ worker[w].found = schema
    /\ \E n \in schema + 1 .. Tables :
          /\ schema' = n
          /\ worker' = [worker EXCEPT ![w].found = n]
    /\ UNCHANGED <<cacheVars, rows, catalogue, crashes>>

\* CREATE TABLE of a table that another worker created in between.
SchemaConflict(w) ==
    /\ worker[w].pc = "schema"
    /\ worker[w].found < schema
    /\ Ends(w)
    /\ UNCHANGED <<fileVars, dbVars, crashes>>

SchemaDone(w) ==
    /\ worker[w].pc = "schema"
    /\ worker[w].found = Tables
    /\ At(w, "seed")
    /\ UNCHANGED <<cacheVars, dbVars, crashes>>

(* ensure_case_system: rows that are not there are inserted and committed  *)
(* at once.                                                                *)

\* Mutant: everything is inserted on every start.
MissingAlways == SeedRows

Missing == SeedRows \ rows

LookForSeed(w) ==
    /\ worker[w].pc = "seed"
    /\ worker' = [worker EXCEPT ![w].pc = "seeding", ![w].missing = Missing]
    /\ UNCHANGED <<cacheVars, dbVars, crashes>>

\* lifespan goes on to sync_rules, which loads the rules first.
Seeded(w) ==
    /\ At(w, "load")
    /\ Called(<<w, Main>>)

\* Mutant: the system is committed before its points, fleet and operator are
\* inserted.
CommitSeedTwice(w) ==
    /\ worker[w].pc = "seeding"
    /\ worker[w].missing \cap rows = {}
    /\ LET first == worker[w].missing \cap {"system"}
           now == IF first # {} THEN first ELSE worker[w].missing
       IN  /\ rows' = rows \cup now
           /\ IF now = worker[w].missing THEN Seeded(w)
              ELSE /\ worker' = [worker EXCEPT ![w].missing = @ \ now]
                   /\ UNCHANGED call
    /\ UNCHANGED <<fileVars, cache, schema, catalogue, crashes>>

CommitSeed(w) ==
    /\ worker[w].pc = "seeding"
    /\ worker[w].missing \cap rows = {}
    /\ rows' = rows \cup worker[w].missing
    /\ Seeded(w)
    /\ UNCHANGED <<fileVars, cache, schema, catalogue, crashes>>

\* A primary key another worker has inserted since.
SeedConflict(w) ==
    /\ worker[w].pc = "seeding"
    /\ worker[w].missing \cap rows # {}
    /\ Ends(w)
    /\ UNCHANGED <<fileVars, dbVars, crashes>>

(* sync_rules, once the rules are loaded.                                  *)

LookForRules(w) ==
    /\ worker[w].pc = "load"
    /\ call[<<w, Main>>].pc = "returned"
    /\ worker' = [worker EXCEPT ![w].pc = "sync", ![w].before = catalogue]
    /\ UNCHANGED <<cacheVars, dbVars, crashes>>

CommitRules(w) ==
    /\ worker[w].pc = "sync"
    /\ catalogue = NoFile \/ worker[w].before # NoFile
    /\ catalogue' = call[<<w, Main>>].value
    /\ At(w, "serving")
    /\ Finish(<<w, Main>>)
    /\ UNCHANGED <<fileVars, cache, schema, rows, crashes>>

RulesConflict(w) ==
    /\ worker[w].pc = "sync"
    /\ catalogue # NoFile
    /\ worker[w].before = NoFile
    /\ Ends(w)
    /\ UNCHANGED <<fileVars, dbVars, crashes>>

\* Mutant: the worker serves without the rules.
RulesUnreadableIgnored(w) ==
    /\ worker[w].pc = "load"
    /\ call[<<w, Main>>].pc = "raised"
    /\ At(w, "serving")
    /\ Finish(<<w, Main>>)
    /\ UNCHANGED <<fileVars, cache, dbVars, crashes>>

\* There was no rule file to read.
RulesUnreadable(w) ==
    /\ worker[w].pc = "load"
    /\ call[<<w, Main>>].pc = "raised"
    /\ Ends(w)
    /\ UNCHANGED <<fileVars, dbVars, crashes>>

(* Requests that load the rules, such as GET /rules.                       *)

Request(c) ==
    /\ worker[c[1]].pc = "serving"
    /\ call[c].pc = "idle"
    /\ Called(c)
    /\ UNCHANGED <<fileVars, cache, dbVars, worker, crashes>>

Respond(c) ==
    /\ worker[c[1]].pc = "serving"
    /\ call[c].pc \in {"returned", "raised"}
    /\ Finish(c)
    /\ UNCHANGED <<fileVars, cache, dbVars, worker, crashes>>

Load(c) == LoadStep(c) /\ UNCHANGED <<dbVars, worker, crashes>>

Lifespan(w) ==
    \/ InspectSchema(w) \/ CreateSchema(w) \/ SchemaConflict(w) \/ SchemaDone(w)
    \/ LookForSeed(w) \/ CommitSeed(w) \/ SeedConflict(w)
    \/ LookForRules(w) \/ CommitRules(w) \/ RulesConflict(w) \/ RulesUnreadable(w)

Edit == (RemoveFile \/ WriteFile) /\ UNCHANGED <<dbVars, worker, crashes>>

Next ==
    \/ Edit
    \/ \E w \in Workers : Lifespan(w) \/ Crash(w)
    \/ \E c \in Callers : Request(c) \/ Load(c) \/ Respond(c)

\* A worker goes on with its lifespan and is started again when it ended; who
\* removed the rule file writes it again.
Fairness ==
    /\ \A w \in Workers : WF_vars(Lifespan(w)) /\ WF_vars(Load(<<w, Main>>))
    /\ WF_vars(~present /\ Edit)

Spec == Init /\ [][Next]_vars /\ Fairness

-----------------------------------------------------------------------------
\* Every variable has its type; lifespan is past the load only when the rules
\* are there, and only a serving worker has requests.
TypeOK ==
    /\ CacheTypeOK
    /\ schema \in 0 .. Tables /\ rows \subseteq SeedRows /\ catalogue \in NoFile .. edits
    /\ worker \in [Workers -> [pc : {"down", "schema", "seed", "seeding", "load", "sync", "serving"},
                               found : 0 .. Tables, missing : SUBSET SeedRows,
                               before : NoFile .. edits]]
    /\ crashes \in 0 .. MaxCrashes
    /\ \A w \in Workers : worker[w].pc = "sync" => call[<<w, Main>>].pc = "returned"
    /\ \A c \in Callers : call[c].pc = "idle" \/ worker[c[1]].pc \in {"load", "sync", "serving"}

\* ensure_case_system commits once: whatever is killed or fails, the database
\* holds the whole case system or nothing of it.
SeedIsWhole == rows \in {{}, SeedRows}

\* lifespan prepares everything before the first request: a worker serves only
\* over a seeded database with a catalogue, also when it did not write them.
ServesPrepared ==
    \A w \in Workers : worker[w].pc = "serving" =>
        schema = Tables /\ rows = SeedRows /\ catalogue # NoFile

\* "Seeding is idempotent, so application startup can always call it" (case.py)
\* and the same of init_db: workers that start at once may fail each other's
\* inserts, but the ones that are started again find the rows, and in the end
\* all of them serve.
AllServeInTheEnd == <>[](\A w \in Workers : worker[w].pc = "serving")
=============================================================================
