----------------------------- MODULE RuleCache ------------------------------
(***************************************************************************)
(* load_rules of M4: the rule file behind a cache that each worker process *)
(* keys on the modification time of the file, while somebody replaces the  *)
(* file.  The threads of a worker share its cache.                         *)
(*                                                                         *)
(* The content of the file is the number of its revision, and each         *)
(* revision has a modification time of its own, which is that number       *)
(* again: two edits within one tick of the file system are left out.       *)
(***************************************************************************)
EXTENDS Integers, FiniteSets, Functions

CONSTANTS
    Workers,        \* uvicorn worker processes
    Callers,        \* <<worker, thread>>: the threads that may load rules
    CACHE_SIZE,     \* maxsize of the lru_cache
    MaxEdits        \* bound: revisions of the file

ASSUME CacheAssumption ==
    /\ \A c \in Callers : c[1] \in Workers
    /\ CACHE_SIZE \in Nat \ {0} /\ MaxEdits \in Nat \ {0}

VARIABLES
    edits,      \* the newest revision
    present,    \* is rules/oreg170.yaml there?
    cache,      \* worker -> stamp -> revision
    call        \* caller -> the locals of its load_rules

fileVars == <<edits, present>>
cacheVars == <<edits, present, cache, call>>

NoStamp == -1       \* path.stat() raised OSError
NoFile == 0

Content == IF present THEN edits ELSE NoFile
Mtime == IF present THEN edits ELSE NoStamp

\* `during` is history: what the file was, at one time or another of the call.
Idle == [pc |-> "idle", stamp |-> NoStamp, value |-> NoFile, during |-> {}]

Empty == [s \in {} |-> NoFile]

CacheInit ==
    /\ edits = 1
    /\ present = TRUE
    /\ cache = [w \in Workers |-> Empty]
    /\ call = [c \in Callers |-> Idle]

-----------------------------------------------------------------------------
(* The person who amends the regulation.                                   *)

Witnessed(content) ==
    call' = [c \in Callers |->
                IF call[c].pc = "idle" THEN call[c]
                ELSE [call[c] EXCEPT !.during = @ \cup {content}]]

\* An editor or a checkout unlinks the file before it writes the new one.
RemoveFile ==
    /\ present
    /\ edits < MaxEdits
    /\ present' = FALSE
    /\ Witnessed(NoFile)
    /\ UNCHANGED <<edits, cache>>

\* A new revision, in place of the old one or after it was removed.
WriteFile ==
    /\ edits < MaxEdits
    /\ edits' = edits + 1
    /\ present' = TRUE
    /\ Witnessed(edits')
    /\ UNCHANGED cache

-----------------------------------------------------------------------------
(* load_rules.                                                             *)

Called(c) ==
    call' = [call EXCEPT ![c] =
        [pc |-> "stat", stamp |-> NoStamp, value |-> NoFile, during |-> {Content}]]

StatFile(c) ==
    /\ call[c].pc = "stat"
    /\ call' = [call EXCEPT ![c].pc = "lookup", ![c].stamp = Mtime]
    /\ UNCHANGED <<fileVars, cache>>

CacheHit(c) ==
    LET known == cache[c[1]]
    IN  /\ call[c].pc = "lookup"
        /\ call[c].stamp \in DOMAIN known
        /\ call' = [call EXCEPT ![c].pc = "returned", ![c].value = known[call[c].stamp]]
        /\ UNCHANGED <<fileVars, cache>>

CacheMiss(c) ==
    /\ call[c].pc = "lookup"
    /\ call[c].stamp \notin DOMAIN cache[c[1]]
    /\ call' = [call EXCEPT ![c].pc = "read"]
    /\ UNCHANGED <<fileVars, cache>>

\* read_text raises if there is no file; nothing is cached then.
ReadFile(c) ==
    /\ call[c].pc = "read"
    /\ call' = [call EXCEPT ![c].pc = IF present THEN "store" ELSE "raised",
                            ![c].value = Content]
    /\ UNCHANGED <<fileVars, cache>>

\* Mutant: the time the file has once it was read.
StampNow(c) == Mtime

Stamp(c) == call[c].stamp

\* Mutant: the cache never gives an entry up.
EvictNothing(known) == {known}

\* What is left of a full cache once it has made room; which entry goes is
\* left open.
MadeRoom(known) ==
    IF Cardinality(DOMAIN known) < CACHE_SIZE THEN {known}
    ELSE {[s \in DOMAIN known \ {old} |-> known[s]] : old \in DOMAIN known}

\* A thread that lost the race to fill the entry returns what it read itself.
Store(c) ==
    LET known == cache[c[1]]
    IN  /\ call[c].pc = "store"
        /\ IF Stamp(c) \in DOMAIN known THEN UNCHANGED cache
           ELSE \E rest \in MadeRoom(known) :
                  cache' = [cache EXCEPT ![c[1]] =
                    [s \in DOMAIN rest \cup {Stamp(c)} |->
                        IF s = Stamp(c) THEN call[c].value ELSE rest[s]]]
        /\ call' = [call EXCEPT ![c].pc = "returned"]
        /\ UNCHANGED fileVars

LoadStep(c) ==
    StatFile(c) \/ CacheHit(c) \/ CacheMiss(c) \/ ReadFile(c) \/ Store(c)

\* The caller goes on with the rules, or fails.
Finish(c) == call' = [call EXCEPT ![c] = Idle]

-----------------------------------------------------------------------------
CacheTypeOK ==
    /\ edits \in 1 .. MaxEdits /\ present \in BOOLEAN
    /\ DOMAIN cache = Workers
    /\ \A w \in Workers :
        /\ Cardinality(DOMAIN cache[w]) <= CACHE_SIZE
        /\ DOMAIN cache[w] \subseteq {NoStamp} \cup 1 .. edits
        /\ Range(cache[w]) \subseteq 1 .. edits
    /\ call \in [Callers -> [pc : {"idle", "stat", "lookup", "read", "store", "returned", "raised"},
                             stamp : {NoStamp} \cup 1 .. edits, value : NoFile .. edits,
                             during : SUBSET (NoFile .. edits)]]

\* "an amended regulation is still picked up on the next request, so the fix
\* cannot serve a stale schedule" (load_rules): what a call returns was the
\* content of the file at some time during that call, however its steps mix
\* with edits and with the other threads.  The exception is a call that found
\* no file to stat: an entry without a time is never renewed.
LoadsAreCurrent ==
    \A c \in Callers :
        call[c].pc = "returned" /\ call[c].stamp # NoStamp =>
            call[c].value \in call[c].during
=============================================================================
