--------------------------- MODULE StartupProofs ----------------------------
(***************************************************************************)
(* Proofs about Startup and its rule cache, for any number of workers,     *)
(* threads, revisions and kills and for any size of the cache.             *)
(*                                                                         *)
(* What makes the cache current: a revision that is filed under a time was *)
(* read no earlier than that time, and whoever asks for that time has been *)
(* in his call ever since (CallIsCurrent), so that he has witnessed every  *)
(* revision from that time on.  Bounds adds what the types promise of      *)
(* times and revisions.                                                    *)
(***************************************************************************)
EXTENDS Startup, FiniteSetTheorems, TLAPS

Revision == Nat \ {0}

Entries == UNION {[S -> Revision] : S \in SUBSET Int}

Steps == {"idle", "stat", "lookup", "read", "store", "returned", "raised"}
PastStat == Steps \ {"idle", "stat"}

CallRecord == [pc : Steps, stamp : Int, value : Nat, during : SUBSET Nat]

\* An entry with a time is a revision of that time or later.
EntryIsCurrent(w) ==
    \A s \in DOMAIN cache[w] :
        /\ cache[w][s] <= edits
        /\ s # NoStamp => s <= cache[w][s]

\* A call has witnessed every revision since the one whose time it took.
CallIsCurrent(c) ==
    /\ call[c].pc # "idle" => Content \in call[c].during
    /\ call[c].pc \in PastStat => call[c].stamp <= edits
    /\ call[c].pc \in PastStat /\ call[c].stamp # NoStamp =>
            call[c].stamp .. edits \subseteq call[c].during
    /\ call[c].pc \in {"store", "returned"} =>
            /\ call[c].value \in 1 .. edits
            /\ call[c].stamp # NoStamp => call[c].stamp <= call[c].value

CacheTypes ==
    /\ edits \in Revision
    /\ present \in BOOLEAN
    /\ cache \in [Workers -> Entries]
    /\ call \in [Callers -> CallRecord]

CacheInv ==
    /\ CacheTypes
    /\ \A w \in Workers : EntryIsCurrent(w)
    /\ \A c \in Callers : CallIsCurrent(c)

-----------------------------------------------------------------------------
\* A process that starts has an empty cache.
LEMMA EmptyEntries == Empty \in Entries /\ DOMAIN Empty = {}
  BY DEF Empty, Entries

\* The content and the time of the file, as numbers.
LEMMA FileTypes ==
  ASSUME edits \in Revision, present \in BOOLEAN
  PROVE  /\ Content \in Nat /\ Content <= edits
         /\ Mtime \in Int /\ Mtime <= edits /\ NoStamp \in Int
         /\ Mtime # NoStamp => Mtime = edits /\ Content = edits
  BY DEF Content, Mtime, NoFile, NoStamp, Revision

\* Nothing is cached and nobody has called at first.
LEMMA CacheInitially == CacheInit => CacheInv
  <1> SUFFICES ASSUME CacheInit PROVE CacheInv
    OBVIOUS
  <1>1. CacheTypes
    BY EmptyEntries DEF CacheInit, CacheTypes, Revision, CallRecord, Steps, Idle, NoStamp, NoFile
  <1>2. \A w \in Workers : EntryIsCurrent(w)
    BY EmptyEntries DEF CacheInit, EntryIsCurrent
  <1>3. \A c \in Callers : CallIsCurrent(c)
    BY DEF CacheInit, CallIsCurrent, Idle, PastStat, Steps
  <1> QED
    BY <1>1, <1>2, <1>3 DEF CacheInv

\* An edit is witnessed by every call, and revisions only grow.
LEMMA EditsKeep == CacheInv /\ (RemoveFile \/ WriteFile) => CacheInv'
  <1> SUFFICES ASSUME CacheInv, RemoveFile \/ WriteFile PROVE CacheInv'
    OBVIOUS
  <1> DEFINE now == Content'
  <1>1. /\ cache' = cache /\ edits' \in Revision /\ edits <= edits' /\ edits' <= edits + 1
        /\ present' \in BOOLEAN /\ now \in Nat
        /\ edits' = edits + 1 => now = edits'
        /\ Witnessed(now)
    <2>1. edits \in Revision /\ present \in BOOLEAN
      BY DEF CacheInv, CacheTypes
    <2>2. CASE RemoveFile
      <3>1. cache' = cache /\ edits' = edits /\ present' = FALSE /\ Witnessed(NoFile)
        BY <2>2 DEF RemoveFile
      <3>2. now = NoFile
        BY <3>1 DEF Content
      <3> QED
        <4>1. NoFile \in Nat
          BY DEF NoFile
        <4>2. Witnessed(now)
          BY <3>1, <3>2 DEF Witnessed
        <4>3. present' \in BOOLEAN
          BY <3>1
        <4> HIDE DEF now
        <4>4. /\ edits' \in Revision /\ edits <= edits' /\ edits' <= edits + 1
              /\ edits' # edits + 1 /\ now \in Nat
          BY <2>1, <3>1, <3>2, <4>1 DEF Revision
        <4> QED
          BY <3>1, <4>2, <4>3, <4>4
    <2>3. CASE WriteFile
      <3>1. cache' = cache /\ edits' = edits + 1 /\ present' = TRUE /\ Witnessed(edits')
        BY <2>3 DEF WriteFile
      <3>2. now = edits'
        BY <3>1 DEF Content
      <3> QED
        BY <2>1, <3>1, <3>2 DEF Revision
    <2> QED
      BY <2>2, <2>3
  <1>2. \A c \in Callers : /\ call'[c].pc = call[c].pc /\ call'[c].stamp = call[c].stamp
                           /\ call'[c].value = call[c].value
                           /\ call[c].pc # "idle" => call'[c].during = call[c].during \cup {now}
                           /\ call'[c] \in CallRecord
    <2> SUFFICES ASSUME NEW c \in Callers
                 PROVE  /\ call'[c].pc = call[c].pc /\ call'[c].stamp = call[c].stamp
                        /\ call'[c].value = call[c].value
                        /\ call[c].pc # "idle" => call'[c].during = call[c].during \cup {now}
                        /\ call'[c] \in CallRecord
      OBVIOUS
    <2> HIDE DEF now
    <2>1. call[c] \in CallRecord
      BY DEF CacheInv, CacheTypes
    <2>2. call'[c] = IF call[c].pc = "idle" THEN call[c]
                     ELSE [call[c] EXCEPT !.during = @ \cup {now}]
      BY <1>1 DEF Witnessed
    <2> QED
      BY <2>1, <2>2, <1>1 DEF CallRecord
  <1>3. CacheTypes'
    <2>1. call' = [c \in Callers |-> call'[c]]
      BY <1>1 DEF Witnessed
    <2> QED
      BY <1>1, <1>2, <2>1 DEF CacheInv, CacheTypes
  <1>4. ASSUME NEW w \in Workers PROVE EntryIsCurrent(w)'
    <2>1. cache[w] \in Entries /\ EntryIsCurrent(w)
      BY DEF CacheInv, CacheTypes
    <2>2. \A s \in DOMAIN cache[w] : cache[w][s] \in Revision /\ s \in Int
      BY <2>1 DEF Entries
    <2> QED
      BY <1>1, <2>1, <2>2 DEF EntryIsCurrent, CacheInv, CacheTypes, Revision
  <1>5. ASSUME NEW c \in Callers PROVE CallIsCurrent(c)'
    <2>1. CallIsCurrent(c) /\ call[c] \in CallRecord /\ edits \in Revision
      BY DEF CacheInv, CacheTypes
    <2>2. edits' = edits \/ (edits' = edits + 1 /\ now = edits')
      BY <1>1, <2>1 DEF Revision
    <2>3. edits .. edits' \subseteq {edits, now}
      BY <2>1, <2>2 DEF Revision
    <2> HIDE DEF now
    <2>4. call[c].pc \in PastStat /\ call[c].stamp # NoStamp =>
            call[c].stamp .. edits' \subseteq call[c].during \cup {now}
      BY <2>1, <2>2 DEF CallIsCurrent, CallRecord, Revision
    <2>5. (call[c].pc # "idle" => now \in call'[c].during)
      BY <1>2
    <2>6. Content' = now
      BY DEF now
    <2> QED
      BY <1>1, <1>2, <2>1, <2>4, <2>5, <2>6 DEF CallIsCurrent, CallRecord, Revision, PastStat, Steps
  <1> QED
    BY <1>3, <1>4, <1>5 DEF CacheInv

\* One caller takes a step of its own over the same file and the same cache.
LEMMA CallKeeps ==
  ASSUME CacheInv, UNCHANGED <<fileVars, cache>>,
         NEW c \in Callers, NEW k \in CallRecord,
         call' = [call EXCEPT ![c] = k],
         k.pc # "idle" => Content \in k.during,
         k.pc \in PastStat => k.stamp <= edits,
         k.pc \in PastStat /\ k.stamp # NoStamp => k.stamp .. edits \subseteq k.during,
         k.pc \in {"store", "returned"} =>
            k.value \in 1 .. edits /\ (k.stamp # NoStamp => k.stamp <= k.value)
  PROVE  CacheInv'
  <1>1. CacheTypes'
    BY DEF CacheInv, CacheTypes, fileVars
  <1>2. \A w \in Workers : EntryIsCurrent(w)'
    BY DEF CacheInv, EntryIsCurrent, fileVars
  <1>3. ASSUME NEW d \in Callers PROVE CallIsCurrent(d)'
    <2>1. Content' = Content /\ edits' = edits
      BY DEF Content, fileVars
    <2>2. CallIsCurrent(d)
      BY DEF CacheInv
    <2>3. CASE d = c
      <3>1. call'[d] = k
        BY <2>3 DEF CacheInv, CacheTypes
      <3> QED
        BY <2>1, <3>1 DEF CallIsCurrent
    <2>4. CASE d # c
      <3>1. call'[d] = call[d]
        BY <2>4 DEF CacheInv, CacheTypes
      <3> QED
        BY <2>1, <2>2, <3>1 DEF CallIsCurrent
    <2> QED
      BY <2>3, <2>4
  <1> QED
    BY <1>1, <1>2, <1>3 DEF CacheInv

\* A call begins, and knows what the file is.
LEMMA CalledKeeps ==
  ASSUME CacheInv, UNCHANGED <<fileVars, cache>>, NEW c \in Callers, Called(c)
  PROVE  CacheInv'
  <1> DEFINE k == [pc |-> "stat", stamp |-> NoStamp, value |-> NoFile, during |-> {Content}]
  <1>1. k \in CallRecord /\ k.pc = "stat" /\ k.during = {Content}
    <2>1. Content \in Nat /\ NoStamp \in Int
      BY FileTypes DEF CacheInv, CacheTypes
    <2> QED
      BY <2>1 DEF CallRecord, Steps, NoFile
  <1>2. call' = [call EXCEPT ![c] = k]
    BY DEF Called
  <1> HIDE DEF k
  <1> QED
    BY <1>1, <1>2, CallKeeps DEF PastStat

\* A call ends.
LEMMA FinishKeeps ==
  ASSUME CacheInv, UNCHANGED <<fileVars, cache>>, NEW c \in Callers, Finish(c)
  PROVE  CacheInv'
  <1>1. Idle \in CallRecord /\ Idle.pc = "idle"
    BY DEF CallRecord, Steps, Idle, NoStamp, NoFile
  <1>2. call' = [call EXCEPT ![c] = Idle]
    BY DEF Finish
  <1> QED
    BY <1>1, <1>2, CallKeeps DEF PastStat

\* The stat, the lookup, the read and the store.
LEMMA LoadKeeps ==
  ASSUME CacheInv, NEW c \in Callers, LoadStep(c)
  PROVE  CacheInv'
  <1> DEFINE k == call[c]
  <1>0. /\ k \in CallRecord /\ CallIsCurrent(c) /\ edits \in Revision /\ present \in BOOLEAN
        /\ c[1] \in Workers /\ cache[c[1]] \in Entries /\ EntryIsCurrent(c[1])
    BY CacheAssumption DEF CacheInv, CacheTypes
  <1>1. CASE StatFile(c)
    <2> DEFINE n == [k EXCEPT !.pc = "lookup", !.stamp = Mtime]
    <2>1. /\ n \in CallRecord /\ n.pc = "lookup" /\ n.during = k.during /\ n.stamp = Mtime
      BY <1>0, FileTypes DEF CallRecord, Steps
    <2>2. call' = [call EXCEPT ![c] = n] /\ UNCHANGED <<fileVars, cache>> /\ Content \in k.during
      BY <1>0, <1>1 DEF StatFile, CallIsCurrent, CallRecord, CacheInv, CacheTypes
    <2>3. /\ Mtime <= edits
          /\ Mtime # NoStamp => Mtime .. edits \subseteq {Content}
      BY <1>0 DEF Mtime, NoStamp, Content, Revision
    <2> HIDE DEF n
    <2> QED
      BY <2>1, <2>2, <2>3, CallKeeps
  <1>2. CASE CacheHit(c)
    <2> DEFINE found == cache[c[1]][k.stamp]
               n == [k EXCEPT !.pc = "returned", !.value = found]
    <2>1. k.pc = "lookup" /\ k.stamp \in DOMAIN cache[c[1]] /\ UNCHANGED <<fileVars, cache>>
      BY <1>2 DEF CacheHit
    <2>2. found \in Revision /\ found <= edits /\ (k.stamp # NoStamp => k.stamp <= found)
      BY <1>0, <2>1 DEF Entries, EntryIsCurrent
    <2>3. call' = [call EXCEPT ![c] = n]
      BY <1>0, <1>2 DEF CacheHit, CacheInv, CacheTypes, CallRecord
    <2> HIDE DEF found
    <2>4. /\ n \in CallRecord /\ n.pc = "returned" /\ n.during = k.during /\ n.stamp = k.stamp
          /\ n.value = found
      BY <1>0, <2>2 DEF CallRecord, Steps, Revision
    <2>5. /\ Content \in n.during /\ n.stamp <= edits
          /\ n.stamp # NoStamp => n.stamp .. edits \subseteq n.during
      BY <1>0, <2>1, <2>4 DEF CallIsCurrent, PastStat, Steps
    <2>6. n.value \in 1 .. edits /\ (n.stamp # NoStamp => n.stamp <= n.value)
      BY <1>0, <2>2, <2>4 DEF Revision
    <2> HIDE DEF n
    <2> QED
      BY <2>1, <2>3, <2>4, <2>5, <2>6, CallKeeps
  <1>3. CASE CacheMiss(c)
    <2> DEFINE n == [k EXCEPT !.pc = "read"]
    <2>1. /\ k.pc = "lookup" /\ UNCHANGED <<fileVars, cache>>
          /\ call' = [call EXCEPT ![c] = n]
      BY <1>0, <1>3 DEF CacheMiss, CacheInv, CacheTypes, CallRecord
    <2>2. n \in CallRecord /\ n.pc = "read" /\ n.during = k.during /\ n.stamp = k.stamp
      BY <1>0 DEF CallRecord, Steps
    <2>3. /\ Content \in n.during /\ n.stamp <= edits
          /\ n.stamp # NoStamp => n.stamp .. edits \subseteq n.during
      BY <1>0, <2>1, <2>2 DEF CallIsCurrent, PastStat, Steps
    <2> HIDE DEF n
    <2> QED
      BY <2>1, <2>2, <2>3, CallKeeps
  <1>4. CASE ReadFile(c)
    <2> DEFINE n == [k EXCEPT !.pc = IF present THEN "store" ELSE "raised", !.value = Content]
    <2>1. /\ k.pc = "read" /\ UNCHANGED <<fileVars, cache>>
          /\ call' = [call EXCEPT ![c] = n]
      BY <1>0, <1>4 DEF ReadFile, CacheInv, CacheTypes, CallRecord
    <2>2. /\ n \in CallRecord /\ n.pc \in {"store", "raised"} /\ n.during = k.during
          /\ n.stamp = k.stamp /\ n.value = Content /\ (n.pc = "store" => present)
      BY <1>0 DEF CallRecord, Steps, Content, Revision, NoFile
    <2>3. /\ Content \in n.during /\ n.stamp <= edits
          /\ n.stamp # NoStamp => n.stamp .. edits \subseteq n.during
      BY <1>0, <2>1, <2>2 DEF CallIsCurrent, PastStat, Steps
    <2>4. n.pc = "store" => n.value \in 1 .. edits /\ n.stamp <= n.value
      BY <1>0, <2>2, <2>3 DEF Content, Revision
    <2> HIDE DEF n
    <2> QED
      BY <2>1, <2>2, <2>3, <2>4, CallKeeps
  <1>5. CASE Store(c)
    <2> DEFINE n == [k EXCEPT !.pc = "returned"]
    <2>1. /\ k.pc = "store" /\ UNCHANGED fileVars
          /\ call' = [call EXCEPT ![c] = n]
      BY <1>0, <1>5 DEF Store, CacheInv, CacheTypes, CallRecord
    <2>2. /\ n \in CallRecord /\ n.pc = "returned" /\ n.during = k.during
          /\ n.stamp = k.stamp /\ n.value = k.value
      BY <1>0 DEF CallRecord, Steps
    <2>3. /\ Content \in n.during /\ n.stamp <= edits
          /\ n.stamp # NoStamp => n.stamp .. edits \subseteq n.during
          /\ n.value \in 1 .. edits
          /\ n.stamp # NoStamp => n.stamp <= n.value
      BY <1>0, <2>1, <2>2 DEF CallIsCurrent, PastStat, Steps
    <2> HIDE DEF n
    <2>4. CASE UNCHANGED cache
      BY <2>1, <2>2, <2>3, <2>4, CallKeeps
    <2>5. ASSUME NEW rest \in MadeRoom(cache[c[1]]),
                 cache' = [cache EXCEPT ![c[1]] =
                    [s \in DOMAIN rest \cup {Stamp(c)} |->
                        IF s = Stamp(c) THEN call[c].value ELSE rest[s]]]
          PROVE  CacheInv'
      <3> DEFINE new == [s \in DOMAIN rest \cup {k.stamp} |->
                            IF s = k.stamp THEN k.value ELSE rest[s]]
      <3>1. /\ DOMAIN rest \subseteq DOMAIN cache[c[1]]
            /\ \A s \in DOMAIN rest : rest[s] = cache[c[1]][s]
        BY <2>5 DEF MadeRoom
      <3>2. /\ DOMAIN new \subseteq Int
            /\ \A s \in DOMAIN new : /\ new[s] \in Revision /\ new[s] <= edits
                                     /\ s # NoStamp => s <= new[s]
        <4>1. k.stamp \in Int /\ k.value \in Revision /\ k.value <= edits
              /\ (k.stamp # NoStamp => k.stamp <= k.value)
          BY <1>0, <2>2, <2>3 DEF CallRecord, Revision
        <4>2. \A s \in DOMAIN rest : /\ s \in Int /\ rest[s] \in Revision /\ rest[s] <= edits
                                     /\ s # NoStamp => s <= rest[s]
          <5>1. PICK old : old = cache[c[1]]
            OBVIOUS
          <5>2. /\ DOMAIN old \subseteq Int
                /\ \A s \in DOMAIN old : old[s] \in Revision
            BY <1>0, <5>1 DEF Entries
          <5>3. \A s \in DOMAIN old : /\ old[s] <= edits
                                      /\ s # NoStamp => s <= old[s]
            BY <1>0, <5>1 DEF EntryIsCurrent
          <5>4. DOMAIN rest \subseteq DOMAIN old /\ \A s \in DOMAIN rest : rest[s] = old[s]
            BY <3>1, <5>1
          <5> HIDE DEF new, k
          <5> QED BY <5>2, <5>3, <5>4
        <4> QED
          BY <4>1, <4>2
      <3>3. new \in Entries
        <4>1. new \in [DOMAIN new -> Revision]
          BY <3>2
        <4> QED
          BY <3>2, <4>1 DEF Entries
      <3>4. cache' = [cache EXCEPT ![c[1]] = new]
        BY <2>5 DEF Stamp
      <3> HIDE DEF new
      <3>5. CacheTypes'
        BY <1>0, <2>1, <2>2, <3>3, <3>4 DEF CacheInv, CacheTypes, fileVars
      <3>6. ASSUME NEW w \in Workers PROVE EntryIsCurrent(w)'
        <4>1. edits' = edits /\ EntryIsCurrent(w)
          BY <2>1 DEF fileVars, CacheInv
        <4>2. cache'[w] = IF w = c[1] THEN new ELSE cache[w]
          BY <1>0, <3>4 DEF CacheInv, CacheTypes
        <4> QED
          BY <3>2, <4>1, <4>2 DEF EntryIsCurrent
      <3>7. ASSUME NEW d \in Callers PROVE CallIsCurrent(d)'
        <4>1. edits' = edits /\ Content' = Content /\ CallIsCurrent(d)
          BY <2>1 DEF fileVars, CacheInv, Content
        <4>2. call'[d] = IF d = c THEN n ELSE call[d]
          BY <2>1 DEF CacheInv, CacheTypes
        <4> QED
          BY <2>2, <2>3, <4>1, <4>2 DEF CallIsCurrent
      <3> QED
        BY <3>5, <3>6, <3>7 DEF CacheInv
    <2> QED
      BY <1>5, <2>4, <2>5 DEF Store
  <1> QED
    BY <1>1, <1>2, <1>3, <1>4, <1>5 DEF LoadStep

\* A process ends with its cache and its calls.
LEMMA EndsKeeps ==
  ASSUME CacheInv, UNCHANGED fileVars, NEW w \in Workers, Ends(w)
  PROVE  CacheInv'
  <1>1. cache' = [cache EXCEPT ![w] = Empty]
        /\ call' = [c \in Callers |-> IF c[1] = w THEN Idle ELSE call[c]]
        /\ edits' = edits /\ present' = present /\ Content' = Content
    BY DEF Ends, fileVars, Content
  <1>2. Idle \in CallRecord /\ Idle.pc = "idle"
    BY DEF CallRecord, Steps, Idle, NoStamp, NoFile
  <1>3. CacheTypes'
    BY <1>1, <1>2, EmptyEntries DEF CacheInv, CacheTypes
  <1>4. ASSUME NEW u \in Workers PROVE EntryIsCurrent(u)'
    <2>1. cache'[u] = IF u = w THEN Empty ELSE cache[u]
      BY <1>1 DEF CacheInv, CacheTypes
    <2> QED
      BY <1>1, <2>1, EmptyEntries DEF CacheInv, EntryIsCurrent
  <1>5. ASSUME NEW c \in Callers PROVE CallIsCurrent(c)'
    <2>1. call'[c] = IF c[1] = w THEN Idle ELSE call[c]
      BY <1>1
    <2> QED
      BY <1>1, <1>2, <2>1 DEF CacheInv, CallIsCurrent, PastStat
  <1> QED
    BY <1>3, <1>4, <1>5 DEF CacheInv

\* Nothing of the cache changes.
LEMMA CacheStutters == CacheInv /\ UNCHANGED cacheVars => CacheInv'
  BY DEF CacheInv, CacheTypes, EntryIsCurrent, CallIsCurrent, Content, cacheVars

-----------------------------------------------------------------------------
(* The lifespan of the workers.                                            *)

WorkerRecord ==
    [pc : {"down", "schema", "seed", "seeding", "load", "sync", "serving"},
     found : 0 .. Tables, missing : SUBSET SeedRows, before : Nat]

LifespanTypes ==
    /\ schema \in 0 .. Tables
    /\ rows \in SUBSET SeedRows
    /\ catalogue \in Nat
    /\ worker \in [Workers -> WorkerRecord]

\* What worker w may rely on where it is.
Prepared(w) ==
    /\ worker[w].pc = "schema" => worker[w].found <= schema
    /\ worker[w].pc \notin {"down", "schema"} => schema = Tables
    /\ worker[w].pc = "seeding" => \/ worker[w].missing = SeedRows
                                   \/ worker[w].missing = {} /\ rows = SeedRows
    /\ worker[w].pc \in {"load", "sync", "serving"} => rows = SeedRows
    /\ worker[w].pc = "sync" => call[<<w, Main>>].pc = "returned"
    /\ worker[w].pc = "serving" => catalogue # NoFile

LifespanInv ==
    /\ LifespanTypes
    /\ SeedIsWhole
    /\ \A w \in Workers : Prepared(w)

\* The workers start from nothing.
LEMMA LifespanInitially == Init => LifespanInv
  <1> SUFFICES ASSUME Init PROVE LifespanInv
    OBVIOUS
  <1>1. LifespanTypes
    BY StartupAssumption DEF Init, LifespanTypes, WorkerRecord, Down, NoFile
  <1>2. SeedIsWhole
    BY DEF Init, SeedIsWhole
  <1>3. \A w \in Workers : Prepared(w)
    BY StartupAssumption DEF Init, Prepared, Down
  <1> QED
    BY <1>1, <1>2, <1>3 DEF LifespanInv

\* Worker w reaches n; the others may rely on what they relied on before, as
\* the schema, the seed and the catalogue are never taken back.
LEMMA WorkerKeeps ==
  ASSUME LifespanInv, NEW w \in Workers, NEW n \in WorkerRecord,
         worker' = [worker EXCEPT ![w] = n],
         schema' \in 0 .. Tables, schema <= schema',
         rows' = rows \/ rows' = SeedRows,
         catalogue' \in Nat, catalogue # NoFile => catalogue' # NoFile,
         \A u \in Workers \ {w} :
            call[<<u, Main>>].pc = "returned" => call'[<<u, Main>>].pc = "returned",
         n.pc = "schema" => n.found <= schema',
         n.pc \notin {"down", "schema"} => schema' = Tables,
         n.pc = "seeding" => n.missing = SeedRows \/ (n.missing = {} /\ rows' = SeedRows),
         n.pc \in {"load", "sync", "serving"} => rows' = SeedRows,
         n.pc = "sync" => call'[<<w, Main>>].pc = "returned",
         n.pc = "serving" => catalogue' # NoFile
  PROVE  LifespanInv'
  <1>1. LifespanTypes'
    BY DEF LifespanInv, LifespanTypes
  <1>2. SeedIsWhole'
    BY DEF LifespanInv, SeedIsWhole
  <1>3. ASSUME NEW u \in Workers PROVE Prepared(u)'
    <2>1. CASE u = w
      <3>1. worker'[u] = n
        BY <2>1 DEF LifespanInv, LifespanTypes
      <3> QED
        BY <2>1, <3>1 DEF Prepared
    <2>2. CASE u # w
      <3>1. worker'[u] = worker[u] /\ Prepared(u)
        BY <2>2 DEF LifespanInv, LifespanTypes
      <3>2. rows = SeedRows => rows' = SeedRows
        OBVIOUS
      <3>3. /\ worker[u].found <= schema => worker[u].found <= schema'
            /\ schema = Tables => schema' = Tables
        BY StartupAssumption DEF LifespanInv, LifespanTypes, WorkerRecord
      <3> QED
        BY <2>2, <3>1, <3>2, <3>3 DEF Prepared
    <2> QED
      BY <2>1, <2>2
  <1> QED
    BY <1>1, <1>2, <1>3 DEF LifespanInv

\* A worker that ends relies on nothing any more.
LEMMA EndsPrepared ==
  ASSUME LifespanInv, UNCHANGED dbVars, NEW w \in Workers, Ends(w)
  PROVE  LifespanInv'
  <1>1. Down \in WorkerRecord /\ Down.pc = "down"
    BY StartupAssumption DEF Down, WorkerRecord, NoFile
  <1>2. worker' = [worker EXCEPT ![w] = Down]
    BY DEF Ends
  <1>3. \A u \in Workers \ {w} : call'[<<u, Main>>] = call[<<u, Main>>]
    BY StartupAssumption DEF Ends
  <1>4. /\ schema' = schema /\ rows' = rows /\ catalogue' = catalogue
        /\ schema \in 0 .. Tables /\ schema <= schema /\ catalogue \in Nat
    BY DEF dbVars, LifespanInv, LifespanTypes
  <1> QED
    BY <1>1, <1>2, <1>3, <1>4, WorkerKeeps

\* The calls go on while the lifespans stand still.
LEMMA CallsPrepared ==
  ASSUME LifespanInv, UNCHANGED <<dbVars, worker>>,
         \A w \in Workers : worker[w].pc = "sync" /\ call[<<w, Main>>].pc = "returned" =>
                                call'[<<w, Main>>].pc = "returned"
  PROVE  LifespanInv'
  BY DEF LifespanInv, LifespanTypes, SeedIsWhole, Prepared, dbVars

\* Every step of a lifespan keeps both invariants.
LEMMA LifespanKeeps ==
  ASSUME CacheInv, LifespanInv, NEW w \in Workers, Lifespan(w)
  PROVE  CacheInv' /\ LifespanInv'
  <1> DEFINE k == worker[w]
             main == <<w, Main>>
  <1>0. /\ k \in WorkerRecord /\ Prepared(w) /\ schema \in 0 .. Tables /\ schema <= schema
        /\ catalogue \in Nat /\ rows \in SUBSET SeedRows /\ main \in Callers
    BY StartupAssumption DEF LifespanInv, LifespanTypes
  <1>1. CASE InspectSchema(w)
    <2> DEFINE n == [k EXCEPT !.pc = "schema", !.found = schema]
    <2>1. n \in WorkerRecord /\ n.pc = "schema" /\ n.found = schema
      BY <1>0 DEF WorkerRecord
    <2>2. worker' = [worker EXCEPT ![w] = n]
      BY <1>0, <1>1 DEF InspectSchema, LifespanInv, LifespanTypes, WorkerRecord
    <2>3. UNCHANGED <<cacheVars, call, schema, rows, catalogue>>
      BY <1>1 DEF InspectSchema, cacheVars, dbVars
    <2> HIDE DEF n
    <2> QED
      BY <1>0, <2>1, <2>2, <2>3, WorkerKeeps, CacheStutters
  <1>2. CASE CreateSchema(w)
    <2>1. PICK more \in schema + 1 .. Tables :
             schema' = more /\ worker' = [worker EXCEPT ![w].found = more]
      BY <1>2 DEF CreateSchema
    <2>2. more \in 0 .. Tables /\ schema <= more /\ k.pc = "schema"
      BY <1>0, <1>2, <2>1, StartupAssumption DEF CreateSchema
    <2> DEFINE n == [k EXCEPT !.found = more]
    <2>3. n \in WorkerRecord /\ n.pc = "schema" /\ n.found = more
      BY <1>0, <2>2 DEF WorkerRecord
    <2>4. worker' = [worker EXCEPT ![w] = n]
      BY <2>1
    <2>5. UNCHANGED <<cacheVars, call, rows, catalogue>>
      BY <1>2 DEF CreateSchema, cacheVars
    <2>6. n.found <= schema'
      BY <2>1, <2>2, <2>3
    <2> HIDE DEF n
    <2> QED
      BY <1>0, <2>1, <2>2, <2>3, <2>4, <2>5, <2>6, WorkerKeeps, CacheStutters
  <1>8. CASE SchemaDone(w)
    <2> DEFINE n == [Down EXCEPT !.pc = "seed"]
    <2>1. n \in WorkerRecord /\ n.pc = "seed"
      BY StartupAssumption DEF WorkerRecord, Down, NoFile
    <2>2. /\ worker' = [worker EXCEPT ![w] = n] /\ k.pc = "schema" /\ k.found = Tables
          /\ UNCHANGED <<cacheVars, call, schema, rows, catalogue>>
      BY <1>8 DEF SchemaDone, At, cacheVars, dbVars
    <2>3. schema = Tables
      BY <1>0, <2>2, StartupAssumption DEF Prepared
    <2> HIDE DEF n
    <2> QED
      BY <1>0, <2>1, <2>2, <2>3, WorkerKeeps, CacheStutters
  <1>3. CASE SchemaConflict(w) \/ SeedConflict(w) \/ RulesConflict(w) \/ RulesUnreadable(w)
    <2>1. Ends(w) /\ UNCHANGED fileVars /\ UNCHANGED dbVars
      BY <1>3 DEF SchemaConflict, SeedConflict, RulesConflict, RulesUnreadable
    <2> QED
      BY <2>1, EndsKeeps, EndsPrepared
  <1>4. CASE LookForSeed(w)
    <2> DEFINE n == [k EXCEPT !.pc = "seeding", !.missing = Missing]
    <2>1. n \in WorkerRecord /\ n.pc = "seeding" /\ n.missing = Missing
      BY <1>0 DEF WorkerRecord, Missing
    <2>2. worker' = [worker EXCEPT ![w] = n] /\ k.pc = "seed"
      BY <1>0, <1>4 DEF LookForSeed, LifespanInv, LifespanTypes, WorkerRecord
    <2>3. UNCHANGED <<cacheVars, call, schema, rows, catalogue>>
      BY <1>4 DEF LookForSeed, cacheVars, dbVars
    <2>4. Missing = SeedRows \/ (Missing = {} /\ rows = SeedRows)
      BY DEF Missing, LifespanInv, SeedIsWhole
    <2>5. schema = Tables
      BY <1>0, <2>2 DEF Prepared
    <2> HIDE DEF n
    <2> QED
      BY <1>0, <2>1, <2>2, <2>3, <2>4, <2>5, WorkerKeeps, CacheStutters
  <1>5. CASE CommitSeed(w)
    <2> DEFINE n == [Down EXCEPT !.pc = "load"]
    <2>1. n \in WorkerRecord /\ n.pc = "load"
      BY StartupAssumption DEF WorkerRecord, Down, NoFile
    <2>2. /\ worker' = [worker EXCEPT ![w] = n] /\ k.pc = "seeding"
          /\ rows' = rows \cup k.missing /\ Called(main)
          /\ UNCHANGED <<fileVars, cache>> /\ UNCHANGED <<schema, catalogue>>
      BY <1>5 DEF CommitSeed, Seeded, At
    <2>3. rows' = SeedRows /\ schema = Tables
      BY <1>0, <2>2 DEF Prepared
    <2>4. \A u \in Workers \ {w} : call'[<<u, Main>>] = call[<<u, Main>>]
      BY <2>2, StartupAssumption DEF Called, CacheInv, CacheTypes
    <2> HIDE DEF n
    <2>5. LifespanInv'
      BY <1>0, <2>1, <2>2, <2>3, <2>4, WorkerKeeps
    <2> QED
      BY <1>0, <2>2, <2>5, CalledKeeps
  <1>6. CASE LookForRules(w)
    <2> DEFINE n == [k EXCEPT !.pc = "sync", !.before = catalogue]
    <2>1. n \in WorkerRecord /\ n.pc = "sync"
      BY <1>0 DEF WorkerRecord
    <2>2. /\ worker' = [worker EXCEPT ![w] = n] /\ k.pc = "load"
          /\ call[main].pc = "returned"
      BY <1>0, <1>6 DEF LookForRules, LifespanInv, LifespanTypes, WorkerRecord
    <2>3. UNCHANGED <<cacheVars, call, schema, rows, catalogue>>
      BY <1>6 DEF LookForRules, cacheVars, dbVars
    <2>4. schema = Tables /\ rows = SeedRows
      BY <1>0, <2>2 DEF Prepared
    <2> HIDE DEF n
    <2> QED
      BY <1>0, <2>1, <2>2, <2>3, <2>4, WorkerKeeps, CacheStutters
  <1>7. CASE CommitRules(w)
    <2> DEFINE n == [Down EXCEPT !.pc = "serving"]
    <2>1. n \in WorkerRecord /\ n.pc = "serving"
      BY StartupAssumption DEF WorkerRecord, Down, NoFile
    <2>2. /\ worker' = [worker EXCEPT ![w] = n] /\ k.pc = "sync"
          /\ catalogue' = call[main].value /\ Finish(main)
          /\ UNCHANGED <<fileVars, cache>> /\ UNCHANGED <<schema, rows>>
      BY <1>7 DEF CommitRules, At
    <2>3. schema = Tables /\ rows = SeedRows /\ call[main].pc = "returned"
      BY <1>0, <2>2 DEF Prepared
    <2>4. catalogue' \in Nat /\ catalogue' # NoFile
      <3>1. call[main].value \in 1 .. edits /\ edits \in Revision
        BY <1>0, <2>3 DEF CacheInv, CallIsCurrent, CacheTypes
      <3> QED
        BY <2>2, <3>1 DEF Revision, NoFile
    <2>5. \A u \in Workers \ {w} : call'[<<u, Main>>] = call[<<u, Main>>]
      BY <2>2, StartupAssumption DEF Finish, CacheInv, CacheTypes
    <2> HIDE DEF n
    <2>6. LifespanInv'
      BY <1>0, <2>1, <2>2, <2>3, <2>4, <2>5, WorkerKeeps
    <2> QED
      BY <1>0, <2>2, <2>6, FinishKeeps
  <1> QED
    BY <1>1, <1>2, <1>3, <1>4, <1>5, <1>6, <1>7, <1>8 DEF Lifespan

\* Every step of the specification keeps both invariants.
LEMMA NextKeeps == CacheInv /\ LifespanInv /\ [Next]_vars => CacheInv' /\ LifespanInv'
  <1> SUFFICES ASSUME CacheInv, LifespanInv, [Next]_vars PROVE CacheInv' /\ LifespanInv'
    OBVIOUS
  <1>1. CASE Edit
    <2>1. (RemoveFile \/ WriteFile) /\ UNCHANGED dbVars /\ UNCHANGED worker
      BY <1>1 DEF Edit
    <2>2. PICK content : Witnessed(content)
      BY <2>1 DEF RemoveFile, WriteFile
    <2>3. \A w \in Workers : call[<<w, Main>>] \in CallRecord /\ <<w, Main>> \in Callers
      BY StartupAssumption DEF CacheInv, CacheTypes
    <2>4. \A w \in Workers : call'[<<w, Main>>].pc = call[<<w, Main>>].pc
      BY <2>2, <2>3 DEF Witnessed, CallRecord
    <2> QED
      BY <2>1, <2>4, EditsKeep, CallsPrepared
  <1>2. ASSUME NEW w \in Workers, Lifespan(w) PROVE CacheInv' /\ LifespanInv'
    BY <1>2, LifespanKeeps
  <1>3. ASSUME NEW w \in Workers, Crash(w) PROVE CacheInv' /\ LifespanInv'
    <2>1. Ends(w) /\ UNCHANGED fileVars /\ UNCHANGED dbVars
      BY <1>3 DEF Crash
    <2> QED
      BY <2>1, EndsKeeps, EndsPrepared
  <1>4. ASSUME NEW c \in Callers, Request(c) PROVE CacheInv' /\ LifespanInv'
    <2>1. /\ worker[c[1]].pc = "serving" /\ Called(c)
          /\ UNCHANGED <<fileVars, cache>> /\ UNCHANGED <<dbVars, worker>>
      BY <1>4 DEF Request
    <2>2. ASSUME NEW w \in Workers, worker[w].pc = "sync"
          PROVE  call'[<<w, Main>>] = call[<<w, Main>>]
      BY <2>1, <2>2, StartupAssumption DEF Called, CacheInv, CacheTypes
    <2> QED
      BY <2>1, <2>2, CalledKeeps, CallsPrepared
  <1>5. ASSUME NEW c \in Callers, Load(c) PROVE CacheInv' /\ LifespanInv'
    <2>1. LoadStep(c) /\ UNCHANGED <<dbVars, worker>>
      BY <1>5 DEF Load
    <2>2. ASSUME NEW w \in Workers, call[<<w, Main>>].pc = "returned"
          PROVE  call'[<<w, Main>>].pc = "returned"
      <3>1. call[c].pc \in {"stat", "lookup", "read", "store"} /\ c # <<w, Main>>
        BY <2>1, <2>2 DEF LoadStep, StatFile, CacheHit, CacheMiss, ReadFile, Store
      <3>2. \E k : call' = [call EXCEPT ![c] = k]
        BY <2>1 DEF LoadStep, StatFile, CacheHit, CacheMiss, ReadFile, Store
      <3> QED
        BY <2>2, <3>1, <3>2, StartupAssumption DEF CacheInv, CacheTypes
    <2> QED
      BY <2>1, <2>2, LoadKeeps, CallsPrepared
  <1>6. ASSUME NEW c \in Callers, Respond(c) PROVE CacheInv' /\ LifespanInv'
    <2>1. /\ worker[c[1]].pc = "serving" /\ Finish(c)
          /\ UNCHANGED <<fileVars, cache>> /\ UNCHANGED <<dbVars, worker>>
      BY <1>6 DEF Respond
    <2>2. ASSUME NEW w \in Workers, worker[w].pc = "sync"
          PROVE  call'[<<w, Main>>] = call[<<w, Main>>]
      BY <2>1, <2>2, StartupAssumption DEF Finish, CacheInv, CacheTypes
    <2> QED
      BY <2>1, <2>2, FinishKeeps, CallsPrepared
  <1>7. CASE UNCHANGED vars
    <2>1. UNCHANGED cacheVars /\ UNCHANGED <<dbVars, worker>> /\ UNCHANGED call
      BY <1>7 DEF vars, cacheVars
    <2> QED
      BY <2>1, CacheStutters, CallsPrepared
  <1> QED
    BY <1>1, <1>2, <1>3, <1>4, <1>5, <1>6, <1>7 DEF Next

\* Both invariants hold in every state.
THEOREM Invariants == Spec => [](CacheInv /\ LifespanInv)
  <1>1. Init => CacheInv /\ LifespanInv
    BY CacheInitially, LifespanInitially DEF Init
  <1> QED
    BY <1>1, NextKeeps, PTL DEF Spec

\* load_rules never returns a revision that was gone before it was called,
\* unless it found no file to take the time of.
THEOREM LoadsStayCurrent == Spec => []LoadsAreCurrent
  <1>1. CacheInv => LoadsAreCurrent
    <2> SUFFICES ASSUME CacheInv, NEW c \in Callers,
                        call[c].pc = "returned", call[c].stamp # NoStamp
                 PROVE  call[c].value \in call[c].during
      BY DEF LoadsAreCurrent
    <2>1. CallIsCurrent(c) /\ call[c] \in CallRecord
      BY DEF CacheInv, CacheTypes
    <2>2. /\ call[c].value \in 1 .. edits /\ call[c].stamp <= call[c].value
          /\ call[c].stamp .. edits \subseteq call[c].during
      BY <2>1 DEF CallIsCurrent, PastStat, Steps
    <2>3. call[c].value \in call[c].stamp .. edits
      BY <2>1, <2>2 DEF CallRecord
    <2> QED
      BY <2>2, <2>3
  <1> QED
    BY <1>1, Invariants, PTL

\* ensure_case_system leaves the whole case system or nothing of it.
THEOREM SeedStaysWhole == Spec => []SeedIsWhole
  <1>1. LifespanInv => SeedIsWhole
    BY DEF LifespanInv
  <1> QED
    BY <1>1, Invariants, PTL

\* No worker serves before the schema, the seed and the catalogue are there.
THEOREM ServingIsPrepared == Spec => []ServesPrepared
  <1>1. LifespanInv => ServesPrepared
    BY DEF LifespanInv, Prepared, ServesPrepared
  <1> QED
    BY <1>1, Invariants, PTL

-----------------------------------------------------------------------------
(* The bounds of the types.                                                *)

Moments == {NoStamp} \cup 1 .. edits

\* A call knows no time and no revision the file has not reached.
Fits(k) == k.stamp \in Moments /\ k.value <= edits /\ k.during \subseteq 0 .. edits

\* The cache of worker w is no larger than it may be.
CacheFits(w) ==
    /\ IsFiniteSet(DOMAIN cache[w]) /\ Cardinality(DOMAIN cache[w]) <= CACHE_SIZE
    /\ DOMAIN cache[w] \subseteq Moments

\* Whoever calls is a worker that has come as far as sync_rules.
Busy(c) == call[c].pc = "idle" \/ worker[c[1]].pc \in {"load", "sync", "serving"}

Bounds ==
    /\ edits <= MaxEdits /\ crashes \in 0 .. MaxCrashes
    /\ catalogue <= edits
    /\ \A w \in Workers : CacheFits(w) /\ worker[w].before <= edits
    /\ \A c \in Callers : Fits(call[c]) /\ Busy(c)

LEMMA BoundsInitially == Init => Bounds
  <1> SUFFICES ASSUME Init PROVE Bounds
    OBVIOUS
  <1>1. edits = 1 /\ crashes = 0 /\ catalogue = 0
    BY DEF Init, CacheInit, NoFile
  <1>2. ASSUME NEW w \in Workers PROVE CacheFits(w) /\ worker[w].before <= edits
    <2>1. cache[w] = Empty /\ worker[w] = Down
      BY DEF Init, CacheInit
    <2>2. DOMAIN cache[w] = {}
      BY <2>1, EmptyEntries
    <2> QED
      BY <1>1, <2>1, <2>2, FS_EmptySet, CacheAssumption DEF CacheFits, Down, NoFile
  <1>3. ASSUME NEW c \in Callers PROVE Fits(call[c]) /\ Busy(c)
    BY <1>1 DEF Init, CacheInit, Fits, Busy, Idle, Moments, NoFile, NoStamp
  <1> QED
    BY <1>1, <1>2, <1>3, CacheAssumption, StartupAssumption DEF Bounds

LEMMA EntryValues == ASSUME NEW e \in Entries PROVE \A s \in DOMAIN e : e[s] \in Revision
  BY DEF Entries

\* Making room leaves room.
LEMMA RoomIsMade ==
  ASSUME NEW known, IsFiniteSet(DOMAIN known), Cardinality(DOMAIN known) <= CACHE_SIZE,
         NEW rest \in MadeRoom(known)
  PROVE  /\ DOMAIN rest \subseteq DOMAIN known
         /\ IsFiniteSet(DOMAIN rest) /\ Cardinality(DOMAIN rest) < CACHE_SIZE
  <1>1. CASE Cardinality(DOMAIN known) < CACHE_SIZE
    <2>1. rest = known
      BY <1>1 DEF MadeRoom
    <2> QED
      BY <1>1, <2>1
  <1>2. CASE ~ (Cardinality(DOMAIN known) < CACHE_SIZE)
    <2>1. PICK old \in DOMAIN known : rest = [s \in DOMAIN known \ {old} |-> known[s]]
      BY <1>2 DEF MadeRoom
    <2>2. PICK D : D = DOMAIN known
      OBVIOUS
    <2>3. DOMAIN rest = D \ {old}
      BY <2>1, <2>2
    <2>4. Cardinality(D) \in Nat
      BY <2>2, FS_CardinalityType
    <2>5. IsFiniteSet(D \ {old}) /\ Cardinality(D \ {old}) = Cardinality(D) - 1
      BY <2>1, <2>2, FS_RemoveElement
    <2> QED
      BY <1>2, <2>2, <2>3, <2>4, <2>5, CacheAssumption
  <1> QED
    BY <1>1, <1>2

\* A step of one caller, over a file that stays as it is.
LEMMA CallBounds ==
  ASSUME CacheInv, Bounds, UNCHANGED fileVars, NEW c \in Callers, NEW k,
         call' = [call EXCEPT ![c] = k], Fits(k),
         NEW d \in Callers
  PROVE  Fits(call[d])'
  <1>1. call'[d] = IF d = c THEN k ELSE call[d]
    BY DEF CacheInv, CacheTypes
  <1>2. Fits(call'[d])
    BY <1>1 DEF Bounds
  <1> QED
    BY <1>2 DEF Fits, Moments, fileVars

\* load_rules: the file is no other, the cache takes an entry at most.
LEMMA LoadBounds ==
  ASSUME CacheInv, Bounds, NEW c \in Callers, LoadStep(c)
  PROVE  /\ UNCHANGED fileVars
         /\ \A w \in Workers : CacheFits(w)'
         /\ \A d \in Callers : Fits(call[d])' /\ (call'[d].pc = "idle" <=> call[d].pc = "idle")
  <1> DEFINE k == call[c]
  <1>0. /\ k \in CallRecord /\ edits \in Revision /\ present \in BOOLEAN /\ c[1] \in Workers
        /\ Fits(k) /\ cache[c[1]] \in Entries
    BY CacheAssumption DEF CacheInv, CacheTypes, Bounds
  <1>1. ASSUME UNCHANGED <<fileVars, cache>>, NEW w \in Workers PROVE CacheFits(w)'
    BY <1>1 DEF Bounds, CacheFits, Moments, fileVars
  <1>2. ASSUME NEW n, call' = [call EXCEPT ![c] = n], n.pc # "idle", k.pc # "idle",
               UNCHANGED fileVars, Fits(n), NEW d \in Callers
        PROVE  Fits(call[d])' /\ (call'[d].pc = "idle" <=> call[d].pc = "idle")
    <2>1. call'[d] = IF d = c THEN n ELSE call[d]
      BY <1>2 DEF CacheInv, CacheTypes
    <2> QED
      BY <1>2, <2>1, CallBounds
  <1>3. CASE StatFile(c)
    <2>1. PICK n : n = [k EXCEPT !.pc = "lookup", !.stamp = Mtime]
      OBVIOUS
    <2>2. call' = [call EXCEPT ![c] = n] /\ UNCHANGED <<fileVars, cache>> /\ k.pc = "stat"
      BY <1>0, <1>3, <2>1 DEF StatFile, CacheInv, CacheTypes, CallRecord
    <2>3. Mtime \in Moments
      BY <1>0 DEF Mtime, Moments, Revision
    <2>4. n.pc = "lookup" /\ n.stamp = Mtime /\ n.value = k.value /\ n.during = k.during
      BY <1>0, <2>1 DEF CallRecord
    <2>5. Fits(n)
      BY <1>0, <2>3, <2>4 DEF Fits
    <2> QED
      BY <1>1, <1>2, <2>2, <2>4, <2>5
  <1>4. CASE CacheHit(c)
    <2>1. PICK found \in Nat : found = cache[c[1]][k.stamp] /\ found <= edits
      <3>1. k.stamp \in DOMAIN cache[c[1]] /\ EntryIsCurrent(c[1])
        BY <1>0, <1>4 DEF CacheHit, CacheInv
      <3>2. cache[c[1]][k.stamp] \in Nat /\ cache[c[1]][k.stamp] <= edits
        <4>1. cache[c[1]][k.stamp] \in Revision
          BY <1>0, <3>1, EntryValues
        <4> QED
          BY <3>1, <4>1 DEF EntryIsCurrent, Revision
      <3> QED
        BY <3>2
    <2>2. PICK n : n = [k EXCEPT !.pc = "returned", !.value = found]
      OBVIOUS
    <2>3. call' = [call EXCEPT ![c] = n] /\ UNCHANGED <<fileVars, cache>> /\ k.pc = "lookup"
      BY <1>0, <1>4, <2>1, <2>2 DEF CacheHit, CacheInv, CacheTypes, CallRecord
    <2>4. n.pc = "returned" /\ n.stamp = k.stamp /\ n.value = found /\ n.during = k.during
      BY <1>0, <2>2 DEF CallRecord
    <2>5. Fits(n)
      BY <1>0, <2>1, <2>4 DEF Fits
    <2> QED
      BY <1>1, <1>2, <2>3, <2>4, <2>5
  <1>5. CASE CacheMiss(c)
    <2>1. PICK n : n = [k EXCEPT !.pc = "read"]
      OBVIOUS
    <2>2. call' = [call EXCEPT ![c] = n] /\ UNCHANGED <<fileVars, cache>> /\ k.pc = "lookup"
      BY <1>0, <1>5, <2>1 DEF CacheMiss, CacheInv, CacheTypes, CallRecord
    <2>3. n.pc = "read" /\ n.stamp = k.stamp /\ n.value = k.value /\ n.during = k.during
      BY <1>0, <2>1 DEF CallRecord
    <2>4. Fits(n)
      BY <1>0, <2>3 DEF Fits
    <2> QED
      BY <1>1, <1>2, <2>2, <2>3, <2>4
  <1>6. CASE ReadFile(c)
    <2>1. PICK pc \in {"store", "raised"} : pc = IF present THEN "store" ELSE "raised"
      OBVIOUS
    <2>2. PICK n : n = [k EXCEPT !.pc = pc, !.value = Content]
      OBVIOUS
    <2>3. call' = [call EXCEPT ![c] = n] /\ UNCHANGED <<fileVars, cache>> /\ k.pc = "read"
      BY <1>0, <1>6, <2>1, <2>2 DEF ReadFile, CacheInv, CacheTypes, CallRecord
    <2>4. n.pc = pc /\ n.stamp = k.stamp /\ n.value = Content /\ n.during = k.during
      BY <1>0, <2>2 DEF CallRecord
    <2>5. Fits(n)
      BY <1>0, <2>4, FileTypes DEF Fits
    <2> QED
      BY <1>1, <1>2, <2>1, <2>3, <2>4, <2>5
  <1>7. CASE Store(c)
    <2>1. PICK n : n = [k EXCEPT !.pc = "returned"]
      OBVIOUS
    <2>2. call' = [call EXCEPT ![c] = n] /\ UNCHANGED fileVars /\ k.pc = "store"
      BY <1>0, <1>7, <2>1 DEF Store, CacheInv, CacheTypes, CallRecord
    <2>3. n.pc = "returned" /\ n.stamp = k.stamp /\ n.value = k.value /\ n.during = k.during
      BY <1>0, <2>1 DEF CallRecord
    <2>4. Fits(n)
      BY <1>0, <2>3 DEF Fits
    <2>5. ASSUME NEW w \in Workers PROVE CacheFits(w)'
      <3>1. CASE UNCHANGED cache
        BY <1>1, <2>2, <3>1
      <3>2. ASSUME NEW rest \in MadeRoom(cache[c[1]]), Stamp(c) \notin DOMAIN cache[c[1]],
                   cache' = [cache EXCEPT ![c[1]] =
                      [s \in DOMAIN rest \cup {Stamp(c)} |->
                          IF s = Stamp(c) THEN call[c].value ELSE rest[s]]]
            PROVE  CacheFits(w)'
        <4>1. PICK new : new = [s \in DOMAIN rest \cup {Stamp(c)} |->
                                   IF s = Stamp(c) THEN call[c].value ELSE rest[s]]
          OBVIOUS
        <4>2. cache' = [cache EXCEPT ![c[1]] = new] /\ DOMAIN new = DOMAIN rest \cup {Stamp(c)}
          BY <3>2, <4>1
        <4>3. CacheFits(c[1]) /\ CacheFits(w)
          BY <1>0 DEF Bounds
        <4>4. /\ DOMAIN rest \subseteq DOMAIN cache[c[1]]
              /\ IsFiniteSet(DOMAIN rest) /\ Cardinality(DOMAIN rest) < CACHE_SIZE
          BY <4>3, RoomIsMade DEF CacheFits
        <4>5. PICK D : D = DOMAIN rest
          OBVIOUS
        <4>6. Cardinality(D) \in Nat
          BY <4>4, <4>5, FS_CardinalityType
        <4>7. IsFiniteSet(D \cup {Stamp(c)}) /\ Cardinality(D \cup {Stamp(c)}) = Cardinality(D) + 1
          BY <3>2, <4>4, <4>5, FS_AddElement
        <4>8. Stamp(c) \in Moments
          BY <1>0 DEF Fits, Stamp
        <4>9. cache'[w] = IF w = c[1] THEN new ELSE cache[w]
          BY <1>0, <4>2 DEF CacheInv, CacheTypes
        <4>10. Moments' = Moments
          BY <2>2 DEF Moments, fileVars
        <4>11. /\ IsFiniteSet(DOMAIN new) /\ Cardinality(DOMAIN new) <= CACHE_SIZE
               /\ DOMAIN new \subseteq Moments
          BY <4>2, <4>3, <4>4, <4>5, <4>6, <4>7, <4>8, CacheAssumption DEF CacheFits
        <4> QED
          BY <4>3, <4>9, <4>10, <4>11 DEF CacheFits
      <3> QED
        BY <1>7, <3>1, <3>2 DEF Store
    <2> QED
      BY <1>2, <2>2, <2>3, <2>4, <2>5
  <1>8. UNCHANGED fileVars
    BY DEF LoadStep, StatFile, CacheHit, CacheMiss, ReadFile, Store
  <1> QED
    BY <1>3, <1>4, <1>5, <1>6, <1>7, <1>8 DEF LoadStep

\* The process of a worker ends.
LEMMA EndsBounds ==
  ASSUME CacheInv, Bounds, UNCHANGED fileVars, NEW w \in Workers, Ends(w)
  PROVE  /\ \A u \in Workers : CacheFits(u)' /\ worker'[u].before <= edits
         /\ \A c \in Callers : Fits(call[c])' /\ Busy(c)'
  <1>1. /\ cache' = [cache EXCEPT ![w] = Empty]
        /\ call' = [c \in Callers |-> IF c[1] = w THEN Idle ELSE call[c]]
        /\ worker' = [worker EXCEPT ![w] = Down]
        /\ edits' = edits /\ Moments' = Moments
    BY DEF Ends, fileVars, Moments
  <1>2. edits \in Revision /\ cache \in [Workers -> Entries]
    BY DEF CacheInv, CacheTypes
  <1>3. ASSUME NEW u \in Workers PROVE CacheFits(u)' /\ worker'[u].before <= edits
    <2>1. cache'[u] = IF u = w THEN Empty ELSE cache[u]
      BY <1>1, <1>2
    <2>2. Cardinality({}) = 0 /\ IsFiniteSet({})
      BY FS_EmptySet
    <2>3. CacheFits(u)'
      <3>1. CASE u = w
        BY <1>1, <2>1, <2>2, <3>1, EmptyEntries, CacheAssumption DEF CacheFits
      <3>2. CASE u # w
        BY <1>1, <2>1, <3>2 DEF Bounds, CacheFits
      <3> QED
        BY <3>1, <3>2
    <2>4. worker'[u].before = worker[u].before \/ worker'[u].before = NoFile
      BY <1>1 DEF Down
    <2> QED
      BY <1>2, <2>3, <2>4 DEF Bounds, NoFile, Revision
  <1>4. ASSUME NEW c \in Callers PROVE Fits(call[c])' /\ Busy(c)'
    <2>1. call'[c] = IF c[1] = w THEN Idle ELSE call[c]
      BY <1>1
    <2>2. CASE c[1] = w
      <3>1. Fits(Idle) /\ Idle.pc = "idle"
        BY <1>2 DEF Fits, Idle, Moments, NoStamp, NoFile, Revision
      <3> QED
        BY <1>1, <2>1, <2>2, <3>1 DEF Fits, Busy
    <2>3. CASE c[1] # w
      <3>1. worker'[c[1]] = worker[c[1]]
        BY <1>1, <2>3
      <3> QED
        BY <1>1, <2>1, <2>3, <3>1 DEF Bounds, Fits, Busy
    <2> QED
      BY <2>2, <2>3
  <1> QED
    BY <1>3, <1>4

\* A step of w's own that leaves the file, the caches and the calls of the
\* others alone; c is the caller that is called or finishes, if any.
LEMMA OwnBounds ==
  ASSUME CacheInv, Bounds, UNCHANGED <<fileVars, cache, crashes>>,
         NEW w \in Workers, NEW n, worker' = [worker EXCEPT ![w] = n],
         LifespanTypes, n.before <= edits, catalogue' <= edits,
         \/ call' = call
         \/ \E k : call' = [call EXCEPT ![<<w, Main>>] = k] /\ Fits(k),
         \A c \in Callers : c[1] = w => call'[c].pc = "idle" \/ n.pc \in {"load", "sync", "serving"}
  PROVE  Bounds'
  <1>1. Moments' = Moments /\ edits' = edits /\ crashes' = crashes
    BY DEF Moments, fileVars
  <1>2. ASSUME NEW u \in Workers PROVE CacheFits(u)' /\ worker'[u].before <= edits
    <2>1. worker'[u] = IF u = w THEN n ELSE worker[u]
      BY DEF LifespanTypes
    <2> QED
      BY <1>1, <2>1 DEF Bounds, CacheFits
  <1>3. ASSUME NEW c \in Callers PROVE Fits(call[c])' /\ Busy(c)'
    <2>1. Fits(call[c])'
      <3>1. CASE call' = call
        BY <1>1, <3>1 DEF Bounds, Fits
      <3>2. CASE call' # call
        BY <3>2, CallBounds, StartupAssumption
      <3> QED
        BY <3>1, <3>2
    <2>2. CASE c[1] = w
      BY <2>1, <2>2 DEF LifespanTypes, Busy
    <2>3. CASE c[1] # w
      <3>1. c # <<w, Main>> /\ c[1] \in Workers
        BY <2>3, CacheAssumption
      <3>2. call'[c] = call[c] /\ worker'[c[1]] = worker[c[1]]
        BY <2>3, <3>1 DEF CacheInv, CacheTypes, LifespanTypes
      <3> QED
        BY <2>1, <3>2 DEF Bounds, Busy
    <2> QED
      BY <2>2, <2>3
  <1> QED
    BY <1>1, <1>2, <1>3 DEF Bounds

\* Every step of a lifespan.
LEMMA LifespanBounds ==
  ASSUME CacheInv, LifespanInv, Bounds, NEW w \in Workers, Lifespan(w), UNCHANGED crashes
  PROVE  Bounds'
  <1> DEFINE main == <<w, Main>>
  <1>0. /\ worker[w] \in WorkerRecord /\ LifespanTypes /\ edits \in Revision /\ main \in Callers
        /\ worker[w].before <= edits /\ catalogue <= edits
        /\ call \in [Callers -> CallRecord]
        /\ \A c \in Callers : c[1] = w /\ worker[w].pc \notin {"load", "sync", "serving"} =>
                                 call[c].pc = "idle"
    BY StartupAssumption DEF LifespanInv, LifespanTypes, CacheInv, CacheTypes, Bounds, Busy
  <1>1. CASE InspectSchema(w) \/ LookForSeed(w) \/ CreateSchema(w) \/ SchemaDone(w)
    <2>1. PICK n : /\ worker' = [worker EXCEPT ![w] = n]
                   /\ n.before <= edits
      <3>1. CASE SchemaDone(w)
        <4>1. PICK n : n = [Down EXCEPT !.pc = "seed"]
          OBVIOUS
        <4>2. worker' = [worker EXCEPT ![w] = n]
          BY <3>1, <4>1 DEF SchemaDone, At
        <4>3. n.before <= edits
          BY <1>0, <4>1 DEF Down, NoFile, Revision
        <4> QED
          BY <4>2, <4>3
      <3>4. CASE CreateSchema(w)
        <4>1. PICK more : worker' = [worker EXCEPT ![w].found = more]
          BY <3>4 DEF CreateSchema
        <4>2. PICK n : n = [worker[w] EXCEPT !.found = more]
          OBVIOUS
        <4>3. n.before <= edits /\ worker' = [worker EXCEPT ![w] = n]
          BY <1>0, <4>1, <4>2 DEF WorkerRecord
        <4> QED
          BY <4>3
      <3>2. CASE InspectSchema(w)
        <4>1. PICK n : n = [worker[w] EXCEPT !.pc = "schema", !.found = schema]
          OBVIOUS
        <4>2. worker' = [worker EXCEPT ![w] = n]
          BY <1>0, <3>2, <4>1 DEF InspectSchema, LifespanTypes, WorkerRecord
        <4>3. n.before <= edits
          BY <1>0, <4>1 DEF WorkerRecord
        <4> QED
          BY <4>2, <4>3
      <3>3. CASE LookForSeed(w)
        <4>1. PICK n : n = [worker[w] EXCEPT !.pc = "seeding", !.missing = Missing]
          OBVIOUS
        <4>2. worker' = [worker EXCEPT ![w] = n]
          BY <1>0, <3>3, <4>1 DEF LookForSeed, LifespanTypes, WorkerRecord
        <4>3. n.before <= edits
          BY <1>0, <4>1 DEF WorkerRecord
        <4> QED
          BY <4>2, <4>3
      <3> QED
        BY <1>1, <3>1, <3>2, <3>3, <3>4
    <2>2. /\ worker[w].pc \in {"down", "seed", "schema"} /\ call' = call /\ catalogue' = catalogue
          /\ UNCHANGED <<fileVars, cache, crashes>>
      BY <1>1 DEF InspectSchema, LookForSeed, CreateSchema, SchemaDone, cacheVars, fileVars, dbVars
    <2>3. \A c \in Callers : c[1] = w => call'[c].pc = "idle"
      BY <1>0, <2>2
    <2>4. /\ UNCHANGED <<fileVars, cache, crashes>> /\ catalogue' <= edits /\ LifespanTypes
          /\ \/ call' = call
             \/ \E k : call' = [call EXCEPT ![<<w, Main>>] = k] /\ Fits(k)
          /\ \A c \in Callers : c[1] = w =>
                                 call'[c].pc = "idle" \/ n.pc \in {"load", "sync", "serving"}
      BY <1>0, <2>2, <2>3
    <2> QED
      BY <2>1, <2>4, OwnBounds
  <1>2. CASE SchemaConflict(w) \/ SeedConflict(w) \/ RulesConflict(w) \/ RulesUnreadable(w)
    <2>1. Ends(w) /\ UNCHANGED fileVars /\ UNCHANGED dbVars
      BY <1>2 DEF SchemaConflict, SeedConflict, RulesConflict, RulesUnreadable
    <2>2. /\ \A u \in Workers : CacheFits(u)' /\ worker'[u].before <= edits
          /\ \A c \in Callers : Fits(call[c])' /\ Busy(c)'
      BY <2>1, EndsBounds
    <2> QED
      BY <2>1, <2>2 DEF Bounds, fileVars, dbVars
  <1>3. CASE CommitSeed(w)
    <2>1. PICK n : n = [Down EXCEPT !.pc = "load"]
      OBVIOUS
    <2>2. /\ worker' = [worker EXCEPT ![w] = n] /\ catalogue' = catalogue /\ Called(main)
          /\ UNCHANGED <<fileVars, cache, crashes>>
      BY <1>3, <2>1 DEF CommitSeed, Seeded, At
    <2>3. PICK k : k = [pc |-> "stat", stamp |-> NoStamp, value |-> NoFile, during |-> {Content}]
      OBVIOUS
    <2>4. Fits(k) /\ call' = [call EXCEPT ![main] = k]
      <3>1. Content \in Nat /\ Content <= edits
        BY FileTypes DEF CacheInv, CacheTypes
      <3> QED
        BY <1>0, <2>2, <2>3, <3>1 DEF Called, Fits, Moments, NoFile, Revision
    <2>5. n.before <= edits /\ n.pc = "load"
      BY <1>0, <2>1 DEF Down, NoFile, Revision
    <2> QED
      BY <1>0, <2>2, <2>4, <2>5, OwnBounds
  <1>4. CASE LookForRules(w)
    <2>1. PICK n : n = [worker[w] EXCEPT !.pc = "sync", !.before = catalogue]
      OBVIOUS
    <2>2. /\ worker' = [worker EXCEPT ![w] = n] /\ catalogue' = catalogue /\ call' = call
          /\ UNCHANGED <<fileVars, cache, crashes>>
      BY <1>0, <1>4, <2>1 DEF LookForRules, LifespanTypes, WorkerRecord, cacheVars, fileVars, dbVars
    <2>3. n.before <= edits /\ n.pc = "sync"
      BY <1>0, <2>1 DEF WorkerRecord
    <2> QED
      BY <1>0, <2>2, <2>3, OwnBounds
  <1>5. CASE CommitRules(w)
    <2>1. PICK n : n = [Down EXCEPT !.pc = "serving"]
      OBVIOUS
    <2>2. /\ worker' = [worker EXCEPT ![w] = n] /\ catalogue' = call[main].value /\ Finish(main)
          /\ UNCHANGED <<fileVars, cache, crashes>>
      BY <1>5, <2>1 DEF CommitRules, At
    <2>3. call' = [call EXCEPT ![main] = Idle] /\ Fits(Idle)
      BY <1>0, <2>2 DEF Finish, Fits, Idle, Moments, NoStamp, NoFile, Revision
    <2>4. n.before <= edits /\ n.pc = "serving" /\ catalogue' <= edits
      BY <1>0, <2>1, <2>2 DEF Down, NoFile, Revision, Bounds, Fits
    <2> QED
      BY <1>0, <2>2, <2>3, <2>4, OwnBounds
  <1> QED
    BY <1>1, <1>2, <1>3, <1>4, <1>5 DEF Lifespan

LEMMA EditBounds == CacheInv /\ LifespanInv /\ Bounds /\ Edit => Bounds'
  <1> SUFFICES ASSUME CacheInv, LifespanInv, Bounds, Edit PROVE Bounds'
    OBVIOUS
  <1>1. edits \in Revision /\ call \in [Callers -> CallRecord] /\ MaxEdits \in Nat
        /\ catalogue \in Nat /\ worker \in [Workers -> WorkerRecord]
    BY CacheAssumption DEF CacheInv, CacheTypes, LifespanInv, LifespanTypes
  <1>2. PICK now \in Nat : /\ Witnessed(now) /\ now <= edits' /\ edits' \in Revision
                           /\ edits <= edits' /\ edits' <= MaxEdits
    <2>1. CASE RemoveFile
      <3>1. NoFile \in Nat /\ NoFile <= edits /\ edits' = edits /\ edits <= MaxEdits
            /\ Witnessed(NoFile)
        BY <1>1, <2>1 DEF RemoveFile, NoFile, Bounds, Revision
      <3> QED
        BY <1>1, <3>1 DEF Revision
    <2>2. CASE WriteFile
      <3>1. edits' = edits + 1 /\ edits < MaxEdits /\ Witnessed(edits')
        BY <2>2 DEF WriteFile
      <3>2. edits' \in Nat /\ edits' \in Revision /\ edits <= edits' /\ edits' <= MaxEdits
        BY <1>1, <3>1 DEF Revision
      <3> QED
        BY <3>1, <3>2
    <2> QED
      BY <2>1, <2>2 DEF Edit
  <1>3. cache' = cache /\ UNCHANGED dbVars /\ worker' = worker /\ crashes' = crashes
    BY DEF Edit, RemoveFile, WriteFile
  <1>4. Moments \subseteq Moments' /\ 0 .. edits \subseteq 0 .. edits'
    BY <1>1, <1>2 DEF Moments, Revision
  <1>5. ASSUME NEW w \in Workers PROVE CacheFits(w)' /\ worker'[w].before <= edits'
    <2>1. worker[w].before \in Nat /\ worker[w].before <= edits /\ CacheFits(w)
      BY <1>1 DEF WorkerRecord, Bounds
    <2> QED
      BY <1>1, <1>2, <1>3, <1>4, <2>1 DEF CacheFits, Revision
  <1>6. ASSUME NEW c \in Callers PROVE Fits(call[c])' /\ Busy(c)'
    <2>1. PICK k \in CallRecord : k = call[c]
      BY <1>1
    <2>2. Fits(k)
      BY <2>1 DEF Bounds
    <2>3. call'[c] = IF k.pc = "idle" THEN k ELSE [k EXCEPT !.during = @ \cup {now}]
      BY <1>2, <2>1 DEF Witnessed
    <2>4. /\ call'[c].pc = k.pc /\ call'[c].stamp = k.stamp /\ call'[c].value = k.value
          /\ call'[c].during \subseteq k.during \cup {now}
      BY <2>3 DEF CallRecord
    <2>5. k.value <= edits'
      BY <1>1, <1>2, <2>2 DEF Fits, CallRecord, Revision
    <2>6. k.during \cup {now} \subseteq 0 .. edits'
      BY <1>1, <1>2, <1>4, <2>2 DEF Fits, Revision
    <2>7. Fits(call[c])'
      BY <1>4, <2>2, <2>4, <2>5, <2>6 DEF Fits
    <2>8. Busy(c)'
      BY <1>3, <2>1, <2>4 DEF Bounds, Busy
    <2> QED
      BY <2>7, <2>8
  <1>7. crashes' \in 0 .. MaxCrashes /\ catalogue' <= edits'
    BY <1>1, <1>2, <1>3 DEF Bounds, dbVars, Revision
  <1> QED
    BY <1>2, <1>5, <1>6, <1>7 DEF Bounds

\* Requests of a worker that serves.
LEMMA RequestBounds ==
  ASSUME CacheInv, Bounds, NEW c \in Callers, Request(c) \/ Respond(c)
  PROVE  Bounds'
  <1>1. /\ worker[c[1]].pc = "serving" /\ UNCHANGED <<fileVars, cache, dbVars, worker, crashes>>
        /\ edits \in Revision /\ call \in [Callers -> CallRecord]
    BY DEF Request, Respond, CacheInv, CacheTypes
  <1>2. PICK k : Fits(k) /\ call' = [call EXCEPT ![c] = k]
    <2>1. CASE Request(c)
      <3>1. PICK k : k = [pc |-> "stat", stamp |-> NoStamp, value |-> NoFile, during |-> {Content}]
        OBVIOUS
      <3>2. Content \in Nat /\ Content <= edits
        BY FileTypes DEF CacheInv, CacheTypes
      <3>3. Fits(k)
        BY <1>1, <3>1, <3>2 DEF Fits, Moments, NoFile, Revision
      <3>4. call' = [call EXCEPT ![c] = k]
        BY <2>1, <3>1 DEF Request, Called
      <3> QED
        BY <3>3, <3>4
    <2>2. CASE Respond(c)
      <3>1. Fits(Idle)
        BY <1>1 DEF Fits, Idle, Moments, NoStamp, NoFile, Revision
      <3>2. call' = [call EXCEPT ![c] = Idle]
        BY <2>2 DEF Respond, Finish
      <3> QED
        BY <3>1, <3>2
    <2> QED
      BY <2>1, <2>2
  <1>3. ASSUME NEW d \in Callers PROVE Fits(call[d])' /\ Busy(d)'
    <2>1. Fits(call[d])'
      BY <1>1, <1>2, CallBounds
    <2>2. call'[d] = call[d] \/ d = c
      BY <1>1, <1>2
    <2> QED
      BY <1>1, <2>1, <2>2 DEF Bounds, Busy
  <1>4. \A w \in Workers : CacheFits(w)' /\ worker'[w].before <= edits
    BY <1>1 DEF Bounds, CacheFits, Moments, fileVars
  <1> QED
    BY <1>1, <1>3, <1>4 DEF Bounds, fileVars, dbVars

LEMMA BoundsKept == CacheInv /\ LifespanInv /\ Bounds /\ [Next]_vars => Bounds'
  <1> SUFFICES ASSUME CacheInv, LifespanInv, Bounds, [Next]_vars PROVE Bounds'
    OBVIOUS
  <1>1. CASE Edit
    BY <1>1, EditBounds
  <1>2. ASSUME NEW w \in Workers, Lifespan(w) PROVE Bounds'
    <2>1. UNCHANGED crashes
      BY <1>2 DEF Lifespan, InspectSchema, CreateSchema, SchemaConflict, SchemaDone, LookForSeed,
                  CommitSeed,
                  SeedConflict, LookForRules, CommitRules, RulesConflict, RulesUnreadable
    <2> QED
      BY <1>2, <2>1, LifespanBounds
  <1>3. ASSUME NEW w \in Workers, Crash(w) PROVE Bounds'
    <2>1. Ends(w) /\ UNCHANGED fileVars /\ UNCHANGED dbVars
          /\ crashes' = crashes + 1 /\ crashes < MaxCrashes
      BY <1>3 DEF Crash
    <2>2. /\ \A u \in Workers : CacheFits(u)' /\ worker'[u].before <= edits
          /\ \A c \in Callers : Fits(call[c])' /\ Busy(c)'
      BY <2>1, EndsBounds
    <2>3. crashes' \in 0 .. MaxCrashes
      BY <2>1, StartupAssumption DEF Bounds
    <2> QED
      BY <2>1, <2>2, <2>3 DEF Bounds, fileVars, dbVars
  <1>4. ASSUME NEW c \in Callers, Load(c) PROVE Bounds'
    <2>1. LoadStep(c) /\ UNCHANGED <<dbVars, worker, crashes>>
      BY <1>4 DEF Load
    <2>2. /\ UNCHANGED fileVars
          /\ \A w \in Workers : CacheFits(w)'
          /\ \A d \in Callers : Fits(call[d])' /\ (call'[d].pc = "idle" <=> call[d].pc = "idle")
      BY <2>1, LoadBounds
    <2>3. \A d \in Callers : Busy(d)'
      BY <2>1, <2>2 DEF Bounds, Busy
    <2> QED
      BY <2>1, <2>2, <2>3 DEF Bounds, fileVars, dbVars
  <1>5. ASSUME NEW c \in Callers, Request(c) \/ Respond(c) PROVE Bounds'
    BY <1>5, RequestBounds
  <1>6. CASE UNCHANGED vars
    BY <1>6 DEF vars, cacheVars, dbVars, Bounds, CacheFits, Fits, Busy, Moments
  <1> QED
    BY <1>1, <1>2, <1>3, <1>4, <1>5, <1>6 DEF Next

\* The types: the cache is never larger than it may be and holds no revision
\* and no time the file has not had, and a worker calls load_rules only from
\* sync_rules on.
THEOREM TypeCorrect == Spec => []TypeOK
  <1>1. CacheInv /\ LifespanInv /\ Bounds => TypeOK
    <2> SUFFICES ASSUME CacheInv, LifespanInv, Bounds PROVE TypeOK
      OBVIOUS
    <2>1. edits \in Revision /\ edits \in 1 .. MaxEdits /\ present \in BOOLEAN
      BY CacheAssumption DEF CacheInv, CacheTypes, Bounds, Revision
    <2>2. cache \in [Workers -> Entries] /\ DOMAIN cache = Workers
      BY DEF CacheInv, CacheTypes
    <2>3. ASSUME NEW w \in Workers
          PROVE  /\ Cardinality(DOMAIN cache[w]) <= CACHE_SIZE
                 /\ DOMAIN cache[w] \subseteq {NoStamp} \cup 1 .. edits
                 /\ Range(cache[w]) \subseteq 1 .. edits
      <3>1. CacheFits(w) /\ EntryIsCurrent(w) /\ cache[w] \in Entries
        BY <2>2 DEF Bounds, CacheInv
      <3>2. \A s \in DOMAIN cache[w] : cache[w][s] \in 1 .. edits
        <4>1. \A s \in DOMAIN cache[w] : cache[w][s] \in Revision
          BY <3>1, EntryValues
        <4> QED
          BY <2>1, <3>1, <4>1 DEF EntryIsCurrent, Revision
      <3> QED
        BY <3>1, <3>2 DEF CacheFits, Moments, Range
    <2>4. call \in [Callers -> [pc : Steps, stamp : {NoStamp} \cup 1 .. edits,
                                value : NoFile .. edits, during : SUBSET (NoFile .. edits)]]
      <3>1. call \in [Callers -> CallRecord]
        BY DEF CacheInv, CacheTypes
      <3>2. ASSUME NEW c \in Callers
            PROVE  call[c] \in [pc : Steps, stamp : {NoStamp} \cup 1 .. edits,
                                value : NoFile .. edits, during : SUBSET (NoFile .. edits)]
        <4>1. call[c] \in CallRecord /\ Fits(call[c])
          BY <3>1 DEF Bounds
        <4> QED
          BY <2>1, <4>1 DEF CallRecord, Fits, Moments, NoFile, Revision
      <3> QED
        BY <3>1, <3>2
    <2>5. CacheTypeOK
      BY <2>1, <2>2, <2>3, <2>4 DEF CacheTypeOK, Steps
    <2>6. worker \in [Workers -> [pc : {"down", "schema", "seed", "seeding", "load", "sync", "serving"},
                                  found : 0 .. Tables, missing : SUBSET SeedRows,
                                  before : NoFile .. edits]]
      <3>1. worker \in [Workers -> WorkerRecord]
        BY DEF LifespanInv, LifespanTypes
      <3>2. ASSUME NEW w \in Workers
            PROVE  worker[w] \in [pc : {"down", "schema", "seed", "seeding", "load", "sync", "serving"},
                                  found : 0 .. Tables, missing : SUBSET SeedRows,
                                  before : NoFile .. edits]
        <4>1. worker[w] \in WorkerRecord /\ worker[w].before <= edits
          BY <3>1 DEF Bounds
        <4> QED
          BY <2>1, <4>1 DEF WorkerRecord, NoFile, Revision
      <3> QED
        BY <3>1, <3>2
    <2>7. catalogue \in NoFile .. edits /\ schema \in 0 .. Tables /\ rows \subseteq SeedRows
          /\ crashes \in 0 .. MaxCrashes
      BY <2>1 DEF LifespanInv, LifespanTypes, Bounds, NoFile, Revision
    <2>8. \A w \in Workers : worker[w].pc = "sync" => call[<<w, Main>>].pc = "returned"
      BY DEF LifespanInv, Prepared
    <2>9. \A c \in Callers : call[c].pc = "idle" \/ worker[c[1]].pc \in {"load", "sync", "serving"}
      BY DEF Bounds, Busy
    <2> QED
      BY <2>5, <2>6, <2>7, <2>8, <2>9 DEF TypeOK
  <1>2. Spec => []Bounds
    BY BoundsInitially, BoundsKept, Invariants, PTL DEF Spec
  <1> QED
    BY <1>1, <1>2, Invariants, PTL
=============================================================================
