-------------------------- MODULE LabIngestProofs ---------------------------
(***************************************************************************)
(* Proofs about LabIngest, for any number of uploads, manual readings,     *)
(* workers and files of any length: the types, the agreement of receipts   *)
(* and readings, the accounting of rows, the no-op replays, and that the   *)
(* table of readings implements the write-once log of ReadingLog.          *)
(***************************************************************************)
EXTENDS LabIngest, FiniteSetTheorems, TLAPS

-----------------------------------------------------------------------------
(* Facts about one file.                                                   *)

\* A nonempty set of row indices has a least element.
LEMMA LeastIndex ==
    ASSUME NEW n \in Nat, NEW X \in SUBSET (1 .. n), X # {}
    PROVE  \E m \in X : \A j \in X : m <= j
<1> DEFINE S == 1 .. n
           T == {1 .. j : j \in X}
<1>1. IsFiniteSet(S)
  BY FS_Interval
<1>2. T \subseteq FiniteSubsetsOf(S) /\ T # {}
  <2>1. \A j \in X : IsFiniteSet(1 .. j) /\ (1 .. j) \in SUBSET S
    BY FS_Interval
  <2> QED BY <2>1 DEF FiniteSubsetsOf
<1>3. PICK x \in T : \A y \in T : ~(<<y, x>> \in StrictSubsetOrdering(S))
  <2> HIDE DEF T
  <2> QED BY <1>2, FS_StrictSubsetOrderingWellFounded, WFMin, Zenon
<1>4. PICK m \in X : x = 1 .. m
  OBVIOUS
<1>5. ASSUME NEW j \in X, ~(m <= j)
      PROVE  FALSE
  <2>1. (1 .. j) \subseteq (1 .. m) /\ m \in 1 .. m /\ m \notin 1 .. j
    BY <1>5
  <2>2. (1 .. j) \in SUBSET S /\ (1 .. m) \in SUBSET S /\ (1 .. j) \in T
    OBVIOUS
  <2>3. <<1 .. j, 1 .. m>> \in StrictSubsetOrdering(S)
    BY <2>1, <2>2, Zenon DEF StrictSubsetOrdering
  <2> QED BY <1>3, <1>4, <2>2, <2>3
<1> QED BY <1>5

\* A pending row has all its fields, so the reading made of it has its type.
LEMMA PendingRows ==
    ASSUME NEW rows \in Seq(Row), NEW existing, NEW i \in Pending(rows, existing)
    PROVE  /\ i \in 1 .. Len(rows)
           /\ rows[i].point \in Points
           /\ rows[i].stamp \in Stamp
           /\ rows[i].value \in Values
           /\ Key(rows[i]) \in Points \X Walls
<1>1. i \in 1 .. Len(rows) /\ rows[i] \in Row /\ Parses(rows[i])
  BY DEF Pending, Refused
<1>2. rows[i].stamp \in Stamp => rows[i].stamp.wall \in Walls
  BY DEF Stamp
<1> QED BY <1>1, <1>2 DEF Row, Parses, Key, MeasuredAt

\* The pending rows of a file have pairwise different keys.
LEMMA PendingKeysDiffer ==
    ASSUME NEW rows \in Seq(Row), NEW existing,
           NEW i \in Pending(rows, existing), NEW j \in Pending(rows, existing),
           Key(rows[i]) = Key(rows[j])
    PROVE  i = j
<1>1. i \in 1 .. Len(rows) /\ j \in 1 .. Len(rows)
  BY DEF Pending
<1>2. ~(i < j) /\ ~(j < i)
  BY <1>1 DEF Pending
<1> QED BY <1>1, <1>2

\* Pending and refused rows are indices of the file, finitely many.
LEMMA RowsAreFinite ==
    ASSUME NEW rows \in Seq(Row), NEW existing
    PROVE  /\ Pending(rows, existing) \subseteq 1 .. Len(rows)
           /\ Refused(rows) \in SUBSET Nat
           /\ IsFiniteSet(Pending(rows, existing))
           /\ Cardinality(Pending(rows, existing)) \in Nat
<1>1. Pending(rows, existing) \subseteq 1 .. Len(rows) /\ Len(rows) \in Nat
  BY DEF Pending
<1>2. Refused(rows) \in SUBSET Nat
  BY DEF Refused
<1>3. IsFiniteSet(1 .. Len(rows))
  BY <1>1, FS_Interval
<1>4. IsFiniteSet(Pending(rows, existing))
  BY <1>1, <1>3, FS_Subset
<1> QED BY <1>1, <1>2, <1>4, FS_CardinalityType

\* Every row that is not refused has the key of a pending row, or a key that
\* was on record when the file was classified.
LEMMA RowsAreAccounted ==
    ASSUME NEW rows \in Seq(Row), NEW existing,
           NEW i \in DOMAIN rows, i \notin Refused(rows), Key(rows[i]) \notin existing
    PROVE  \E m \in Pending(rows, existing) : Key(rows[m]) = Key(rows[i])
<1> DEFINE X == {j \in 1 .. Len(rows) : j \notin Refused(rows) /\ Key(rows[j]) = Key(rows[i])}
<1>1. X \in SUBSET (1 .. Len(rows)) /\ i \in X /\ Len(rows) \in Nat
  OBVIOUS
<1>2. PICK m \in X : \A j \in X : m <= j
  <2> HIDE DEF X
  <2> QED BY <1>1, LeastIndex
<1>3. m \in Pending(rows, existing)
  <2>1. \A j \in 1 .. (m - 1) : j \notin Refused(rows) => Key(rows[j]) # Key(rows[m])
    BY <1>2
  <2> QED BY <2>1 DEF Pending
<1> QED BY <1>2, <1>3

-----------------------------------------------------------------------------
(* Type correctness.                                                       *)

\* What Finish does to the handlers' local state.
LEMMA FinishTyped ==
    ASSUME TypeOK, NEW u \in Uploads,
           NEW reply \in {"accepted", "no_rows", "integrity_error", "failed", "lost"},
           Finish(u, reply)
    PROVE  /\ pc' \in [Uploads -> {"waiting", "classified", "done"}]
           /\ loop' \in [Workers -> Uploads \cup {NoUpload}]
           /\ answer' \in [Uploads -> {"none", "accepted", "no_rows",
                                       "integrity_error", "failed", "lost"}]
BY DEF TypeOK, Finish

\* The readings and the receipt an upload commits have their types.
LEMMA CommitTyped ==
    ASSUME TypeOK, NEW u \in Uploads
    PROVE  StoredFrom(u) \subseteq Reading /\ ReceiptOf(u) \in Receipt
<1>1. file[u] \in Seq(Row)
  BY DEF TypeOK
<1>2. ASSUME NEW i \in Pending(file[u], seen[u])
      PROVE  ReadingOf(file[u][i], "lab_csv", u) \in Reading
  BY <1>1, <1>2, PendingRows DEF ReadingOf, Reading, Key
<1>3. Len(file[u]) \in Nat
  BY <1>1
<1> QED BY <1>1, <1>2, <1>3, RowsAreFinite DEF StoredFrom, ReceiptOf, Receipt

LEMMA TypeStep ==
    ASSUME TypeOK, [Next]_vars
    PROVE  TypeOK'
<1> USE DEF TypeOK
<1>1. ASSUME NEW u \in Uploads, NEW w \in Workers, NEW rows \in Files, Classify(u, w, rows)
      PROVE  TypeOK'
  <2>1. KeysOnRecord \subseteq Points \X Walls
    BY DEF KeysOnRecord, ReadingKey, Reading
  <2>2. rows \in Seq(Row)
    BY FilesAssumption
  <2> QED BY <1>1, <2>1, <2>2 DEF Classify
<1>2. ASSUME NEW u \in Uploads, NEW reply \in {"accepted", "no_rows", "lost"},
             CommitUpload(u, reply)
      PROVE  TypeOK'
  <2>1. Finish(u, reply)
    BY <1>2 DEF CommitUpload
  <2>2. readings' \subseteq Reading
    BY <1>2, CommitTyped DEF CommitUpload
  <2>3. /\ DOMAIN receipts' \subseteq Uploads
        /\ \A v \in DOMAIN receipts' : receipts'[v] \in Receipt
    <3>1. ReceiptOf(u) \in Receipt
      BY CommitTyped
    <3>2. receipts' = [v \in DOMAIN receipts \cup {u} |->
                          IF v = u THEN ReceiptOf(u) ELSE receipts[v]]
      BY <1>2 DEF CommitUpload
    <3> HIDE DEF Receipt
    <3> QED BY <3>1, <3>2
  <2>4. UNCHANGED <<file, seen, posted>>
    BY <2>1 DEF Finish
  <2> QED BY <2>1, <2>2, <2>3, <2>4, FinishTyped
<1>3. ASSUME NEW u \in Uploads, ConflictUpload(u) \/ AbortUpload(u)
      PROVE  TypeOK'
  <2>1. PICK reply \in {"integrity_error", "failed"} :
           Finish(u, reply) /\ UNCHANGED <<readings, receipts>>
    BY <1>3 DEF ConflictUpload, AbortUpload
  <2>2. UNCHANGED <<file, seen, posted>>
    BY <2>1 DEF Finish
  <2> QED BY <2>1, <2>2, FinishTyped
<1>4. ASSUME NEW m \in Posts, NEW row \in ManualRows, PostReading(m, row)
      PROVE  TypeOK'
  <2>1. ReadingOf(row, "manual", NoUpload) \in Reading
    BY ManualAssumption DEF ReadingOf, Reading, MeasuredAt, Stamp
  <2> QED BY <1>4, <2>1 DEF PostReading
<1>5. ASSUME NEW m \in Posts, NEW row \in ManualRows, PostConflict(m, row)
      PROVE  TypeOK'
  BY <1>5 DEF PostConflict
<1>6. CASE UNCHANGED vars
  BY <1>6 DEF vars
<1> QED BY <1>1, <1>2, <1>3, <1>4, <1>5, <1>6 DEF Next, UploadStep, PostStep

\* The tables and the handlers' state keep the shapes of models.py.
THEOREM TypeCorrect == Spec => []TypeOK
<1>1. Init => TypeOK
  BY DEF Init, TypeOK
<1> QED BY <1>1, TypeStep, PTL DEF Spec

-----------------------------------------------------------------------------
(* The inductive invariant.                                                *)

\* uq_reading_point_time.
OneReadingPerKey ==
    \A r1, r2 \in readings : ReadingKey(r1) = ReadingKey(r2) => r1 = r2

\* What a handler found on record stays on record: its knowledge is
\* incomplete when the table has grown since, but never wrong.
SeenIsOnRecord == \A u \in Uploads : seen[u] \subseteq KeysOnRecord

\* A receipt is the one of its file as it was classified, and the readings
\* under its id are the ones pending then; without a receipt there are none.
Provenance ==
    \A u \in Uploads :
        IF u \in DOMAIN receipts
        THEN pc[u] = "done" /\ receipts[u] = ReceiptOf(u) /\ ReadingsOf(u) = StoredFrom(u)
        ELSE ReadingsOf(u) = {}

\* Of two committed uploads of one file at most one had anything to add.
ReplaysPendNothing ==
    \A u1, u2 \in DOMAIN receipts :
        u1 # u2 /\ file[u1] = file[u2] =>
            Pending(file[u1], seen[u1]) = {} \/ Pending(file[u2], seen[u2]) = {}

IndInv ==
    TypeOK /\ OneReadingPerKey /\ SeenIsOnRecord /\ Provenance /\ ReplaysPendNothing

\* Every row of a committed file is refused, or its key is on record.
LEMMA Accounting ==
    ASSUME TypeOK, SeenIsOnRecord, Provenance
    PROVE  EveryRowAccountedFor
<1> SUFFICES ASSUME NEW u \in DOMAIN receipts, NEW i \in DOMAIN file[u],
                    i \notin receipts[u].errors
             PROVE  Key(file[u][i]) \in KeysOnRecord
  BY DEF EveryRowAccountedFor
<1>1. u \in Uploads /\ file[u] \in Seq(Row) /\ seen[u] \subseteq KeysOnRecord
  BY DEF TypeOK, SeenIsOnRecord
<1>2. receipts[u] = ReceiptOf(u) /\ StoredFrom(u) \subseteq readings
  BY <1>1 DEF Provenance, ReadingsOf
<1>3. i \notin Refused(file[u])
  BY <1>2 DEF ReceiptOf
<1>4. ASSUME NEW m \in Pending(file[u], seen[u])
      PROVE  Key(file[u][m]) \in KeysOnRecord
  <2>1. ReadingOf(file[u][m], "lab_csv", u) \in readings
    BY <1>2, <1>4 DEF StoredFrom
  <2>2. ReadingKey(ReadingOf(file[u][m], "lab_csv", u)) = Key(file[u][m])
    BY DEF ReadingKey, ReadingOf, Key
  <2> QED BY <2>1, <2>2 DEF KeysOnRecord
<1> QED BY <1>1, <1>3, <1>4, RowsAreAccounted

\* What a commit that meets no collision adds: one reading per key, all of
\* them new to the table, all of them under the upload's id.
LEMMA CommitAdds ==
    ASSUME TypeOK, NEW u \in Uploads, ~Collides(u)
    PROVE  /\ \A r1, r2 \in StoredFrom(u) : ReadingKey(r1) = ReadingKey(r2) => r1 = r2
           /\ \A r \in StoredFrom(u) : ReadingKey(r) \notin KeysOnRecord
           /\ \A r \in StoredFrom(u) : r.upload = u
<1> DEFINE new(i) == ReadingOf(file[u][i], "lab_csv", u)
<1>1. file[u] \in Seq(Row)
  BY DEF TypeOK
<1>2. \A i \in Pending(file[u], seen[u]) :
         ReadingKey(new(i)) = Key(file[u][i]) /\ new(i).upload = u
  BY DEF ReadingKey, ReadingOf, Key
<1>3. \A i, j \in Pending(file[u], seen[u]) : Key(file[u][i]) = Key(file[u][j]) => i = j
  BY <1>1, PendingKeysDiffer
<1>4. \A r \in StoredFrom(u) : \E i \in Pending(file[u], seen[u]) : r = new(i)
  BY DEF StoredFrom
<1>5. \A i \in Pending(file[u], seen[u]) : Key(file[u][i]) \notin KeysOnRecord
  BY DEF Collides
<1>6. ASSUME NEW r1 \in StoredFrom(u), NEW r2 \in StoredFrom(u), ReadingKey(r1) = ReadingKey(r2)
      PROVE  r1 = r2
  <2>1. PICK i \in Pending(file[u], seen[u]) : r1 = new(i)
    BY <1>4
  <2>2. PICK j \in Pending(file[u], seen[u]) : r2 = new(j)
    BY <1>4
  <2>3. i = j
    BY <1>2, <1>3, <1>6, <2>1, <2>2
  <2> QED BY <2>1, <2>2, <2>3
<1>7. ASSUME NEW r \in StoredFrom(u)
      PROVE  ReadingKey(r) \notin KeysOnRecord /\ r.upload = u
  <2>1. PICK i \in Pending(file[u], seen[u]) : r = new(i)
    BY <1>4
  <2> QED BY <1>2, <1>5, <2>1
<1> QED BY <1>6, <1>7

\* No step forgets a key.
LEMMA KeysStay ==
    ASSUME readings \subseteq readings'
    PROVE  KeysOnRecord \subseteq KeysOnRecord'
BY DEF KeysOnRecord

LEMMA IndClassify ==
    ASSUME IndInv, NEW u \in Uploads, NEW w \in Workers, NEW rows \in Files,
           Classify(u, w, rows)
    PROVE  (OneReadingPerKey /\ SeenIsOnRecord /\ Provenance /\ ReplaysPendNothing)'
<1> USE DEF IndInv
<1>1. UNCHANGED <<readings, receipts, KeysOnRecord>>
  BY DEF Classify, KeysOnRecord
<1>2. OneReadingPerKey'
  BY <1>1 DEF OneReadingPerKey
<1>3. SeenIsOnRecord'
  BY <1>1 DEF SeenIsOnRecord, Classify, TypeOK
<1>4. u \notin DOMAIN receipts
  BY DEF Classify, Provenance
<1>5. \A v \in Uploads \ {u} :
         /\ file'[v] = file[v] /\ seen'[v] = seen[v] /\ pc'[v] = pc[v]
         /\ ReceiptOf(v)' = ReceiptOf(v) /\ StoredFrom(v)' = StoredFrom(v)
         /\ ReadingsOf(v)' = ReadingsOf(v)
  BY DEF Classify, TypeOK, ReceiptOf, StoredFrom, ReadingsOf
<1>6. ReadingsOf(u)' = ReadingsOf(u)
  BY <1>1 DEF ReadingsOf
<1>7. Provenance'
  BY <1>1, <1>4, <1>5, <1>6 DEF Provenance
<1>8. ReplaysPendNothing'
  <2>1. \A v \in DOMAIN receipts : file'[v] = file[v] /\ seen'[v] = seen[v]
    BY <1>4, <1>5 DEF TypeOK
  <2> QED BY <1>1, <2>1 DEF ReplaysPendNothing
<1> QED BY <1>2, <1>3, <1>7, <1>8

LEMMA IndCommit ==
    ASSUME IndInv, NEW u \in Uploads, NEW reply, CommitUpload(u, reply)
    PROVE  (OneReadingPerKey /\ SeenIsOnRecord /\ Provenance /\ ReplaysPendNothing)'
<1> USE DEF IndInv
<1>1. /\ readings' = readings \cup StoredFrom(u)
      /\ DOMAIN receipts' = DOMAIN receipts \cup {u}
      /\ receipts'[u] = ReceiptOf(u)
      /\ \A v \in DOMAIN receipts \ {u} : receipts'[v] = receipts[v]
      /\ UNCHANGED <<file, seen>>
      /\ pc'[u] = "done"
      /\ \A v \in Uploads \ {u} : pc'[v] = pc[v]
  BY DEF CommitUpload, Finish, TypeOK
<1>2. pc[u] = "classified" /\ ~Collides(u) /\ u \notin DOMAIN receipts
  BY DEF CommitUpload, Provenance
<1>3. \A v \in Uploads : ReceiptOf(v)' = ReceiptOf(v) /\ StoredFrom(v)' = StoredFrom(v)
  BY <1>1 DEF ReceiptOf, StoredFrom
<1>4. OneReadingPerKey'
  <2>1. \A r \in readings : ReadingKey(r) \in KeysOnRecord
    BY DEF KeysOnRecord
  <2> QED BY <1>1, <1>2, <2>1, CommitAdds DEF OneReadingPerKey
<1>5. SeenIsOnRecord'
  BY <1>1, KeysStay DEF SeenIsOnRecord
<1>6. Provenance'
  <2>1. ReadingsOf(u)' = StoredFrom(u)
    BY <1>1, <1>2, CommitAdds DEF Provenance, ReadingsOf
  <2>2. \A v \in Uploads \ {u} : ReadingsOf(v)' = ReadingsOf(v)
    BY <1>1, <1>2, CommitAdds DEF ReadingsOf
  <2> QED BY <1>1, <1>3, <2>1, <2>2 DEF Provenance
<1>7. ReplaysPendNothing'
  <2>1. ASSUME NEW v \in DOMAIN receipts, file[v] = file[u]
        PROVE  Pending(file[u], seen[u]) = {}
    <3>1. v \in Uploads /\ receipts[v] = ReceiptOf(v)
      BY DEF Provenance, TypeOK
    <3>2. receipts[v].errors = Refused(file[u])
      BY <2>1, <3>1 DEF ReceiptOf
    <3>3. ASSUME NEW i \in Pending(file[u], seen[u])
          PROVE  FALSE
      <4>1. i \in DOMAIN file[v] /\ i \notin Refused(file[u])
        BY <2>1, <3>3 DEF Pending
      <4>2. Key(file[u][i]) \in KeysOnRecord
        BY <2>1, <3>2, <4>1, Accounting DEF EveryRowAccountedFor
      <4> QED BY <1>2, <4>2 DEF Collides
    <3> QED BY <3>3
  <2> QED BY <1>1, <1>2, <2>1 DEF ReplaysPendNothing
<1> QED BY <1>4, <1>5, <1>6, <1>7

LEMMA IndFail ==
    ASSUME IndInv, NEW u \in Uploads, ConflictUpload(u) \/ AbortUpload(u)
    PROVE  (OneReadingPerKey /\ SeenIsOnRecord /\ Provenance /\ ReplaysPendNothing)'
<1> USE DEF IndInv
<1>1. /\ UNCHANGED <<readings, receipts, file, seen>>
      /\ pc'[u] = "done"
      /\ \A v \in Uploads \ {u} : pc'[v] = pc[v]
  BY DEF ConflictUpload, AbortUpload, Finish, TypeOK
<1>2. \A v \in Uploads : /\ ReceiptOf(v)' = ReceiptOf(v) /\ StoredFrom(v)' = StoredFrom(v)
                         /\ ReadingsOf(v)' = ReadingsOf(v)
  BY <1>1 DEF ReceiptOf, StoredFrom, ReadingsOf
<1> QED BY <1>1, <1>2
        DEF OneReadingPerKey, SeenIsOnRecord, KeysOnRecord, Provenance, ReplaysPendNothing

LEMMA IndPost ==
    ASSUME IndInv, NEW m \in Posts, NEW row \in ManualRows, PostReading(m, row)
    PROVE  (OneReadingPerKey /\ SeenIsOnRecord /\ Provenance /\ ReplaysPendNothing)'
<1> USE DEF IndInv
<1> DEFINE new == ReadingOf(row, "manual", NoUpload)
<1>1. /\ readings' = readings \cup {new}
      /\ UNCHANGED <<receipts, pc, file, seen>>
  BY DEF PostReading
<1>2. /\ ReadingKey(new) \notin KeysOnRecord
      /\ new.upload \notin Uploads
  BY SentinelAssumption DEF PostReading, ReadingKey, ReadingOf, Key
<1>3. \A v \in Uploads : ReceiptOf(v)' = ReceiptOf(v) /\ StoredFrom(v)' = StoredFrom(v)
  BY <1>1 DEF ReceiptOf, StoredFrom
<1> HIDE DEF new
<1>4. \A v \in Uploads : ReadingsOf(v)' = ReadingsOf(v)
  BY <1>1, <1>2 DEF ReadingsOf
<1>5. OneReadingPerKey'
  <2>1. \A r \in readings : ReadingKey(r) \in KeysOnRecord
    BY DEF KeysOnRecord
  <2> QED BY <1>1, <1>2, <2>1 DEF OneReadingPerKey
<1>6. SeenIsOnRecord'
  BY <1>1, KeysStay DEF SeenIsOnRecord
<1> QED BY <1>1, <1>3, <1>4, <1>5, <1>6 DEF Provenance, ReplaysPendNothing

LEMMA IndStep ==
    ASSUME IndInv, [Next]_vars
    PROVE  IndInv'
<1>1. TypeOK'
  BY TypeStep DEF IndInv
<1>2. ASSUME UNCHANGED <<readings, receipts, pc, file, seen>>
      PROVE  (OneReadingPerKey /\ SeenIsOnRecord /\ Provenance /\ ReplaysPendNothing)'
  BY <1>2 DEF IndInv, OneReadingPerKey, SeenIsOnRecord, KeysOnRecord, Provenance,
              ReplaysPendNothing, ReceiptOf, StoredFrom, ReadingsOf
<1>3. CASE UNCHANGED vars
  BY <1>1, <1>2, <1>3 DEF IndInv, vars
<1>4. ASSUME NEW m \in Posts, NEW row \in ManualRows, PostConflict(m, row)
      PROVE  IndInv'
  BY <1>1, <1>2, <1>4 DEF IndInv, PostConflict
<1> QED BY <1>1, <1>3, <1>4, IndClassify, IndCommit, IndFail, IndPost
        DEF Next, UploadStep, PostStep, IndInv

LEMMA IndInvariant == Spec => []IndInv
<1>1. Init => IndInv
  <2> SUFFICES ASSUME Init PROVE IndInv
    OBVIOUS
  <2>1. TypeOK
    BY DEF Init, TypeOK
  <2>2. readings = {} /\ DOMAIN receipts = {} /\ \A u \in Uploads : seen[u] = {}
    BY DEF Init
  <2> QED BY <2>1, <2>2 DEF IndInv, OneReadingPerKey, SeenIsOnRecord, Provenance,
                            ReplaysPendNothing, ReadingsOf
<1> QED BY <1>1, IndStep, PTL DEF Spec

-----------------------------------------------------------------------------
(* The theorems.                                                           *)

\* As many readings as pending rows: the map from one to the other is one to one.
LEMMA StoredCardinality ==
    ASSUME TypeOK, NEW u \in Uploads
    PROVE  Cardinality(StoredFrom(u)) = Cardinality(Pending(file[u], seen[u]))
<1> DEFINE P == Pending(file[u], seen[u])
           new(i) == ReadingOf(file[u][i], "lab_csv", u)
           f == [i \in P |-> new(i)]
<1>1. file[u] \in Seq(Row)
  BY DEF TypeOK
<1>2. IsFiniteSet(P)
  BY <1>1, RowsAreFinite
<1>3. \A i \in P : ReadingKey(new(i)) = Key(file[u][i])
  BY DEF ReadingKey, ReadingOf, Key
<1>4. \A i, j \in P : new(i) = new(j) => i = j
  <2> SUFFICES ASSUME NEW i \in P, NEW j \in P, new(i) = new(j)
               PROVE  i = j
    OBVIOUS
  <2>1. Key(file[u][i]) = Key(file[u][j])
    BY <1>3
  <2> QED BY <1>1, <2>1, PendingKeysDiffer
<1>5. f \in [P -> StoredFrom(u)]
  BY DEF StoredFrom
<1>6. \A r \in StoredFrom(u) : \E i \in P : f[i] = r
  BY DEF StoredFrom
<1>7. \A i, j \in P : f[i] = f[j] => i = j
  BY <1>4
<1>8. f \in Bijection(P, StoredFrom(u))
  <2> HIDE DEF f, P
  <2> QED BY <1>5, <1>6, <1>7 DEF Bijection, Injection, Surjection, IsInjective
<1> HIDE DEF f, P
<1>9. ExistsBijection(P, StoredFrom(u))
  BY <1>8 DEF ExistsBijection
<1> QED BY <1>2, <1>9, FS_Bijection DEF P

\* The stored receipt and the stored readings never disagree.
THEOREM ReceiptsAgree == Spec => []ReceiptMatchesReadings
<1>1. IndInv => ReceiptMatchesReadings
  <2> SUFFICES ASSUME IndInv, NEW u \in Uploads
               PROVE  IF u \in DOMAIN receipts
                      THEN Cardinality(ReadingsOf(u)) = receipts[u].accepted
                      ELSE ReadingsOf(u) = {}
    BY DEF ReceiptMatchesReadings
  <2>1. CASE u \in DOMAIN receipts
    <3>1. receipts[u] = ReceiptOf(u) /\ ReadingsOf(u) = StoredFrom(u)
      BY <2>1 DEF IndInv, Provenance
    <3>2. receipts[u].accepted = Cardinality(Pending(file[u], seen[u]))
      BY <3>1 DEF ReceiptOf
    <3> QED BY <2>1, <3>1, <3>2, StoredCardinality DEF IndInv
  <2>2. CASE u \notin DOMAIN receipts
    BY <2>2 DEF IndInv, Provenance
  <2> QED BY <2>1, <2>2
<1> QED BY <1>1, IndInvariant, PTL

\* No row of a committed file is silently dropped.
THEOREM RowsAccounted == Spec => []EveryRowAccountedFor
<1>1. IndInv => EveryRowAccountedFor
  BY Accounting DEF IndInv
<1> QED BY <1>1, IndInvariant, PTL

\* Of the uploads of one file at most one is credited with rows.
THEOREM ReplaysAreNoOps == Spec => []ReplayIsNoOp
<1>1. IndInv => ReplayIsNoOp
  <2> SUFFICES ASSUME IndInv,
                      NEW u1 \in DOMAIN receipts, NEW u2 \in DOMAIN receipts,
                      u1 # u2, file[u1] = file[u2]
               PROVE  receipts[u1].accepted = 0 \/ receipts[u2].accepted = 0
    BY DEF ReplayIsNoOp
  <2>1. /\ receipts[u1].accepted = Cardinality(Pending(file[u1], seen[u1]))
        /\ receipts[u2].accepted = Cardinality(Pending(file[u2], seen[u2]))
    <3>1. u1 \in Uploads /\ u2 \in Uploads
      BY DEF IndInv, TypeOK
    <3>2. receipts[u1] = ReceiptOf(u1) /\ receipts[u2] = ReceiptOf(u2)
      BY <3>1 DEF IndInv, Provenance
    <3> QED BY <3>2 DEF ReceiptOf
  <2>2. Pending(file[u1], seen[u1]) = {} \/ Pending(file[u2], seen[u2]) = {}
    BY DEF IndInv, ReplaysPendNothing
  <2> QED BY <2>1, <2>2, FS_EmptySet
<1> QED BY <1>1, IndInvariant, PTL

\* Uploads and manual readings implement the write-once log of ReadingLog.
THEOREM WriteOnce == Spec => ImplementsReadingLog
<1> DEFINE entry(r) == [key |-> ReadingKey(r), value |-> r.value]
           entries == {entry(r) : r \in readings}
<1>1. Init => Log!Init
  BY DEF Init, Log!Init
<1>2. ASSUME IndInv, IndInv', [Next]_vars
      PROVE  [Log!Append]_entries
  <2>1. CASE UNCHANGED readings
    BY <2>1 DEF ReadingKey
  <2>2. CASE readings \subseteq readings'
    <3> DEFINE new == entries' \ entries
    <3>1. entries \subseteq entries'
      BY <2>2
    <3>2. \A e \in entries' : \E r \in readings' : e = entry(r)
      OBVIOUS
    <3>3. \A r1, r2 \in readings' : ReadingKey(r1) = ReadingKey(r2) => r1 = r2
      BY <1>2 DEF IndInv, OneReadingPerKey, ReadingKey
    <3>4. \A e1, e2 \in entries' : e1.key = e2.key => e1 = e2
      BY <3>2, <3>3
    <3>5. \A r \in readings' : entry(r) \in Log!Entry
      BY <1>2 DEF IndInv, TypeOK, Reading, ReadingKey, Log!Entry
    <3>6. new \subseteq Log!Entry
      BY <3>2, <3>5
    <3>7. Log!OnePerKey(new)
      BY <3>4 DEF Log!OnePerKey
    <3>8. Log!KeysOf(new) \cap Log!KeysOf(entries) = {}
      BY <3>1, <3>4 DEF Log!KeysOf
    <3> QED BY <3>1, <3>6, <3>7, <3>8 DEF Log!Append
  <2>3. readings \subseteq readings'
    BY <1>2 DEF Next, UploadStep, PostStep, Classify, CommitUpload, ConflictUpload,
                AbortUpload, PostReading, PostConflict, vars
  <2> QED BY <2>2, <2>3
<1> QED BY <1>1, <1>2, IndInvariant, PTL DEF Spec, ImplementsReadingLog, Log!Spec

-----------------------------------------------------------------------------
(* Readings out of range, and the answers that left them.                  *)

OutOfRange == {r \in readings : ~InSanityRange(r.value)}
RangeErrors == {m \in Posts : posted[m] = "response_error"}

RangeInv ==
    /\ IsFiniteSet(OutOfRange)
    /\ IsFiniteSet(RangeErrors)
    /\ Cardinality(OutOfRange) = Cardinality(RangeErrors)

LEMMA RangeStep ==
    ASSUME IndInv, RangeInv, [Next]_vars
    PROVE  RangeInv'
<1>1. ASSUME UNCHANGED <<OutOfRange, RangeErrors>>
      PROVE  RangeInv'
  BY <1>1 DEF RangeInv
<1>2. ASSUME NEW u \in Uploads, NEW reply, CommitUpload(u, reply)
      PROVE  UNCHANGED <<OutOfRange, RangeErrors>>
  <2>1. \A r \in StoredFrom(u) : InSanityRange(r.value)
    <3>1. \A i \in Pending(file[u], seen[u]) : Parses(file[u][i])
      BY DEF Pending, Refused
    <3> QED BY <3>1 DEF StoredFrom, ReadingOf, Parses
  <2> QED BY <1>2, <2>1 DEF CommitUpload, Finish, OutOfRange, RangeErrors
<1>3. ASSUME NEW m \in Posts, NEW row \in ManualRows, PostReading(m, row)
      PROVE  RangeInv'
  <2> DEFINE new == ReadingOf(row, "manual", NoUpload)
  <2>1. readings' = readings \cup {new} /\ new \notin readings /\ new.value = row.value
    <3>1. ReadingKey(new) = Key(row)
      BY DEF ReadingKey, ReadingOf, Key
    <3> QED BY <1>3, <3>1 DEF PostReading, KeysOnRecord, ReadingOf
  <2>2. /\ posted \in [Posts -> {"none", "created", "response_error", "conflict"}]
        /\ posted[m] = "none"
        /\ posted' = [posted EXCEPT ![m] =
                        IF InSanityRange(row.value) THEN "created" ELSE "response_error"]
    BY <1>3 DEF PostReading, IndInv, TypeOK
  <2> HIDE DEF new
  <2>3. CASE InSanityRange(row.value)
    <3>1. OutOfRange' = OutOfRange
      BY <2>1, <2>3 DEF OutOfRange
    <3>2. RangeErrors' = RangeErrors
      BY <2>2, <2>3 DEF RangeErrors
    <3> QED BY <1>1, <3>1, <3>2
  <2>4. CASE ~InSanityRange(row.value)
    <3>1. OutOfRange' = OutOfRange \cup {new} /\ new \notin OutOfRange
      BY <2>1, <2>4 DEF OutOfRange
    <3>2. RangeErrors' = RangeErrors \cup {m} /\ m \notin RangeErrors
      BY <2>2, <2>4 DEF RangeErrors
    <3>3. IsFiniteSet(OutOfRange') /\ Cardinality(OutOfRange') = Cardinality(OutOfRange) + 1
      BY <3>1, FS_AddElement DEF RangeInv
    <3>4. IsFiniteSet(RangeErrors') /\ Cardinality(RangeErrors') = Cardinality(RangeErrors) + 1
      BY <3>2, FS_AddElement DEF RangeInv
    <3> QED BY <3>3, <3>4 DEF RangeInv
  <2> QED BY <2>3, <2>4
<1>4. ASSUME NEW m \in Posts, NEW row \in ManualRows, PostConflict(m, row)
      PROVE  UNCHANGED <<OutOfRange, RangeErrors>>
  BY <1>4 DEF PostConflict, OutOfRange, RangeErrors, IndInv, TypeOK
<1>5. ASSUME NEW u \in Uploads,
             \/ \E w \in Workers, rows \in Files : Classify(u, w, rows)
             \/ ConflictUpload(u) \/ AbortUpload(u)
      PROVE  UNCHANGED <<OutOfRange, RangeErrors>>
  BY <1>5 DEF Classify, ConflictUpload, AbortUpload, Finish, OutOfRange, RangeErrors
<1>6. CASE UNCHANGED vars
  BY <1>1, <1>6 DEF vars, OutOfRange, RangeErrors
<1> QED BY <1>1, <1>2, <1>3, <1>4, <1>5, <1>6 DEF Next, UploadStep, PostStep

\* Every answer 500 of POST /readings left one reading out of range on record,
\* and there are no others.
THEOREM RangeErrorsLeft == Spec => []RangeErrorsLeaveReadings
<1>1. Init => RangeInv
  <2> SUFFICES ASSUME Init PROVE RangeInv
    OBVIOUS
  <2>1. OutOfRange = {} /\ RangeErrors = {}
    BY DEF Init, OutOfRange, RangeErrors
  <2> QED BY <2>1, FS_EmptySet DEF RangeInv
<1>2. RangeInv => RangeErrorsLeaveReadings
  BY DEF RangeInv, OutOfRange, RangeErrors, RangeErrorsLeaveReadings
<1> QED BY <1>1, <1>2, RangeStep, IndInvariant, PTL DEF Spec
=============================================================================
