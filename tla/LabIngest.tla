----------------------------- MODULE LabIngest ------------------------------
(***************************************************************************)
(* M1: every writer of the table chlorine_reading, interleaved.            *)
(*                                                                         *)
(*   Uploads  requests to POST /systems/{id}/ingest/lab-csv and to         *)
(*            POST /dash/upload.  Both are `async def`: after the file is  *)
(*            read the handler runs without an await, so it holds the      *)
(*            event loop of its worker process until it answers.           *)
(*   Posts    requests to POST /readings, a plain `def`: it runs in the    *)
(*            thread pool, at any moment of anybody's upload.              *)
(*                                                                         *)
(* ingest_lab_csv reads the keys on record, classifies the whole file      *)
(* against them and commits the receipt and the new readings in one        *)
(* transaction.  Between the read and the commit the table may change;     *)
(* the unique constraint uq_reading_point_time then refuses the commit.    *)
(*                                                                         *)
(* A row's time stamp is a wall-clock reading `wall` at the UTC offset     *)
(* `off`; values are hundredths of mg/L.                                   *)
(***************************************************************************)
EXTENDS Integers, Sequences, FiniteSets

CONSTANTS
    Uploads,        \* upload requests; each one's upload_id is fresh (uuid4)
    Posts,          \* manual readings sent to POST /readings
    Workers,        \* uvicorn worker processes (AQUAOPS_WORKERS)
    Points,         \* sampling-point ids a client may name
    Registered,     \* the ids of the system's registry
    Walls, Offsets, \* local clock readings and UTC offsets of time stamps
    Values,         \* numbers a row or a request may carry
    Files,          \* laboratory files: sequences of rows
    ManualRows,     \* what clients send to POST /readings
    Blank,          \* a missing point id or an unparseable time or number
    NoUpload        \* upload_id NULL; also: the event loop is idle

CHLORINE_SANITY_MIN == 0
CHLORINE_SANITY_MAX == 500

Stamp == [wall : Walls, off : Offsets]
Row == [point : Points \cup {Blank},
        stamp : Stamp \cup {Blank},
        value : Values \cup {Blank}]

ASSUME RegistryAssumption == Registered \subseteq Points
ASSUME NumbersAssumption ==
    Walls \subseteq Int /\ Offsets \subseteq Int /\ Values \subseteq Int
ASSUME FilesAssumption == Files \subseteq Seq(Row)
ASSUME ManualAssumption ==
    ManualRows \subseteq [point : Points, stamp : Stamp, value : Values]
ASSUME SentinelAssumption ==
    /\ NoUpload \notin Uploads
    /\ Blank \notin Points \cup Stamp \cup Values

VARIABLES
    readings,   \* table chlorine_reading
    receipts,   \* table lab_result_upload: committed upload_id -> receipt
    pc,         \* where an upload's handler stands
    file,       \* the file an upload carries
    seen,       \* the keys its handler found on record
    loop,       \* the upload that holds each worker's event loop
    answer,     \* what the uploading client was told
    posted      \* what the client of a manual reading was told

vars == <<readings, receipts, pc, file, seen, loop, answer, posted>>

-----------------------------------------------------------------------------
(* The file, row by row.                                                   *)

InSanityRange(value) ==
    CHLORINE_SANITY_MIN <= value /\ value <= CHLORINE_SANITY_MAX

\* fromisoformat(...).replace(tzinfo=None): the offset is dropped, the
\* wall-clock reading stays as it was written.
MeasuredAt(stamp) == stamp.wall

\* The rows parse_lab_csv turns into readings; it refuses the others.
Parses(row) ==
    /\ row.point # Blank
    /\ row.stamp # Blank
    /\ row.value # Blank
    /\ InSanityRange(row.value)

\* Refused by the parser, or of a point the registry does not know.
Refused(rows) ==
    {i \in DOMAIN rows : ~Parses(rows[i]) \/ rows[i].point \notin Registered}

Key(row) == <<row.point, MeasuredAt(row.stamp)>>

\* Mutant: rows are removed from the list that is being iterated, so the row
\* after one of an unregistered point is never looked at.
PendingSkipping(rows, existing) ==
    {i \in DOMAIN rows \ Refused(rows) :
        /\ Key(rows[i]) \notin existing
        /\ \A j \in 1 .. (i - 1) : j \notin Refused(rows) => Key(rows[j]) # Key(rows[i])
        /\ i > 1 => ~(Parses(rows[i - 1]) /\ rows[i - 1].point \notin Registered)}

\* The rows that become readings: not refused, their key neither on record
\* when the file was classified nor that of an earlier row of the file.
Pending(rows, existing) ==
    {i \in DOMAIN rows \ Refused(rows) :
        /\ Key(rows[i]) \notin existing
        /\ \A j \in 1 .. (i - 1) : j \notin Refused(rows) => Key(rows[j]) # Key(rows[i])}

ReadingOf(row, source, upload) ==
    [point |-> row.point, at |-> MeasuredAt(row.stamp), value |-> row.value,
     source |-> source, upload |-> upload]

StoredFrom(u) ==
    {ReadingOf(file[u][i], "lab_csv", u) : i \in Pending(file[u], seen[u])}

\* Mutant: rows_accepted counts what parsed, replayed rows included.
ReceiptCountingParsed(u) ==
    [total |-> Len(file[u]),
     accepted |-> Len(file[u]) - Cardinality(Refused(file[u])),
     errors |-> Refused(file[u])]

\* Mutant: the refused rows, filtered out already, are subtracted once more.
ReceiptSubtractingRefused(u) ==
    [total |-> Len(file[u]),
     accepted |-> Cardinality(Pending(file[u], seen[u])) - Cardinality(Refused(file[u])),
     errors |-> Refused(file[u])]

ReceiptOf(u) ==
    [total |-> Len(file[u]),
     accepted |-> Cardinality(Pending(file[u], seen[u])),
     errors |-> Refused(file[u])]

-----------------------------------------------------------------------------
ReadingKey(r) == <<r.point, r.at>>
KeysOnRecord == {ReadingKey(r) : r \in readings}

Init ==
    /\ readings = {}
    /\ receipts = [u \in {} |-> {}]
    /\ pc = [u \in Uploads |-> "waiting"]
    /\ file = [u \in Uploads |-> <<>>]
    /\ seen = [u \in Uploads |-> {}]
    /\ loop = [w \in Workers |-> NoUpload]
    /\ answer = [u \in Uploads |-> "none"]
    /\ posted = [m \in Posts |-> "none"]

\* ingest_lab_csv up to its SELECT of the keys on record.
Classify(u, w, rows) ==
    /\ pc[u] = "waiting"
    /\ loop[w] = NoUpload
    /\ pc' = [pc EXCEPT ![u] = "classified"]
    /\ loop' = [loop EXCEPT ![w] = u]
    /\ file' = [file EXCEPT ![u] = rows]
    /\ seen' = [seen EXCEPT ![u] = KeysOnRecord]
    /\ UNCHANGED <<readings, receipts, answer, posted>>

\* The handler ends with `reply` and gives its event loop back.
Finish(u, reply) ==
    /\ pc' = [pc EXCEPT ![u] = "done"]
    /\ loop' = [w \in Workers |-> IF loop[w] = u THEN NoUpload ELSE loop[w]]
    /\ answer' = [answer EXCEPT ![u] = reply]
    /\ UNCHANGED <<file, seen, posted>>

\* Mutant: the unique constraint is missing.
CollidesNever(u) == FALSE

\* uq_reading_point_time: a key of the file was recorded after it was read.
Collides(u) ==
    \E i \in Pending(file[u], seen[u]) : Key(file[u][i]) \in KeysOnRecord

\* The commit.  The client may lose the answer ("lost"); a file without rows
\* is answered 400 after its receipt was stored.
CommitUpload(u, reply) ==
    /\ pc[u] = "classified"
    /\ ~Collides(u)
    /\ reply \in {IF file[u] = <<>> THEN "no_rows" ELSE "accepted", "lost"}
    /\ readings' = readings \cup StoredFrom(u)
    /\ receipts' = [v \in DOMAIN receipts \cup {u} |->
                        IF v = u THEN ReceiptOf(u) ELSE receipts[v]]
    /\ Finish(u, reply)

\* IntegrityError: nobody catches it, the session rolls everything back.
ConflictUpload(u) ==
    /\ pc[u] = "classified"
    /\ Collides(u)
    /\ Finish(u, "integrity_error")
    /\ UNCHANGED <<readings, receipts>>

\* The database stays locked, or the worker is killed: nothing was written.
AbortUpload(u) ==
    /\ pc[u] = "classified"
    /\ Finish(u, "failed")
    /\ UNCHANGED <<readings, receipts>>

\* Mutant: a repeated key overwrites the reading on record.
PostReadingUpsert(m, row) ==
    /\ posted[m] = "none"
    /\ readings' = {r \in readings : ReadingKey(r) # Key(row)}
                       \cup {ReadingOf(row, "manual", NoUpload)}
    /\ posted' = [posted EXCEPT ![m] = "created"]
    /\ UNCHANGED <<receipts, pc, file, seen, loop, answer>>

\* add_reading commits the row as it was sent: the point is not looked up and
\* the value is not range-checked.  A value out of range fails afterwards, in
\* the response model: the client is told 500 and the row stays.
PostReading(m, row) ==
    /\ posted[m] = "none"
    /\ Key(row) \notin KeysOnRecord
    /\ readings' = readings \cup {ReadingOf(row, "manual", NoUpload)}
    /\ posted' = [posted EXCEPT ![m] =
                    IF InSanityRange(row.value) THEN "created" ELSE "response_error"]
    /\ UNCHANGED <<receipts, pc, file, seen, loop, answer>>

\* The key is taken: 409, nothing is written.
PostConflict(m, row) ==
    /\ posted[m] = "none"
    /\ Key(row) \in KeysOnRecord
    /\ posted' = [posted EXCEPT ![m] = "conflict"]
    /\ UNCHANGED <<readings, receipts, pc, file, seen, loop, answer>>

UploadStep(u) ==
    \/ \E w \in Workers, rows \in Files : Classify(u, w, rows)
    \/ \E reply \in {"accepted", "no_rows", "lost"} : CommitUpload(u, reply)
    \/ ConflictUpload(u)
    \/ AbortUpload(u)

PostStep(m) ==
    \E row \in ManualRows : PostReading(m, row) \/ PostConflict(m, row)

Next ==
    \/ \E u \in Uploads : UploadStep(u)
    \/ \E m \in Posts : PostStep(m)

Spec == Init /\ [][Next]_vars

-----------------------------------------------------------------------------
(* Properties.                                                             *)

Reading == [point : Points, at : Walls, value : Values,
            source : {"lab_csv", "manual"}, upload : Uploads \cup {NoUpload}]
Receipt == [total : Nat, accepted : Nat, errors : SUBSET Nat]

\* The tables and the handlers' local state have the shapes of models.py;
\* in particular a stored time is a naive wall-clock reading.
TypeOK ==
    /\ readings \subseteq Reading
    /\ DOMAIN receipts \subseteq Uploads
    /\ \A u \in DOMAIN receipts : receipts[u] \in Receipt
    /\ pc \in [Uploads -> {"waiting", "classified", "done"}]
    /\ file \in [Uploads -> Seq(Row)]
    /\ seen \in [Uploads -> SUBSET (Points \X Walls)]
    /\ loop \in [Workers -> Uploads \cup {NoUpload}]
    /\ answer \in [Uploads -> {"none", "accepted", "no_rows", "integrity_error",
                               "failed", "lost"}]
    /\ posted \in [Posts -> {"none", "created", "response_error", "conflict"}]

ReadingsOf(u) == {r \in readings : r.upload = u}

\* "The stored receipt and the stored readings can never disagree" (docstring
\* of services/ingest.py): the readings that carry an upload's id are as many
\* as its receipt accepted, and none carries the id of an upload without one,
\* whoever else wrote between the classification and the commit.
ReceiptMatchesReadings ==
    \A u \in Uploads :
        IF u \in DOMAIN receipts
        THEN Cardinality(ReadingsOf(u)) = receipts[u].accepted
        ELSE ReadingsOf(u) = {}

\* No row of a committed file is silently dropped: it is named in the receipt
\* as refused, or a reading is on record under its key (its own, or the one
\* it repeats).  LabParseResult.reject is where this was once wrong.
EveryRowAccountedFor ==
    \A u \in DOMAIN receipts : \A i \in DOMAIN file[u] :
        i \in receipts[u].errors \/ Key(file[u][i]) \in KeysOnRecord

\* However often a file is sent, and however its uploads overlap, at most one
\* of them is credited with new rows and the others are no-ops.
ReplayIsNoOp ==
    \A u1, u2 \in DOMAIN receipts :
        u1 # u2 /\ file[u1] = file[u2] =>
            receipts[u1].accepted = 0 \/ receipts[u2].accepted = 0

\* POST /readings has no range check of its own: every answer 500 for a value
\* out of range leaves exactly one such reading on record, and those are all
\* there are, because the parser lets none through.
RangeErrorsLeaveReadings ==
    Cardinality({r \in readings : ~InSanityRange(r.value)})
        = Cardinality({m \in Posts : posted[m] = "response_error"})

\* The table is a write-once log: see ReadingLog.
Log == INSTANCE ReadingLog WITH
    LogKey <- Points \X Walls,
    LogValue <- Values,
    log <- {[key |-> ReadingKey(r), value |-> r.value] : r \in readings}

\* Uploads and manual readings together implement the write-once log: no step
\* of anybody duplicates, overwrites or removes a reading.
ImplementsReadingLog == Log!Spec

-----------------------------------------------------------------------------
(* What a document says and the code does not do.                          *)

\* docs/api-spec.md: "duplicates collapse on the (sampling_point_id,
\* measured_at) unique key, never error".
DuplicatesNeverError == \A u \in Uploads : answer[u] # "integrity_error"
=============================================================================
