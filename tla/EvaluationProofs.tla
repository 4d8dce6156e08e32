-------------------------- MODULE EvaluationProofs --------------------------
(***************************************************************************)
(* Proofs about Evaluation.  Whatever fails between the commit and the     *)
(* report file, and however requests race for one file, it holds texts of  *)
(* runs on record, and one that was alone with it left its own; and what   *)
(* is on record is owed to the detector, of which only this much is        *)
(* needed: it makes the same of a prefix every time it is asked.  Of its   *)
(* statistics it is proved that they speak of falls: totals and averages   *)
(* are defined by recursion, and what holds of them is shown by induction  *)
(* over the readings.                                                      *)
(***************************************************************************)
EXTENDS Evaluation, FiniteSetTheorems, SequenceTheorems, TLAPS

\* A request writes one row, under its own id, and takes it to its report.
RowOfOwn(q) ==
    /\ request[q].pc \in {"new", "measured"} => q \notin DOMAIN rows
    /\ request[q].pc \in {"committed", "opened", "done"} => q \in DOMAIN rows
    /\ request[q].pc \in {"committed", "opened"} => rows[q].sha = request[q].sha
    /\ request[q].pc \in {"opened", "done"} => ReportOf[rows[q].sha] \in DOMAIN files
    /\ request[q].pc = "measured" => {"pc", "sha"} \subseteq DOMAIN request[q]

IsOpened(q, path) == request[q].pc = "opened" /\ Report(q) = path

\* Whoever opened a file last has it open or is through with it; as long as that
\* one is alone with it, it is empty until the text is there.
LastWriter(path) ==
    LET file == files[path]
    IN /\ request[file.last].pc \in {"opened", "done", "failed"}
       /\ request[file.last].pc = "opened" => Report(file.last) = path
       /\ file.sole =>
             /\ \A q \in Requests : IsOpened(q, path) => q = file.last /\ file.texts = {}
             /\ request[file.last].pc = "done" => file.texts = {file.last}

FileInv(path) ==
    /\ files[path] \in File
    /\ LastWriter(path)
    /\ \A q \in files[path].texts : q \in DOMAIN rows /\ ReportOf[rows[q].sha] = path

IndInv ==
    /\ DOMAIN request = Requests
    /\ \A q \in Requests : RowOfOwn(q)
    /\ \A path \in DOMAIN files : FileInv(path)

\* Before the first request nothing is on record or on disk.
LEMMA IndInit == Init => IndInv
<1> SUFFICES ASSUME Init PROVE IndInv
  OBVIOUS
<1>1. DOMAIN request = Requests /\ \A q \in Requests : request[q].pc = "new"
  BY DEF Init
<1>2. DOMAIN rows = {} /\ DOMAIN files = {}
  BY DEF Init
<1> QED BY <1>1, <1>2 DEF IndInv, RowOfOwn

\* A request that moves on disturbs no other.
LEMMA GoKeeps ==
  ASSUME DOMAIN request = Requests, NEW q \in Requests, NEW r, Go(q, r)
  PROVE  /\ DOMAIN request' = Requests /\ request'[q] = r
         /\ \A p \in Requests : p # q => request'[p] = request[p]
  BY DEF Go

\* A request that does not have a file open leaves what is known of it true.
LEMMA OtherFileStays ==
  ASSUME IndInv, NEW q \in Requests, NEW r, Go(q, r),
         NEW path \in DOMAIN files, files'[path] = files[path], q # files[path].last,
         r.pc = "opened" => ReportOf[r.sha] # path,
         \A p \in DOMAIN rows : p \in DOMAIN rows' /\ rows'[p] = rows[p]
  PROVE  FileInv(path)'
<1>1. /\ request'[q] = r
      /\ \A p \in Requests : p # q => request'[p] = request[p]
  BY GoKeeps DEF IndInv
<1>2. FileInv(path)
  BY DEF IndInv
<1>3. PICK file \in File : file = files[path] /\ file.last \in Requests /\ file.last # q
  BY <1>2 DEF FileInv, File
<1>4. request'[file.last] = request[file.last]
  BY <1>1, <1>3
<1>5. ASSUME NEW p \in Requests, IsOpened(p, path)'
      PROVE  IsOpened(p, path)
  <2>1. p # q
    BY <1>1, <1>5 DEF IsOpened, Report
  <2>2. request'[p] = request[p]
    BY <1>1, <2>1
  <2> QED BY <1>5, <2>2 DEF IsOpened, Report
<1>6. LastWriter(path)'
  <2>1. /\ request[file.last].pc \in {"opened", "done", "failed"}
        /\ request[file.last].pc = "opened" => Report(file.last) = path
        /\ file.sole =>
              /\ \A p \in Requests : IsOpened(p, path) => p = file.last /\ file.texts = {}
              /\ request[file.last].pc = "done" => file.texts = {file.last}
    BY <1>2, <1>3 DEF FileInv, LastWriter
  <2>2. file = files'[path] /\ Report(file.last)' = Report(file.last)
    BY <1>3, <1>4 DEF Report
  <2> QED BY <1>4, <1>5, <2>1, <2>2 DEF LastWriter
<1> QED BY <1>2, <1>6 DEF FileInv

\* A request that has no file open leaves all files alone.
LEMMA FilesStay ==
  ASSUME IndInv, NEW q \in Requests, NEW r, Go(q, r), files' = files,
         request[q].pc \in {"new", "measured", "committed"}, r.pc # "opened",
         \A p \in DOMAIN rows : p \in DOMAIN rows' /\ rows'[p] = rows[p]
  PROVE  \A path \in DOMAIN files' : FileInv(path)'
<1> SUFFICES ASSUME NEW path \in DOMAIN files PROVE FileInv(path)'
  OBVIOUS
<1>1. q # files[path].last
  BY DEF IndInv, FileInv, LastWriter
<1> QED BY <1>1, OtherFileStays

\* What was measured is on its way unchanged.
LEMMA MeasureKeeps ==
  ASSUME IndInv, NEW q \in Requests, NEW sha \in Shas, NEW plan \in Plans,
         NEW inputs \in Inputs, Measure(q, sha, plan, inputs)
  PROVE  IndInv'
<1>1. PICK r, verdicts : Go(q, r) /\ r = [pc |-> "measured", sha |-> sha, verdicts |-> verdicts]
  BY DEF Measure
<1>2. /\ DOMAIN request = Requests /\ request[q].pc = "new"
      /\ rows' = rows /\ files' = files /\ q \notin DOMAIN rows
  BY DEF IndInv, RowOfOwn, Measure
<1>3. /\ DOMAIN request' = Requests /\ request'[q] = r
      /\ \A p \in Requests : p # q => request'[p] = request[p]
  BY <1>1, <1>2, GoKeeps
<1>4. r.pc = "measured" /\ {"pc", "sha"} \subseteq DOMAIN r
  BY <1>1
<1>5. \A p \in Requests : RowOfOwn(p)'
  BY <1>2, <1>3, <1>4 DEF IndInv, RowOfOwn
<1>6. \A path \in DOMAIN files' : FileInv(path)'
  BY <1>1, <1>2, <1>4, FilesStay
<1> QED BY <1>3, <1>5, <1>6 DEF IndInv

\* The commit puts a row under an id that had none, so no report on disk
\* comes to stand for another row.
LEMMA CommitKeeps ==
  ASSUME IndInv, NEW q \in Requests, Commit(q)
  PROVE  IndInv'
<1>1. /\ request[q].pc = "measured" /\ q \notin DOMAIN rows
      /\ DOMAIN request = Requests /\ files' = files
      /\ {"pc", "sha"} \subseteq DOMAIN request[q]
  BY DEF IndInv, RowOfOwn, Commit
<1>2. PICK row : /\ row = [sha |-> request[q].sha, verdicts |-> request[q].verdicts]
                 /\ rows' = Put(rows, q, row)
  BY DEF Commit
<1>3. PICK next : next = [request[q] EXCEPT !.pc = "committed"] /\ Go(q, next)
  BY DEF Commit
<1>4. next.pc = "committed" /\ next.sha = row.sha
  BY <1>1, <1>2, <1>3
<1>5. /\ DOMAIN request' = Requests /\ request'[q] = next
      /\ \A p \in Requests : p # q => request'[p] = request[p]
  BY <1>1, <1>3, GoKeeps
<1>6. /\ DOMAIN rows' = DOMAIN rows \cup {q} /\ rows'[q] = row
      /\ \A p \in DOMAIN rows : rows'[p] = rows[p]
  BY <1>1, <1>2 DEF Put
<1>7. \A p \in Requests : RowOfOwn(p)'
  BY <1>1, <1>4, <1>5, <1>6 DEF IndInv, RowOfOwn
<1>8. \A path \in DOMAIN files' : FileInv(path)'
  BY <1>1, <1>3, <1>4, <1>6, FilesStay
<1> QED BY <1>5, <1>7, <1>8 DEF IndInv

\* A file that is opened is empty, and has nobody else in it or is not counted.
LEMMA OpenReportKeeps ==
  ASSUME IndInv, NEW q \in Requests, OpenReport(q)
  PROVE  IndInv'
<1>1. /\ request[q].pc = "committed" /\ q \in DOMAIN rows /\ rows[q].sha = request[q].sha
      /\ DOMAIN request = Requests /\ rows' = rows
  BY DEF IndInv, RowOfOwn, OpenReport, Open
<1>2. PICK path, file, r :
         /\ path = ReportOf[rows[q].sha] /\ path = Report(q)
         /\ file = [texts |-> {}, last |-> q, sole |-> Opened(path) = {}]
         /\ r = [pc |-> "opened", sha |-> request[q].sha]
         /\ files' = Put(files, path, file) /\ Go(q, r)
  BY <1>1 DEF OpenReport, Open, Report
<1>3. /\ DOMAIN files' = DOMAIN files \cup {path} /\ files'[path] = file
      /\ \A p \in DOMAIN files : p # path => files'[p] = files[p]
  BY <1>2 DEF Put
<1>4. /\ DOMAIN request' = Requests /\ request'[q] = r
      /\ \A p \in Requests : p # q => request'[p] = request[p]
  BY <1>1, <1>2, GoKeeps
<1>5. r.pc = "opened" /\ r.sha = request[q].sha /\ ReportOf[r.sha] = path
  BY <1>1, <1>2
<1>6. \A p \in Requests : RowOfOwn(p)'
  <2>1. RowOfOwn(q)'
    BY <1>1, <1>3, <1>4, <1>5 DEF RowOfOwn
  <2>2. ASSUME NEW p \in Requests, p # q PROVE RowOfOwn(p)'
    BY <1>1, <1>3, <1>4, <2>2 DEF IndInv, RowOfOwn
  <2> QED BY <2>1, <2>2
<1>7. ASSUME NEW p \in DOMAIN files, p # path PROVE FileInv(p)'
  <2>1. q # files[p].last
    BY <1>1, <1>7 DEF IndInv, FileInv, LastWriter
  <2> QED BY <1>1, <1>2, <1>3, <1>5, <1>7, <2>1, OtherFileStays
<1>8. FileInv(path)'
  <2>1. file \in File /\ file.last = q /\ file.texts = {}
    BY <1>2 DEF File
  <2>2. ASSUME file.sole, NEW p \in Requests, IsOpened(p, path)'
        PROVE  p = q
    <3>1. Opened(path) = {}
      BY <1>2, <2>2
    <3>2. p # q => IsOpened(p, path)
      BY <1>4, <2>2 DEF IsOpened, Report
    <3> QED BY <3>1, <3>2 DEF Opened, IsOpened
  <2>3. Report(q)' = path
    BY <1>4, <1>5 DEF Report
  <2>4. LastWriter(path)'
    BY <1>3, <1>4, <1>5, <2>1, <2>2, <2>3 DEF LastWriter
  <2> QED BY <1>3, <2>1, <2>4 DEF FileInv
<1> QED BY <1>3, <1>4, <1>6, <1>7, <1>8 DEF IndInv

\* How q leaves its file: with these texts, none of them new but its own.
Leaves(q, texts, answered) ==
    /\ files' = [files EXCEPT ![Report(q)].texts = texts]
    /\ texts \subseteq files[Report(q)].texts \cup {q}
    /\ answered /\ files[Report(q)].texts = {} => texts = {q}

\* A request that is through with its file leaves in it, besides what was there,
\* nothing but its own text, and nothing but that if it was alone and is answered.
LEMMA ClosedKeeps ==
  ASSUME IndInv, NEW q \in Requests, request[q].pc = "opened", rows' = rows,
         NEW r, r.pc \in {"done", "failed"}, Go(q, r),
         NEW texts, Leaves(q, texts, r.pc = "done")
  PROVE  IndInv'
<1>1. /\ q \in DOMAIN rows /\ rows[q].sha = request[q].sha
      /\ ReportOf[rows[q].sha] \in DOMAIN files /\ DOMAIN request = Requests
  BY DEF IndInv, RowOfOwn
<1>2. PICK path \in DOMAIN files : path = Report(q) /\ path = ReportOf[rows[q].sha]
  BY <1>1 DEF Report
<1>3. FileInv(path)
  BY DEF IndInv
<1>4. PICK file \in File : file = files[path]
  BY <1>3 DEF FileInv
<1>5. PICK then : then = [file EXCEPT !.texts = texts]
  OBVIOUS
<1>6. /\ DOMAIN files' = DOMAIN files /\ files'[path] = then
      /\ \A p \in DOMAIN files : p # path => files'[p] = files[p]
  BY <1>2, <1>4, <1>5 DEF Leaves
<1>7. then = [texts |-> texts, last |-> file.last, sole |-> file.sole]
  BY <1>4, <1>5 DEF File
<1>8. /\ then \in File /\ then.texts = texts
      /\ then.last = file.last /\ then.sole = file.sole /\ file.last \in Requests
  BY <1>2, <1>4, <1>7 DEF File, Leaves
<1>9. /\ DOMAIN request' = Requests /\ request'[q] = r
      /\ \A p \in Requests : p # q => request'[p] = request[p]
  BY <1>1, GoKeeps
<1>10. \A p \in Requests : RowOfOwn(p)'
  <2>1. RowOfOwn(q)'
    BY <1>1, <1>6, <1>9 DEF RowOfOwn
  <2>2. ASSUME NEW p \in Requests, p # q PROVE RowOfOwn(p)'
    BY <1>6, <1>9, <2>2 DEF IndInv, RowOfOwn
  <2> QED BY <2>1, <2>2
<1>11. ASSUME NEW p \in DOMAIN files, p # path PROVE FileInv(p)'
  <2>1. q # files[p].last
    <3>1. LastWriter(p) /\ Report(q) # p
      BY <1>2, <1>11 DEF IndInv, FileInv
    <3> QED BY <3>1 DEF LastWriter
  <2> QED BY <1>6, <1>11, <2>1, OtherFileStays
<1>12. FileInv(path)'
  <2>1. IsOpened(q, path)
    BY <1>2 DEF IsOpened
  <2>2. /\ request[file.last].pc \in {"opened", "done", "failed"}
        /\ request[file.last].pc = "opened" => Report(file.last) = path
        /\ file.sole => q = file.last /\ file.texts = {}
        /\ file.sole => \A p \in Requests : IsOpened(p, path) => p = file.last
    BY <1>3, <1>4, <2>1 DEF FileInv, LastWriter
  <2>3. file.sole => \A p \in Requests : ~IsOpened(p, path)'
    <3> SUFFICES ASSUME file.sole, NEW p \in Requests, IsOpened(p, path)' PROVE FALSE
      OBVIOUS
    <3>1. p # q
      BY <1>9 DEF IsOpened
    <3>2. IsOpened(p, path)
      BY <1>9, <3>1 DEF IsOpened, Report
    <3> QED BY <2>2, <3>1, <3>2
  <2>4. LastWriter(path)'
    <3>1. CASE file.last = q
      <4>1. request'[file.last].pc \in {"done", "failed"}
        BY <1>9, <3>1
      <4>2. file.sole /\ request'[file.last].pc = "done" => texts = {file.last}
        BY <1>2, <1>4, <1>9, <2>2, <3>1 DEF Leaves
      <4> QED BY <1>6, <1>8, <2>3, <4>1, <4>2 DEF LastWriter
    <3>2. CASE file.last # q
      <4>1. ~file.sole /\ request'[file.last] = request[file.last]
        BY <1>8, <1>9, <2>2, <3>2
      <4>2. Report(file.last)' = Report(file.last)
        BY <4>1 DEF Report
      <4> QED BY <1>6, <1>8, <2>2, <4>1, <4>2 DEF LastWriter
    <3> QED BY <3>1, <3>2
  <2>5. \A p \in texts : p \in DOMAIN rows /\ ReportOf[rows[p].sha] = path
    BY <1>1, <1>2, <1>3 DEF FileInv, Leaves
  <2> QED BY <1>6, <1>8, <2>4, <2>5 DEF FileInv
<1> QED BY <1>6, <1>9, <1>10, <1>11, <1>12 DEF IndInv

\* The file of a commit goes to the row of that commit.
LEMMA WriteReportKeeps ==
  ASSUME IndInv, NEW q \in Requests, WriteReport(q)
  PROVE  IndInv'
<1>1. PICK rest \in {{}, files[Report(q)].texts} :
         files' = [files EXCEPT ![Report(q)].texts = rest \cup {q}]
  BY DEF WriteReport
<1>2. PICK texts, r : texts = rest \cup {q} /\ r = [pc |-> "done"]
  OBVIOUS
<1>3. request[q].pc = "opened" /\ rows' = rows /\ Go(q, r)
  BY <1>2 DEF WriteReport
<1>4. r.pc \in {"done", "failed"}
  BY <1>2
<1>5. Leaves(q, texts, r.pc = "done")
  BY <1>1, <1>2 DEF Leaves
<1> QED BY <1>3, <1>4, <1>5, ClosedKeeps

\* A write that fails may leave a part of its text.
LEMMA FailToWriteKeeps ==
  ASSUME IndInv, NEW q \in Requests, FailToWrite(q)
  PROVE  IndInv'
<1>1. PICK rest \in {{}, files[Report(q)].texts} :
         \E texts \in {files[Report(q)].texts, rest \cup {q}} :
             files' = [files EXCEPT ![Report(q)].texts = texts]
  BY DEF FailToWrite
<1>2. PICK texts \in {files[Report(q)].texts, rest \cup {q}} :
         files' = [files EXCEPT ![Report(q)].texts = texts]
  BY <1>1
<1>3. PICK r : r = [pc |-> "failed"]
  OBVIOUS
<1>4. request[q].pc = "opened" /\ rows' = rows /\ Go(q, r)
  BY <1>3 DEF FailToWrite
<1>5. r.pc \in {"done", "failed"} /\ r.pc # "done"
  BY <1>3
<1>6. Leaves(q, texts, r.pc = "done")
  BY <1>1, <1>2, <1>5 DEF Leaves
<1> QED BY <1>4, <1>5, <1>6, ClosedKeeps

\* An earlier failure leaves the table and the files as they are.
LEMMA FailKeeps ==
  ASSUME IndInv, NEW q \in Requests, Fail(q)
  PROVE  IndInv'
<1>1. /\ DOMAIN request = Requests /\ rows' = rows /\ files' = files
      /\ request[q].pc \in {"measured", "committed"}
  BY DEF IndInv, Fail
<1>2. PICK r : r = [pc |-> "failed"] /\ Go(q, r)
  BY DEF Fail
<1>3. /\ DOMAIN request' = Requests /\ request'[q] = r /\ r.pc = "failed"
      /\ \A p \in Requests : p # q => request'[p] = request[p]
  BY <1>1, <1>2, GoKeeps
<1>4. \A p \in Requests : RowOfOwn(p)'
  BY <1>1, <1>3 DEF IndInv, RowOfOwn
<1>5. \A path \in DOMAIN files' : FileInv(path)'
  BY <1>1, <1>2, <1>3, FilesStay
<1> QED BY <1>3, <1>4, <1>5 DEF IndInv

LEMMA IndStep == IndInv /\ [Next]_vars => IndInv'
<1> SUFFICES ASSUME IndInv, [Next]_vars PROVE IndInv'
  OBVIOUS
<1>1. ASSUME NEW q \in Requests, NEW sha \in Shas, NEW plan \in Plans,
             NEW inputs \in Inputs, Measure(q, sha, plan, inputs)
      PROVE  IndInv'
  BY <1>1, MeasureKeeps
<1>2. ASSUME NEW q \in Requests, Commit(q) PROVE IndInv'
  BY <1>2, CommitKeeps
<1>3. ASSUME NEW q \in Requests, OpenReport(q) PROVE IndInv'
  BY <1>3, OpenReportKeeps
<1>4. ASSUME NEW q \in Requests, WriteReport(q) PROVE IndInv'
  BY <1>4, WriteReportKeeps
<1>5. ASSUME NEW q \in Requests, Fail(q) PROVE IndInv'
  BY <1>5, FailKeeps
<1>6. ASSUME NEW q \in Requests, FailToWrite(q) PROVE IndInv'
  BY <1>6, FailToWriteKeeps
<1>7. CASE UNCHANGED vars
  BY <1>7 DEF vars, IndInv, RowOfOwn, FileInv, LastWriter, IsOpened, Report
<1> QED BY <1>1, <1>2, <1>3, <1>4, <1>5, <1>6, <1>7 DEF Next

-----------------------------------------------------------------------------
(* Numbers and sets.                                                       *)

\* A set of natural numbers has a least one.
LEMMA LeastNumber ==
  ASSUME NEW N, N \subseteq Nat, N # {}
  PROVE  \E m \in N : \A n \in N : m <= n
<1>1. PICK x \in N, D \in {0 .. y : y \in N} : D = 0 .. x
  OBVIOUS
<1> DEFINE C == {0 .. n : n \in {n \in N : n <= x}}
<1>2. IsFiniteSet(D) /\ FiniteSubsetsOf(D) = SUBSET D
  <2>1. 0 \in Int /\ x \in Int
    BY <1>1
  <2>2. IsFiniteSet(D)
    BY <1>1, <2>1, FS_Interval
  <2> QED BY <2>2, FS_FiniteSubsetsOfFinite
<1>3. C \subseteq SUBSET D /\ C # {}
  BY <1>1
<1>4. PICK I \in C : \A J \in C : ~(<<J, I>> \in StrictSubsetOrdering(D))
  <2> HIDE DEF C
  <2> QED BY <1>2, <1>3, FS_StrictSubsetOrderingWellFounded, WFMin
<1>5. PICK m \in N : m <= x /\ I = 0 .. m
  BY <1>4
<1>6. ASSUME NEW n \in N, n < m
      PROVE  FALSE
  <2>1. 0 .. n \in C /\ 0 .. n \subseteq I /\ I \in SUBSET D
    BY <1>1, <1>5, <1>6
  <2>2. m \in I /\ m \notin 0 .. n
    BY <1>5, <1>6
  <2> QED BY <1>4, <1>3, <2>1, <2>2 DEF StrictSubsetOrdering
<1> QED BY <1>5, <1>6

\* Min finds it.
LEMMA MinIsLeast ==
  ASSUME NEW N, N \subseteq Nat, N # {}
  PROVE  Min(N) \in N /\ \A n \in N : Min(N) <= n
<1>1. \E m \in N : \A n \in N : m <= n
  BY LeastNumber
<1> QED BY <1>1 DEF Min

\* Products grow with their factors.
LEMMA ProductsGrow ==
  ASSUME NEW a \in Nat, NEW b \in Nat, NEW c \in Nat, a <= b
  PROVE  a * c \in Nat /\ b * c \in Nat /\ a * c <= b * c
<1>1. PICK d \in Nat : b = a + d
  <2>1. b - a \in Nat /\ b = a + (b - a)
    OBVIOUS
  <2> QED BY <2>1
<1>2. b * c = a * c + d * c
  BY <1>1
<1>3. a * c \in Nat /\ d * c \in Nat
  OBVIOUS
<1> QED BY <1>2, <1>3

-----------------------------------------------------------------------------
(* What a verdict owes to the detector.                                    *)

\* Who flags no labelled reading that the other misses, and flags every
\* unlabelled one that the other flags, has no better F1.
LEMMA NoBetterF1 ==
  ASSUME NEW T, NEW B, NEW L, IsFiniteSet(T), IsFiniteSet(B), IsFiniteSet(L),
         T \cap L \subseteq B, B \ L \subseteq T
  PROVE  ~ Above(F1(T, L), F1(B, L))
<1>1. PICK a \in Nat, b \in Nat, f \in Nat, g \in Nat, l \in Nat, t \in Nat, u \in Nat :
        /\ a = Cardinality(T \cap L) /\ f = Cardinality(T \ L) /\ t = Cardinality(T)
        /\ b = Cardinality(B \cap L) /\ g = Cardinality(B \ L) /\ u = Cardinality(B)
        /\ l = Cardinality(L)
        /\ t = a + f /\ u = b + g
        /\ a <= b /\ g <= f
  <2>1. /\ IsFiniteSet(T \cap L) /\ IsFiniteSet(B \cap L)
        /\ IsFiniteSet(T \ L) /\ IsFiniteSet(B \ L)
        /\ Cardinality(T \ L) = Cardinality(T) - Cardinality(T \cap L)
        /\ Cardinality(B \ L) = Cardinality(B) - Cardinality(B \cap L)
    <3>1. T \cap L \in SUBSET T /\ B \cap L \in SUBSET B
      OBVIOUS
    <3> QED BY <3>1, FS_Difference, FS_Subset
  <2>2. Cardinality(T \cap L) <= Cardinality(B \cap L)
    <3>1. T \cap L \in SUBSET (B \cap L)
      OBVIOUS
    <3> QED BY <2>1, <3>1, FS_Subset
  <2>3. Cardinality(B \ L) <= Cardinality(T \ L)
    <3>1. B \ L \in SUBSET (T \ L)
      OBVIOUS
    <3> QED BY <2>1, <3>1, FS_Subset
  <2>4. /\ Cardinality(T \cap L) \in Nat /\ Cardinality(B \cap L) \in Nat
        /\ Cardinality(T \ L) \in Nat /\ Cardinality(B \ L) \in Nat
        /\ Cardinality(T) \in Nat /\ Cardinality(B) \in Nat /\ Cardinality(L) \in Nat
    BY <2>1, FS_CardinalityType
  <2>5. /\ Cardinality(T) = Cardinality(T \cap L) + Cardinality(T \ L)
        /\ Cardinality(B) = Cardinality(B \cap L) + Cardinality(B \ L)
    BY <2>1, <2>4
  <2> QED BY <2>2, <2>3, <2>4, <2>5
<1>2. CASE a = 0
  <2>1. F1(T, L) = [num |-> 0, den |-> 1]
    BY <1>1, <1>2 DEF F1
  <2>2. PICK x \in Nat, y \in Nat : F1(B, L) = [num |-> x, den |-> y]
    <3>1. CASE b = 0
      BY <1>1, <3>1 DEF F1
    <3>2. CASE b # 0
      <4>1. F1(B, L) = [num |-> 2 * b * b, den |-> b * l + b * u]
        BY <1>1, <3>2 DEF F1
      <4>2. 2 * b * b \in Nat /\ b * l + b * u \in Nat
        OBVIOUS
      <4> QED BY <4>1, <4>2
    <3> QED BY <3>1, <3>2
  <2> QED BY <2>1, <2>2 DEF Above
<1>3. CASE a # 0
  <2>1. b # 0
    BY <1>1, <1>3
  <2>2. /\ F1(T, L) = [num |-> 2 * a * a, den |-> a * l + a * t]
        /\ F1(B, L) = [num |-> 2 * b * b, den |-> b * l + b * u]
    BY <1>1, <1>3, <2>1 DEF F1
  <2>3. PICK c \in Nat : c = a * b
    BY <1>1
  <2>4. PICK p \in Nat, q \in Nat : p = a * (l + u) /\ q = b * (l + t) /\ p <= q
    <3>1. a * l <= b * l /\ a * l \in Nat /\ b * l \in Nat
      BY <1>1, ProductsGrow
    <3>2. a * g \in Nat /\ b * g \in Nat /\ b * f \in Nat /\ a * g <= b * f
      <4>1. a * g <= b * g /\ b * g \in Nat /\ a * g \in Nat
        BY <1>1, ProductsGrow
      <4>2. g * b <= f * b /\ g * b \in Nat /\ f * b \in Nat
        BY <1>1, ProductsGrow
      <4>3. g * b = b * g /\ f * b = b * f
        OBVIOUS
      <4> QED BY <4>1, <4>2, <4>3
    <3>3. a * (l + u) = a * l + a * b + a * g /\ b * (l + t) = b * l + a * b + b * f
      BY <1>1
    <3>4. a * b \in Nat
      OBVIOUS
    <3>5. a * (l + u) \in Nat /\ b * (l + t) \in Nat /\ a * (l + u) <= b * (l + t)
      BY <3>1, <3>2, <3>3, <3>4
    <3> QED BY <3>5
  <2>5. /\ (2 * a * a) * (b * l + b * u) = 2 * (p * c)
        /\ (2 * b * b) * (a * l + a * t) = 2 * (q * c)
    BY <2>3, <2>4
  <2>6. p * c \in Nat /\ q * c \in Nat /\ p * c <= q * c
    BY <2>4, ProductsGrow
  <2>7. ~ (2 * (p * c) > 2 * (q * c))
    BY <2>6
  <2> QED BY <2>2, <2>5, <2>7 DEF Above
<1> QED BY <1>2, <1>3

\* The series with the decay in it is as long as the one without.
LEMMA DecayedLength ==
  ASSUME NEW series \in Seq(Int)
  PROVE  Len(series) \in Nat /\ Len(Decayed(series)) = Len(series)
<1>1. PICK n \in Nat : n = Len(series)
  OBVIOUS
<1>2. DOMAIN Decayed(series) = 1 .. n /\ Decayed(series) = [i \in 1 .. n |-> Decayed(series)[i]]
  BY <1>1 DEF Decayed
<1>3. PICK S : S = {Decayed(series)[i] : i \in 1 .. n}
  OBVIOUS
<1>4. PICK d : d = Decayed(series)
  OBVIOUS
<1>5. d \in [1 .. n -> S]
  BY <1>2, <1>3, <1>4
<1>6. d \in Seq(S)
  BY <1>5
<1>7. Len(d) = n
  BY <1>5, <1>6
<1> QED BY <1>1, <1>4, <1>7

\* Labels, flags and alerts are sets of readings.
LEMMA SetsOfReadings ==
  ASSUME NEW series \in Seq(Int)
  PROVE  /\ IsFiniteSet(Labels(Len(series))) /\ Labels(Len(series)) \subseteq Nat
         /\ IsFiniteSet(Timeline(Decayed(series))) /\ Timeline(Decayed(series)) \subseteq Nat
         /\ IsFiniteSet(Baseline(Decayed(series)))
<1>1. PICK n \in Nat : n = Len(series) /\ n = Len(Decayed(series))
  BY DecayedLength
<1>0. PICK D : D = 1 .. n
  OBVIOUS
<1>2. IsFiniteSet(D) /\ D \subseteq Nat
  <2>1. 1 \in Int /\ n \in Int
    OBVIOUS
  <2>2. IsFiniteSet(1 .. n)
    BY <2>1, FS_Interval
  <2> QED BY <1>0, <2>2
<1>3. /\ Labels(Len(series)) \in SUBSET D
      /\ Timeline(Decayed(series)) \in SUBSET D
      /\ Baseline(Decayed(series)) \in SUBSET D
  BY <1>0, <1>1 DEF Labels, Timeline, Baseline
<1> QED BY <1>2, <1>3, FS_Subset

\* A lead of a reading or more is a warning before every low labelled reading.
LEMMA LeadIsAWarning ==
  ASSUME NEW series, NEW labels, labels \subseteq Nat, Timeline(series) \subseteq Nat,
         Lead(series, labels) >= 1
  PROVE  \E i \in Timeline(series) : \A j \in labels : series[j] < WatchLevel => i < j
<1>1. PICK early : early = {i \in Timeline(series) : labels # {} /\ i <= Event(series, labels)}
  OBVIOUS
<1>2. early # {} /\ labels # {} /\ Event(series, labels) - Min(early) >= 1
  BY <1>1 DEF Lead
<1>3. PICK first \in early : first = Min(early)
  BY <1>1, <1>2, MinIsLeast
<1>4. PICK low : low = {j \in labels : series[j] < WatchLevel}
  OBVIOUS
<1>5. CASE low = {}
  <2>1. \A j \in labels : ~(series[j] < WatchLevel)
    BY <1>4, <1>5
  <2> QED BY <1>1, <1>3, <2>1
<1>6. CASE low # {}
  <2>1. low \subseteq Nat
    BY <1>4
  <2>2. PICK event \in Nat : event = Min(low) /\ \A j \in low : event <= j
    BY <1>6, <2>1, MinIsLeast
  <2>3. Event(series, labels) = event
    BY <1>4, <1>6, <2>2 DEF Event
  <2>4. first \in Nat /\ first \in Timeline(series) /\ first < event
    BY <1>1, <1>2, <1>3, <2>2, <2>3
  <2>5. ASSUME NEW j \in labels, series[j] < WatchLevel
        PROVE  first < j
    BY <1>4, <2>1, <2>2, <2>4, <2>5
  <2> QED BY <2>4, <2>5
<1> QED BY <1>5, <1>6

-----------------------------------------------------------------------------
(* Verdicts, from the measurement to the record.                           *)

Criteria == {"c1", "c2", "c3", "c4", "c5", "c6"}

\* The six verdicts v are owed to the detector.
Owed(v) ==
    LET series == Decayed(truth)
        labels == Labels(Len(truth))
        heard == Timeline(series)
    IN /\ v.c1 =>
            \/ labels \cap (heard \ Baseline(series)) # {}
            \/ (Baseline(series) \ heard) \ labels # {}
       /\ v.c2 => \E i \in heard : \A j \in labels : series[j] < WatchLevel => i < j

Holds(v) == v \in [Criteria -> BOOLEAN] /\ Owed(v)

\* What build_metrics measures is owed to the detector.
LEMMA VerdictsHold ==
  ASSUME truth \in Series, NEW plan, NEW inputs
  PROVE  Holds(Verdicts(plan, inputs))
<1>1. PICK series, labels : series = Decayed(truth) /\ labels = Labels(Len(truth))
  OBVIOUS
<1>2. /\ IsFiniteSet(labels) /\ labels \subseteq Nat
      /\ IsFiniteSet(Timeline(series)) /\ Timeline(series) \subseteq Nat
      /\ IsFiniteSet(Baseline(series))
  BY <1>1, SetsOfReadings, SeriesAssumption
<1>3. PICK m : m = IF plan = NoPlan THEN [km |-> 0, baseline |-> 0, ms |-> 0, missed |-> 0]
                   ELSE plan
  OBVIOUS
<1>4. PICK c1 \in BOOLEAN : c1 = C1(series, labels)
  <2>1. C1(series, labels) \in BOOLEAN
    BY DEF C1, Above
  <2> QED BY <2>1
<1>5. PICK c2 \in BOOLEAN : c2 = C2(series, labels)
  <2>1. C2(series, labels) \in BOOLEAN
    BY DEF C2
  <2> QED BY <2>1
<1>6. PICK c3 \in BOOLEAN : c3 = (m.missed = 0)
  <2>1. (m.missed = 0) \in BOOLEAN
    OBVIOUS
  <2> QED BY <2>1
<1>7. PICK c4 \in BOOLEAN : c4 = C4(m)
  <2>1. C4(m) \in BOOLEAN
    BY DEF C4
  <2> QED BY <2>1
<1>8. PICK c5 \in BOOLEAN : c5 = (inputs.p95 > 0 /\ inputs.p95 < 300)
  <2>1. (inputs.p95 > 0 /\ inputs.p95 < 300) \in BOOLEAN
    OBVIOUS
  <2> QED BY <2>1
<1>9. PICK c6 \in BOOLEAN : c6 = (inputs.coverage >= 70)
  <2>1. (inputs.coverage >= 70) \in BOOLEAN
    OBVIOUS
  <2> QED BY <2>1
<1>10. PICK v : v = [c1 |-> c1, c2 |-> c2, c3 |-> c3, c4 |-> c4, c5 |-> c5, c6 |-> c6]
  OBVIOUS
<1>11. Verdicts(plan, inputs) = v
  BY <1>1, <1>3, <1>4, <1>5, <1>6, <1>7, <1>8, <1>9, <1>10 DEF Verdicts
<1>12. v \in [Criteria -> BOOLEAN] /\ v.c1 = c1 /\ v.c2 = c2
  BY <1>10 DEF Criteria
<1>13. ASSUME c1 = TRUE
      PROVE  \/ labels \cap (Timeline(series) \ Baseline(series)) # {}
             \/ (Baseline(series) \ Timeline(series)) \ labels # {}
  <2>1. Above(F1(Timeline(series), labels), F1(Baseline(series), labels))
    BY <1>4, <1>13 DEF C1
  <2>2. ~(Timeline(series) \cap labels \subseteq Baseline(series)
          /\ Baseline(series) \ labels \subseteq Timeline(series))
    BY <1>2, <2>1, NoBetterF1
  <2> QED BY <2>2
<1>14. ASSUME c2 = TRUE
      PROVE  \E i \in Timeline(series) : \A j \in labels : series[j] < WatchLevel => i < j
  <2>1. Lead(series, labels) >= 1
    BY <1>5, <1>14 DEF C2
  <2> QED BY <1>2, <2>1, LeadIsAWarning
<1>15. Owed(v)
  BY <1>1, <1>12, <1>13, <1>14 DEF Owed
<1> QED BY <1>11, <1>12, <1>15 DEF Holds

\* What is measured stays on its way to the record, and on it.
Held(q) ==
    /\ request[q].pc \in {"new", "measured", "committed", "opened", "done", "failed"}
    /\ request[q].pc \in {"measured", "committed", "opened"} => request[q].sha \in Shas
    /\ request[q].pc = "measured" => Holds(request[q].verdicts)

OnRecord(q) == q \in Requests /\ rows[q] \in Row /\ Holds(rows[q].verdicts)

HeldInv ==
    /\ truth \in Series /\ odd \subseteq Nat
    /\ DOMAIN files \subseteq Range(ReportOf)
    /\ \A q \in Requests : Held(q)
    /\ \A q \in DOMAIN rows : OnRecord(q)

LEMMA HeldInit == Init => HeldInv
<1> SUFFICES ASSUME Init PROVE HeldInv
  OBVIOUS
<1>1. truth \in Series /\ DOMAIN rows = {} /\ DOMAIN files = {}
  BY DEF Init
<1>2. \A q \in Requests : request[q].pc = "new"
  BY DEF Init
<1>3. odd \subseteq Nat
  <2>1. odd \subseteq MinReadings .. Len(truth)
    BY DEF Init
  <2>2. PICK n \in Nat, m \in Nat : n = Len(truth) /\ m = MinReadings
    BY <1>1, SeriesAssumption, DetectorAssumption
  <2> QED BY <2>1, <2>2
<1> QED BY <1>1, <1>2, <1>3 DEF HeldInv, Held

\* The simulation and the answers of the forest are the same for all requests.
LEMMA OwedStays ==
  ASSUME NEW v, Holds(v), truth' = truth, odd' = odd
  PROVE  Holds(v)'
  BY DEF Holds, Owed, Timeline

LEMMA HeldStays ==
  ASSUME NEW q, Held(q), truth' = truth, odd' = odd, request'[q] = request[q]
  PROVE  Held(q)'
  BY DEF Held, Holds, Owed, Timeline

LEMMA RecordStays ==
  ASSUME NEW q, OnRecord(q), truth' = truth, odd' = odd, rows'[q] = rows[q]
  PROVE  OnRecord(q)'
  BY DEF OnRecord, Holds, Owed, Timeline

\* A step of request q that leaves the record of the others alone.
LEMMA HeldKeeps ==
  ASSUME IndInv, HeldInv, truth' = truth, odd' = odd, NEW q \in Requests, NEW r, Go(q, r),
         DOMAIN files' \subseteq Range(ReportOf), Held(q)',
         \A p \in DOMAIN rows' : p = q \/ (p \in DOMAIN rows /\ rows'[p] = rows[p]),
         q \in DOMAIN rows' => OnRecord(q)'
  PROVE  HeldInv'
<1>1. DOMAIN request' = Requests /\ \A p \in Requests : p # q => request'[p] = request[p]
  BY GoKeeps DEF IndInv
<1>2. ASSUME NEW p \in Requests, p # q PROVE Held(p)'
  BY <1>1, <1>2, HeldStays DEF HeldInv
<1>3. ASSUME NEW p \in DOMAIN rows', p # q PROVE OnRecord(p)'
  BY <1>3, RecordStays DEF HeldInv
<1> QED BY <1>2, <1>3 DEF HeldInv

LEMMA HeldStep == IndInv /\ HeldInv /\ [Next]_vars => HeldInv'
<1> SUFFICES ASSUME IndInv, HeldInv, [Next]_vars PROVE HeldInv'
  OBVIOUS
<1>0. truth' = truth /\ odd' = odd /\ DOMAIN request = Requests
  BY DEF IndInv, Next, Measure, Commit, OpenReport, Open, WriteReport, Fail,
     FailToWrite, vars
<1>1. ASSUME NEW q \in Requests, NEW sha \in Shas, NEW plan \in Plans,
             NEW inputs \in Inputs, Measure(q, sha, plan, inputs)
      PROVE  HeldInv'
  <2>1. PICK v : v = Verdicts(plan, inputs)
    OBVIOUS
  <2>2. Holds(v)'
    BY <1>0, <2>1, VerdictsHold, OwedStays DEF HeldInv
  <2>3. PICK r : r = [pc |-> "measured", sha |-> sha, verdicts |-> v]
    OBVIOUS
  <2>4. Go(q, r) /\ rows' = rows /\ files' = files /\ q \notin DOMAIN rows
    BY <1>1, <2>1, <2>3 DEF Measure, IndInv, RowOfOwn
  <2>5. request'[q] = r
    BY <1>0, <2>4, GoKeeps
  <2>6. Held(q)'
    BY <2>2, <2>3, <2>5 DEF Held
  <2> QED BY <1>0, <2>4, <2>6, HeldKeeps DEF HeldInv
<1>2. ASSUME NEW q \in Requests, Commit(q) PROVE HeldInv'
  <2>1. /\ request[q].pc = "measured" /\ Held(q) /\ {"pc", "sha"} \subseteq DOMAIN request[q]
        /\ q \notin DOMAIN rows
    BY <1>2 DEF Commit, HeldInv, IndInv, RowOfOwn
  <2>2. PICK sha, v : /\ sha \in Shas /\ sha = request[q].sha
                      /\ v = request[q].verdicts /\ Holds(v)
    BY <2>1 DEF Held
  <2>3. PICK row : row = [sha |-> sha, verdicts |-> v]
    OBVIOUS
  <2>4. PICK r : r = [request[q] EXCEPT !.pc = "committed"]
    OBVIOUS
  <2>5. Go(q, r) /\ rows' = Put(rows, q, row) /\ files' = files
    BY <1>2, <2>2, <2>3, <2>4 DEF Commit
  <2>6. r.pc = "committed" /\ r.sha = sha
    BY <2>1, <2>2, <2>4
  <2>7. request'[q] = r
    BY <1>0, <2>5, GoKeeps
  <2>8. Held(q)'
    BY <2>2, <2>6, <2>7 DEF Held
  <2>9. /\ DOMAIN rows' = DOMAIN rows \cup {q} /\ rows'[q] = row
        /\ \A p \in DOMAIN rows : rows'[p] = rows[p]
    BY <2>1, <2>5 DEF Put
  <2>10. OnRecord(q)'
    <3>1. Holds(v)'
      BY <1>0, <2>2, OwedStays
    <3>2. row \in Row /\ row.verdicts = v
      BY <2>2, <2>3 DEF Row, Holds, Criteria
    <3> QED BY <2>9, <3>1, <3>2 DEF OnRecord
  <2> QED BY <1>0, <2>5, <2>8, <2>9, <2>10, HeldKeeps DEF HeldInv
<1>3. ASSUME NEW q \in Requests, WriteReport(q) \/ FailToWrite(q) PROVE HeldInv'
  <2>1. PICK r : r \in {[pc |-> "done"], [pc |-> "failed"]} /\ Go(q, r)
    BY <1>3 DEF WriteReport, FailToWrite
  <2>2. rows' = rows /\ DOMAIN files' = DOMAIN files
    BY <1>3 DEF WriteReport, FailToWrite
  <2>3. request'[q] = r
    BY <1>0, <2>1, GoKeeps
  <2>4. Held(q)'
    BY <2>1, <2>3 DEF Held
  <2>5. q \in DOMAIN rows' => OnRecord(q)'
    BY <1>0, <2>2, RecordStays DEF HeldInv
  <2> QED BY <1>0, <2>1, <2>2, <2>4, <2>5, HeldKeeps DEF HeldInv
<1>4. ASSUME NEW q \in Requests, Fail(q) PROVE HeldInv'
  <2>1. PICK r : r = [pc |-> "failed"]
    OBVIOUS
  <2>2. Go(q, r) /\ rows' = rows /\ files' = files
    BY <1>4, <2>1 DEF Fail
  <2>3. request'[q] = r
    BY <1>0, <2>2, GoKeeps
  <2>4. Held(q)'
    BY <2>1, <2>3 DEF Held
  <2>5. q \in DOMAIN rows' => OnRecord(q)'
    BY <1>0, <2>2, RecordStays DEF HeldInv
  <2> QED BY <1>0, <2>2, <2>4, <2>5, HeldKeeps DEF HeldInv
<1>5. ASSUME NEW q \in Requests, OpenReport(q) PROVE HeldInv'
  <2>1. request[q].pc = "committed" /\ Held(q)
    BY <1>5 DEF OpenReport, HeldInv
  <2>2. PICK sha \in Shas : sha = request[q].sha
    BY <2>1 DEF Held
  <2>3. PICK path \in Range(ReportOf) : path = Report(q)
    BY <2>2 DEF Report, Shas, Range
  <2>4. PICK r, file : /\ r = [pc |-> "opened", sha |-> sha] /\ Go(q, r)
                       /\ rows' = rows /\ files' = Put(files, path, file)
    BY <1>5, <2>2, <2>3 DEF OpenReport, Open
  <2>5. DOMAIN files' \subseteq Range(ReportOf)
    BY <2>3, <2>4 DEF Put, HeldInv
  <2>6. request'[q] = r
    BY <1>0, <2>4, GoKeeps
  <2>7. Held(q)'
    BY <2>2, <2>4, <2>6 DEF Held
  <2>8. q \in DOMAIN rows' => OnRecord(q)'
    BY <1>0, <2>4, RecordStays DEF HeldInv
  <2> QED BY <1>0, <2>4, <2>5, <2>7, <2>8, HeldKeeps
<1>6. CASE UNCHANGED vars
  <2>1. request' = request /\ rows' = rows /\ files' = files
    BY <1>6 DEF vars
  <2>2. \A q \in Requests : Held(q)'
    BY <1>0, <2>1, HeldStays DEF HeldInv
  <2>3. \A q \in DOMAIN rows : OnRecord(q)'
    BY <1>0, <2>1, RecordStays DEF HeldInv
  <2> QED BY <1>0, <2>1, <2>2, <2>3 DEF HeldInv
<1> QED BY <1>1, <1>2, <1>3, <1>4, <1>5, <1>6 DEF Next

-----------------------------------------------------------------------------
(* Induction.  A set of numbers has a least one, a set of finite sets one  *)
(* that contains no other: a statement that fails would fail there first.  *)

\* A set of subsets of a finite set has a least one.
LEMMA LeastSubset ==
  ASSUME NEW S, IsFiniteSet(S), NEW C, C \subseteq SUBSET S, C # {}
  PROVE  \E T \in C : \A U \in C : U \subseteq T => U = T
<1>1. IsWellFoundedOn(StrictSubsetOrdering(S), FiniteSubsetsOf(S))
  BY FS_StrictSubsetOrderingWellFounded
<1>2. FiniteSubsetsOf(S) = SUBSET S
  BY FS_FiniteSubsetsOfFinite
<1>3. PICK T \in C : \A U \in C : ~(<<U, T>> \in StrictSubsetOrdering(S))
  BY <1>1, <1>2, WFMin
<1> QED BY <1>3 DEF StrictSubsetOrdering

LEMMA UpTo ==
  ASSUME NEW n \in Nat
  PROVE  IsFiniteSet(1 .. n) /\ Cardinality(1 .. n) = n
<1>1. 1 \in Int /\ n \in Int
  OBVIOUS
<1>2. IsFiniteSet(1 .. n) /\ Cardinality(1 .. n) = IF 1 > n THEN 0 ELSE n - 1 + 1
  BY <1>1, FS_Interval
<1> QED BY <1>2

\* A set of natural numbers that holds the number after each of its own holds
\* all from its first on.
LEMMA UpFrom ==
  ASSUME NEW S, NEW a \in Nat, a \in S, \A n \in Nat : n >= a /\ n \in S => n + 1 \in S
  PROVE  \A n \in Nat : n >= a => n \in S
<1> DEFINE N == {n \in Nat : n >= a /\ n \notin S}
<1> SUFFICES ASSUME N # {} PROVE FALSE
  OBVIOUS
<1>1. N \subseteq Nat
  OBVIOUS
<1>2. PICK m \in N : \A n \in N : m <= n
  <2> HIDE DEF N
  <2> QED BY <1>1, LeastNumber
<1>3. m \in Nat /\ m > a /\ m \notin S
  BY <1>2
<1>4. m - 1 \in Nat /\ m - 1 >= a /\ m - 1 \notin N
  BY <1>2, <1>3
<1>5. m - 1 \in S
  BY <1>4
<1> QED BY <1>3, <1>4, <1>5

-----------------------------------------------------------------------------
(* Totals.                                                                 *)

\* A set of places in a list has a last one.
LEMMA LatestOfPlaces ==
  ASSUME NEW n \in Nat, NEW T, T \subseteq 1 .. n, T # {}
  PROVE  Max(T) \in T /\ \A x \in T : Max(T) >= x
<1> DEFINE N == {n - x : x \in T}
<1>1. N \subseteq Nat /\ N # {}
  <2>1. \A x \in T : x \in 1 .. n /\ n - x \in Nat
    OBVIOUS
  <2> QED BY <2>1
<1>2. PICK d \in N : \A e \in N : d <= e
  <2> HIDE DEF N
  <2> QED BY <1>1, LeastNumber
<1>3. PICK x \in T : d = n - x
  BY <1>2
<1>4. ASSUME NEW y \in T PROVE x >= y
  <2>1. n - y \in N /\ n - x <= n - y
    BY <1>2, <1>3
  <2>2. x \in 1 .. n /\ y \in 1 .. n
    OBVIOUS
  <2> QED BY <2>1, <2>2
<1> QED BY <1>3, <1>4 DEF Max

ArePlaces(D) == \E n \in Nat : D \subseteq 1 .. n

LEMMA LatestIsIn ==
  ASSUME NEW D, ArePlaces(D), NEW T, T \subseteq D, T # {}
  PROVE  Max(T) \in T
  BY LatestOfPlaces DEF ArePlaces

LEMMA PlacesAreFinite == ASSUME NEW D, ArePlaces(D) PROVE IsFiniteSet(D)
  BY UpTo, FS_Subset DEF ArePlaces

LEMMA LastOfUpTo == ASSUME NEW n \in Nat, n > 0 PROVE Max(1 .. n) = n
<1>1. 1 .. n \subseteq 1 .. n /\ n \in 1 .. n
  OBVIOUS
<1>2. Max(1 .. n) \in 1 .. n /\ Max(1 .. n) >= n
  BY <1>1, LatestOfPlaces
<1> QED BY <1>2

\* The totals over sets of places, the latest place last.
IsTotal(g, s, D) ==
    g = [T \in SUBSET D |-> IF T = {} THEN 0 ELSE g[T \ {Max(T)}] + s[Max(T)]]

TheTotal(s, D) == CHOOSE g : IsTotal(g, s, D)

LEMMA TotalIsOfTheTotal ==
  ASSUME NEW s
  PROVE  Total(s) = TheTotal(s, DOMAIN s)[DOMAIN s]
  BY DEF Total, FoldLeft, MapThenFoldSet, TheTotal, IsTotal

LEMMA TotalsAgree ==
  ASSUME NEW s, NEW E, ArePlaces(E), NEW D \in SUBSET E,
         NEW g, NEW h, IsTotal(g, s, D), IsTotal(h, s, E)
  PROVE  \A T \in SUBSET D : g[T] = h[T]
<1> DEFINE C == {T \in SUBSET D : g[T] # h[T]}
<1> SUFFICES ASSUME C # {} PROVE FALSE
  OBVIOUS
<1>1. C \subseteq SUBSET D /\ IsFiniteSet(D)
  BY FS_Subset, PlacesAreFinite
<1>2. PICK T \in C : \A U \in C : U \subseteq T => U = T
  <2> HIDE DEF C
  <2> QED BY <1>1, LeastSubset
<1>3. T \in SUBSET D /\ T \in SUBSET E /\ g[T] # h[T]
  BY <1>2
<1>4. T # {}
  BY <1>3 DEF IsTotal
<1>5. PICK x \in T : x = Max(T)
  BY <1>3, <1>4, LatestIsIn
<1>6. T \ {x} \in SUBSET D /\ T \ {x} \notin C
  BY <1>2, <1>3
<1>7. g[T \ {x}] = h[T \ {x}]
  BY <1>6
<1>8. g[T] = g[T \ {x}] + s[x] /\ h[T] = h[T \ {x}] + s[x]
  BY <1>3, <1>4, <1>5 DEF IsTotal
<1> QED BY <1>3, <1>7, <1>8

LEMMA TotalExists ==
  ASSUME NEW s, NEW D, ArePlaces(D)
  PROVE  IsTotal(TheTotal(s, D), s, D)
<1> DEFINE C == {T \in SUBSET D : ~ \E g : IsTotal(g, s, T)}
<1> SUFFICES ASSUME C # {} PROVE FALSE
  BY DEF TheTotal
<1>1. C \subseteq SUBSET D /\ IsFiniteSet(D)
  BY FS_Subset, PlacesAreFinite
<1>2. PICK T \in C : \A U \in C : U \subseteq T => U = T
  <2> HIDE DEF C
  <2> QED BY <1>1, LeastSubset
<1>3. T \subseteq D /\ ~ \E g : IsTotal(g, s, T)
  BY <1>2
<1>4. \A U \in SUBSET T : U # T => IsTotal(TheTotal(s, U), s, U)
  <2> SUFFICES ASSUME NEW U \in SUBSET T, U # T PROVE IsTotal(TheTotal(s, U), s, U)
    OBVIOUS
  <2>1. \E g : IsTotal(g, s, U)
    BY <1>2, <1>3
  <2> QED BY <2>1 DEF TheTotal
<1>5. PICK g : g = [U \in SUBSET T |-> IF U = {} THEN 0
                     ELSE TheTotal(s, U \ {Max(U)})[U \ {Max(U)}] + s[Max(U)]]
  OBVIOUS
<1>6. \A U \in SUBSET T : U # {} => Max(U) \in U
  BY <1>3, LatestIsIn
<1>7. ASSUME NEW U \in SUBSET T, U # T PROVE g[U] = TheTotal(s, U)[U]
  <2>1. IsTotal(TheTotal(s, U), s, U) /\ U \in SUBSET U
    BY <1>4, <1>7
  <2>2. CASE U = {}
    BY <1>5, <2>1, <2>2 DEF IsTotal
  <2>3. CASE U # {}
    <3>1. PICK V : V = U \ {Max(U)}
      OBVIOUS
    <3>2. V \subseteq U /\ V # T /\ V \subseteq T
      BY <1>3, <1>6, <1>7, <2>3, <3>1
    <3>3. IsTotal(TheTotal(s, V), s, V)
      BY <1>4, <3>2
    <3>4. TheTotal(s, U)[V] = TheTotal(s, V)[V]
      <4>1. PICK a, b : a = TheTotal(s, V) /\ b = TheTotal(s, U)
        OBVIOUS
      <4>2. IsTotal(a, s, V) /\ IsTotal(b, s, U)
        BY <2>1, <3>3, <4>1
      <4>3. a[V] = b[V]
        <5>1. ArePlaces(U) /\ V \in SUBSET U /\ V \in SUBSET V
          BY <1>3, <1>7, <3>2 DEF ArePlaces
        <5> HIDE DEF C
        <5> QED BY <4>2, <5>1, TotalsAgree
      <4> QED BY <4>1, <4>3
    <3>5. TheTotal(s, U)[U] = TheTotal(s, U)[V] + s[Max(U)]
      BY <2>1, <2>3, <3>1 DEF IsTotal
    <3>6. g[U] = TheTotal(s, V)[V] + s[Max(U)]
      BY <1>5, <2>3, <3>1
    <3> QED BY <3>4, <3>5, <3>6
  <2> QED BY <2>2, <2>3
<1>8. ASSUME NEW U \in SUBSET T, U # {}
      PROVE  g[U] = g[U \ {Max(U)}] + s[Max(U)]
  <2>1. U \ {Max(U)} \in SUBSET T /\ U \ {Max(U)} # T
    BY <1>6, <1>8
  <2>2. g[U] = TheTotal(s, U \ {Max(U)})[U \ {Max(U)}] + s[Max(U)]
    BY <1>5, <1>8
  <2> QED BY <1>7, <2>1, <2>2
<1>9. IsTotal(g, s, T)
  BY <1>5, <1>8 DEF IsTotal
<1> QED BY <1>3, <1>9

\* The total over some places is that over all but the latest, and the latest.
LEMMA TotalOfLatest ==
  ASSUME NEW D, NEW s, NEW g, IsTotal(g, s, D), NEW T \in SUBSET D, T # {},
         NEW x, x = Max(T)
  PROVE  g[T] = g[T \ {x}] + s[x]
BY DEF IsTotal

\* Total adds up a list of numbers from its first to its last.
LEMMA RunningTotal ==
  ASSUME NEW n \in Nat, NEW s, DOMAIN s = 1 .. n, \A i \in 1 .. n : s[i] \in Int
  PROVE  \E t : /\ t[0] = 0 /\ t[n] = Total(s)
                /\ \A i \in 1 .. n : t[i] = t[i - 1] + s[i]
                /\ \A i \in 0 .. n : t[i] \in Int
<1>1. PICK g : g = TheTotal(s, 1 .. n) /\ IsTotal(g, s, 1 .. n)
  <2>1. ArePlaces(1 .. n)
    BY DEF ArePlaces
  <2> QED BY <2>1, TotalExists
<1>2. PICK t : t = [i \in 0 .. n |-> g[1 .. i]]
  OBVIOUS
<1>3. t[0] = 0
  <2>1. 1 .. 0 = {} /\ {} \in SUBSET (1 .. n)
    OBVIOUS
  <2>2. g[{}] = 0
    BY <1>1, <2>1 DEF IsTotal
  <2> QED BY <1>2, <2>1, <2>2
<1>4. ASSUME NEW i \in 1 .. n PROVE t[i] = t[i - 1] + s[i]
  <2>1. Max(1 .. i) = i
    BY LastOfUpTo
  <2>2. 1 .. i \in SUBSET (1 .. n) /\ 1 .. i # {}
    OBVIOUS
  <2>3. (1 .. i) \ {i} = 1 .. i - 1
    OBVIOUS
  <2>4. PICK D, T : D = 1 .. n /\ T = 1 .. i
    OBVIOUS
  <2>5. IsTotal(g, s, D) /\ T \in SUBSET D /\ T # {} /\ i = Max(T)
    BY <1>1, <2>1, <2>2, <2>4, Zenon
  <2>6. g[T] = g[T \ {i}] + s[i]
    BY <2>5, TotalOfLatest
  <2>7. t[i] = g[T] /\ t[i - 1] = g[T \ {i}]
    <3>1. i \in 0 .. n /\ i - 1 \in 0 .. n
      OBVIOUS
    <3>2. t[i] = g[1 .. i] /\ t[i - 1] = g[1 .. i - 1]
      BY <1>2, <3>1
    <3> QED BY <2>3, <2>4, <3>2, Zenon
  <2> QED BY <2>6, <2>7
<1>5. t[n] = Total(s)
  BY <1>1, <1>2, TotalIsOfTheTotal
<1>6. \A i \in 0 .. n : t[i] \in Int
  <2> DEFINE S == {i \in Nat : i <= n => t[i] \in Int}
  <2>1. 0 \in S
    BY <1>3
  <2>2. \A i \in Nat : i >= 0 /\ i \in S => i + 1 \in S
    <3> SUFFICES ASSUME NEW i \in Nat, i \in S, i + 1 <= n PROVE t[i + 1] \in Int
      OBVIOUS
    <3>1. t[i] \in Int /\ i + 1 \in 1 .. n /\ (i + 1) - 1 = i
      OBVIOUS
    <3> QED BY <1>4, <3>1
  <2> HIDE DEF S
  <2>3. \A i \in Nat : i >= 0 => i \in S
    BY <2>1, <2>2, UpFrom
  <2> QED BY <2>3 DEF S
<1> QED BY <1>3, <1>4, <1>5, <1>6

-----------------------------------------------------------------------------
(* The trend.  The weights rise from one end of the window to the other    *)
(* and add up to nothing, so values that do not fall with them have a      *)
(* total that is not negative: each weight's part is compared with the     *)
(* part it had if all values were that of the middle.                      *)

Weighed(k, y) == [i \in 1 .. k |-> (2 * (i - 1) - (k - 1)) * y[i]]

\* The place from which on the weights are positive.
IsMiddle(m, k) ==
    /\ k >= 2 => m < k
    /\ \A i \in 1 .. k : 2 * (i - 1) - (k - 1) < 0 => i <= m
    /\ \A i \in 1 .. k : 2 * (i - 1) - (k - 1) > 0 => i > m

LEMMA Middle ==
  ASSUME NEW k \in Nat, k >= 1
  PROVE  \E m \in 1 .. k : IsMiddle(m, k)
<1>1. PICK m \in Nat : 2 * m = k \/ 2 * m = k + 1
  <2>1. (k + 1) \div 2 \in Nat
    OBVIOUS
  <2>2. 2 * ((k + 1) \div 2) = k \/ 2 * ((k + 1) \div 2) = k + 1
    OBVIOUS
  <2> QED BY <2>1, <2>2
<1>2. m \in 1 .. k /\ IsMiddle(m, k)
  BY <1>1 DEF IsMiddle
<1> QED BY <1>2

\* What the weights up to j add up to is j * j - k * j.
LEMMA PartGrows ==
  ASSUME NEW k \in Int, NEW j \in Int, NEW p \in Int, NEW t \in Int, NEW x \in Int
  PROVE  /\ t >= ((j - 1) * (j - 1) - k * (j - 1)) * p /\ x >= (2 * (j - 1) - (k - 1)) * p
              => t + x >= (j * j - k * j) * p
         /\ t <= ((j - 1) * (j - 1) - k * (j - 1)) * p /\ x <= (2 * (j - 1) - (k - 1)) * p
              => t + x <= (j * j - k * j) * p
         /\ t <= ((j - 1) * (j - 1) - k * (j - 1)) * p /\ x < (2 * (j - 1) - (k - 1)) * p
              => t + x < (j * j - k * j) * p
<1>1. (j * j - k * j) * p = ((j - 1) * (j - 1) - k * (j - 1)) * p + (2 * (j - 1) - (k - 1)) * p
  OBVIOUS
<1>2. PICK a \in Int, b \in Int, c \in Int :
        /\ a = (j * j - k * j) * p /\ b = ((j - 1) * (j - 1) - k * (j - 1)) * p
        /\ c = (2 * (j - 1) - (k - 1)) * p
  OBVIOUS
<1>3. a = b + c
  BY <1>1, <1>2
<1> QED BY <1>2, <1>3

LEMMA TimesKeepsOrder ==
  ASSUME NEW c \in Int, NEW x \in Int, NEW p \in Int
  PROVE  /\ (c < 0 => x <= p) /\ (c > 0 => x >= p) => c * x >= c * p
         /\ (c < 0 => x >= p) /\ (c > 0 => x <= p) => c * x <= c * p
         /\ c > 0 /\ x < p => c * x < c * p
  OBVIOUS

LEMMA RiseHasNoFall ==
  ASSUME NEW k \in Nat, NEW y, \A i \in 1 .. k : y[i] \in Int,
         \A i, j \in 1 .. k : i < j => y[i] <= y[j]
  PROVE  Total(Weighed(k, y)) >= 0
<1>1. PICK w : w = Weighed(k, y)
  OBVIOUS
<1>2. DOMAIN w = 1 .. k /\ \A i \in 1 .. k : w[i] = (2 * (i - 1) - (k - 1)) * y[i]
  BY <1>1 DEF Weighed
<1>3. \A i \in 1 .. k : w[i] \in Int
  BY <1>2
<1>4. PICK t : /\ t[0] = 0 /\ t[k] = Total(w)
               /\ \A i \in 1 .. k : t[i] = t[i - 1] + w[i]
               /\ \A i \in 0 .. k : t[i] \in Int
  BY <1>2, <1>3, RunningTotal
<1>5. CASE k = 0
  BY <1>1, <1>4, <1>5
<1>6. CASE k >= 1
  <2>1. PICK m \in 1 .. k : IsMiddle(m, k)
    BY <1>6, Middle
  <2>2. PICK p \in Int : p = y[m]
    OBVIOUS
  <2>3. ASSUME NEW i \in 1 .. k PROVE w[i] >= (2 * (i - 1) - (k - 1)) * p
    <3>1. PICK c \in Int : c = 2 * (i - 1) - (k - 1)
      OBVIOUS
    <3>2. y[i] \in Int /\ (c < 0 => y[i] <= p) /\ (c > 0 => y[i] >= p)
      BY <2>1, <2>2, <3>1 DEF IsMiddle
    <3>3. c * y[i] >= c * p
      BY <3>2, TimesKeepsOrder
    <3> QED BY <1>2, <3>1, <3>3
  <2> DEFINE S == {j \in Nat : j <= k => t[j] >= (j * j - k * j) * p}
  <2>4. 0 \in S
    BY <1>4
  <2>5. \A i \in Nat : i >= 0 /\ i \in S => i + 1 \in S
    <3> SUFFICES ASSUME NEW i \in Nat, i \in S, i + 1 <= k
                 PROVE  t[i + 1] >= ((i + 1) * (i + 1) - k * (i + 1)) * p
      OBVIOUS
    <3>1. PICK j \in 1 .. k : j = i + 1 /\ j - 1 = i
      OBVIOUS
    <3>2. t[j - 1] >= ((j - 1) * (j - 1) - k * (j - 1)) * p
      BY <3>1
    <3>3. t[j] = t[j - 1] + w[j] /\ t[j - 1] \in Int /\ w[j] \in Int
      BY <1>3, <1>4
    <3>4. t[j - 1] + w[j] >= (j * j - k * j) * p
      <4> HIDE DEF S
      <4> QED BY <2>3, <3>2, <3>3, PartGrows
    <3> QED BY <3>1, <3>3, <3>4
  <2> HIDE DEF S
  <2>6. \A i \in Nat : i >= 0 => i \in S
    BY <2>4, <2>5, UpFrom
  <2>7. t[k] >= (k * k - k * k) * p
    BY <2>6 DEF S
  <2>8. (k * k - k * k) * p = 0
    OBVIOUS
  <2> QED BY <1>1, <1>4, <2>7, <2>8
<1> QED BY <1>5, <1>6

LEMMA FallHasAFall ==
  ASSUME NEW k \in Nat, k >= 2, NEW y, \A i \in 1 .. k : y[i] \in Int,
         \A i, j \in 1 .. k : i < j => y[i] > y[j]
  PROVE  Total(Weighed(k, y)) < 0
<1>1. PICK w : w = Weighed(k, y)
  OBVIOUS
<1>2. DOMAIN w = 1 .. k /\ \A i \in 1 .. k : w[i] = (2 * (i - 1) - (k - 1)) * y[i]
  BY <1>1 DEF Weighed
<1>3. \A i \in 1 .. k : w[i] \in Int
  BY <1>2
<1>4. PICK t : /\ t[0] = 0 /\ t[k] = Total(w)
               /\ \A i \in 1 .. k : t[i] = t[i - 1] + w[i]
               /\ \A i \in 0 .. k : t[i] \in Int
  BY <1>2, <1>3, RunningTotal
<1>5. PICK m \in 1 .. k : IsMiddle(m, k)
  BY Middle
<1>6. PICK p \in Int : p = y[m]
  OBVIOUS
<1>7. ASSUME NEW i \in 1 .. k PROVE w[i] <= (2 * (i - 1) - (k - 1)) * p
  <2>1. PICK c \in Int : c = 2 * (i - 1) - (k - 1)
    OBVIOUS
  <2>2. y[i] \in Int /\ (c < 0 => y[i] >= p) /\ (c > 0 => y[i] <= p)
    BY <1>5, <1>6, <2>1 DEF IsMiddle
  <2>3. c * y[i] <= c * p
    BY <2>2, TimesKeepsOrder
  <2> QED BY <1>2, <2>1, <2>3
<1> DEFINE S == {j \in Nat : j <= k => t[j] <= (j * j - k * j) * p}
<1>8. 0 \in S
  BY <1>4
<1>9. \A i \in Nat : i >= 0 /\ i \in S => i + 1 \in S
  <2> SUFFICES ASSUME NEW i \in Nat, i \in S, i + 1 <= k
               PROVE  t[i + 1] <= ((i + 1) * (i + 1) - k * (i + 1)) * p
    OBVIOUS
  <2>1. PICK j \in 1 .. k : j = i + 1 /\ j - 1 = i
    OBVIOUS
  <2>2. t[j - 1] <= ((j - 1) * (j - 1) - k * (j - 1)) * p
    BY <2>1
  <2>3. t[j] = t[j - 1] + w[j] /\ t[j - 1] \in Int /\ w[j] \in Int
    BY <1>3, <1>4
  <2>4. t[j - 1] + w[j] <= (j * j - k * j) * p
    <3> HIDE DEF S
    <3> QED BY <1>7, <2>2, <2>3, PartGrows
  <2> QED BY <2>1, <2>3, <2>4
<1> HIDE DEF S
<1>10. \A i \in Nat : i >= 0 => i \in S
  BY <1>8, <1>9, UpFrom
<1>11. t[k - 1] <= ((k - 1) * (k - 1) - k * (k - 1)) * p
  BY <1>10 DEF S
<1>12. w[k] < (2 * (k - 1) - (k - 1)) * p
  <2>1. PICK c \in Int : c = 2 * (k - 1) - (k - 1) /\ c > 0
    OBVIOUS
  <2>2. y[k] \in Int /\ y[k] < p /\ k \in 1 .. k
    BY <1>5, <1>6 DEF IsMiddle
  <2>3. c * y[k] < c * p
    BY <2>1, <2>2, TimesKeepsOrder
  <2> QED BY <1>2, <2>1, <2>2, <2>3
<1>13. t[k] = t[k - 1] + w[k] /\ t[k - 1] \in Int /\ w[k] \in Int
  BY <1>3, <1>4
<1>14. t[k] < (k * k - k * k) * p
  BY <1>11, <1>12, <1>13, PartGrows
<1>15. (k * k - k * k) * p = 0
  OBVIOUS
<1> QED BY <1>1, <1>4, <1>14, <1>15

-----------------------------------------------------------------------------
(* The average.  It never exceeds the highest reading.                     *)

IsAverage(g, s, n) ==
    g = [i \in 1 .. n |-> IF i = 1 THEN [num |-> s[1], den |-> 1]
                          ELSE NextAverage(s[i], g[i - 1])]

LEMMA EwmaIsAnAverage ==
  ASSUME NEW s
  PROVE  Ewma(s) = (CHOOSE g : IsAverage(g, s, Len(s)))[Len(s)]
  BY DEF Ewma, IsAverage

LEMMA AverageExists ==
  ASSUME NEW s, NEW n \in Nat
  PROVE  \E g : IsAverage(g, s, n)
<1> DEFINE S == {m \in Nat : \E g : IsAverage(g, s, m)}
<1>1. 0 \in S
  <2>1. PICK g : g = [i \in 1 .. 0 |-> 0]
    OBVIOUS
  <2>2. IsAverage(g, s, 0)
    BY <2>1 DEF IsAverage
  <2> QED BY <2>2
<1>2. \A m \in Nat : m >= 0 /\ m \in S => m + 1 \in S
  <2> SUFFICES ASSUME NEW m \in Nat, m \in S PROVE \E h : IsAverage(h, s, m + 1)
    OBVIOUS
  <2>1. PICK g : IsAverage(g, s, m)
    OBVIOUS
  <2>2. PICK h : h = [i \in 1 .. m + 1 |-> IF i = 1 THEN [num |-> s[1], den |-> 1]
                                           ELSE NextAverage(s[i], g[i - 1])]
    OBVIOUS
  <2>3. \A i \in 1 .. m : h[i] = g[i]
    BY <2>1, <2>2 DEF IsAverage
  <2>4. h = [i \in 1 .. m + 1 |-> IF i = 1 THEN [num |-> s[1], den |-> 1]
                                  ELSE NextAverage(s[i], h[i - 1])]
    <3>1. \A i \in 1 .. m + 1 : i # 1 => h[i - 1] = g[i - 1]
      BY <2>3
    <3> HIDE DEF S
    <3> QED BY <2>2, <3>1, Zenon
  <2> QED BY <2>4 DEF IsAverage
<1> HIDE DEF S
<1>3. \A m \in Nat : m >= 0 => m \in S
  BY <1>1, <1>2, UpFrom
<1> QED BY <1>3 DEF S

LEMMA NextAverageKeeps ==
  ASSUME NEW p \in Int, NEW value \in Int, value <= p,
         NEW num \in Int, NEW den \in Nat, den > 0, num <= p * den
  PROVE  LET next == NextAverage(value, [num |-> num, den |-> den])
         IN  next.num \in Int /\ next.den \in Nat /\ next.den > 0 /\ next.num <= p * next.den
<1>1. Span \in Nat /\ Span >= 1
  BY DetectorAssumption
<1>2. PICK a \in Nat : a = Span - 1
  BY <1>1
<1>3. PICK next : next = NextAverage(value, [num |-> num, den |-> den])
  OBVIOUS
<1>4. next = [num |-> 2 * value * den + a * num, den |-> (a + 2) * den]
  <2>1. Span - 1 = a /\ Span + 1 = a + 2
    BY <1>1, <1>2
  <2> QED BY <1>3, <2>1 DEF NextAverage
<1>5. 2 * value * den \in Int /\ a * num \in Int /\ (a + 2) * den \in Int /\ (a + 2) * den > 0
  OBVIOUS
<1>6. value * den <= p * den /\ a * num <= a * (p * den)
  OBVIOUS
<1>7. p * ((a + 2) * den) = 2 * (p * den) + a * (p * den)
  OBVIOUS
<1>8. 2 * value * den = 2 * (value * den)
  OBVIOUS
<1>9. 2 * value * den + a * num <= p * ((a + 2) * den)
  <2>1. PICK x \in Int, y \in Int, z \in Int, u \in Int :
          /\ x = value * den /\ y = p * den /\ z = a * num /\ u = a * (p * den)
    OBVIOUS
  <2>2. x <= y /\ z <= u /\ 2 * value * den = 2 * x /\ p * ((a + 2) * den) = 2 * y + u
    BY <1>6, <1>7, <1>8, <2>1
  <2> QED BY <2>1, <2>2
<1> QED BY <1>3, <1>4, <1>5, <1>9

NoHigher(average, p) ==
    \E num \in Int, den \in Nat :
        average = [num |-> num, den |-> den] /\ den > 0 /\ num <= p * den

LEMMA AverageIsNoHigher ==
  ASSUME NEW n \in Nat, n >= 1, NEW s, Len(s) = n, NEW p \in Int,
         \A i \in 1 .. n : s[i] \in Int /\ s[i] <= p
  PROVE  NoHigher(Ewma(s), p)
<1>1. PICK g : g = (CHOOSE h : IsAverage(h, s, n)) /\ IsAverage(g, s, n)
  BY AverageExists
<1>a. /\ g[1] = [num |-> s[1], den |-> 1]
      /\ \A i \in 1 .. n : i # 1 => g[i] = NextAverage(s[i], g[i - 1])
  <2>1. 1 \in 1 .. n
    OBVIOUS
  <2> QED BY <1>1, <2>1, Zenon DEF IsAverage
<1> DEFINE S == {i \in Nat : i \in 1 .. n => NoHigher(g[i], p)}
<1>2. 1 \in S
  <2>1. g[1] = [num |-> s[1], den |-> 1]
    BY <1>a
  <2>2. s[1] \in Int /\ s[1] <= p * 1
    OBVIOUS
  <2> QED BY <2>1, <2>2 DEF NoHigher
<1>3. \A i \in Nat : i >= 1 /\ i \in S => i + 1 \in S
  <2> SUFFICES ASSUME NEW i \in Nat, i >= 1, i \in S, i + 1 <= n PROVE NoHigher(g[i + 1], p)
    OBVIOUS
  <2>0. NoHigher(g[i], p)
    OBVIOUS
  <2>1. PICK num \in Int, den \in Nat :
          g[i] = [num |-> num, den |-> den] /\ den > 0 /\ num <= p * den
    BY <2>0 DEF NoHigher
  <2>2. PICK next : next = NextAverage(s[i + 1], [num |-> num, den |-> den])
    OBVIOUS
  <2>3. g[i + 1] = next
    <3>1. i + 1 \in 1 .. n /\ i + 1 # 1 /\ (i + 1) - 1 = i
      OBVIOUS
    <3> QED BY <1>a, <2>1, <2>2, <3>1
  <2>4. s[i + 1] \in Int /\ s[i + 1] <= p
    OBVIOUS
  <2>5. next.num \in Int /\ next.den \in Nat /\ next.den > 0 /\ next.num <= p * next.den
    BY <2>1, <2>2, <2>4, NextAverageKeeps
  <2>6. next = [num |-> next.num, den |-> next.den]
    BY <2>2 DEF NextAverage
  <2> HIDE DEF S
  <2> QED BY <2>3, <2>5, <2>6 DEF NoHigher
<1> HIDE DEF S
<1>4. \A i \in Nat : i >= 1 => i \in S
  BY <1>2, <1>3, UpFrom
<1>5. n \in S /\ Ewma(s) = g[n]
  BY <1>1, <1>4, EwmaIsAnAverage
<1> QED BY <1>5 DEF S

LEMMA MovingRangesAreInt ==
  ASSUME NEW n \in Nat, n >= 1, NEW s, Len(s) = n, \A i \in 1 .. n : s[i] \in Int
  PROVE  MovingRanges(s) \in Int
<1>1. PICK r : r = [i \in 1 .. n - 1 |-> Magnitude(s[i + 1] - s[i])]
  OBVIOUS
<1>2. n - 1 \in Nat /\ DOMAIN r = 1 .. n - 1 /\ \A i \in 1 .. n - 1 : r[i] \in Int
  BY <1>1 DEF Magnitude
<1>3. Total(r) \in Int
  <2>1. PICK t : t[n - 1] = Total(r) /\ \A i \in 0 .. n - 1 : t[i] \in Int
    BY <1>2, RunningTotal
  <2> QED BY <1>2, <2>1
<1> QED BY <1>1, <1>3 DEF MovingRanges

-----------------------------------------------------------------------------
(* The two codes that speak of a fall.                                     *)

\* A latest reading that none exceeds is no shift downwards.
LEMMA NoShiftAtTheTop ==
  ASSUME NEW n \in Nat, n >= 1, NEW s, Len(s) = n, \A i \in 1 .. n : s[i] \in Int /\ s[i] <= s[n]
  PROVE  ~Shifted(s)
<1> SUFFICES ASSUME Shifted(s) PROVE FALSE
  OBVIOUS
<1>1. PICK p \in Int : p = s[n]
  OBVIOUS
<1>2. PICK num \in Int, den \in Nat :
        Ewma(s) = [num |-> num, den |-> den] /\ den > 0 /\ num <= p * den
  BY <1>1, AverageIsNoHigher DEF NoHigher
<1>3. PICK m \in Int : m = MovingRanges(s) /\ m > 0
  BY MovingRangesAreInt DEF Shifted
<1>4. Residual(s) = p * den - num
  BY <1>1, <1>2 DEF Residual, Last
<1>5. PICK x \in Int, c \in Int : x = p * den - num /\ c = n - 1 /\ x >= 0 /\ c >= 0
  BY <1>2
<1>6. x * c * 141 <= -2 * 125 * m * den
  BY <1>2, <1>3, <1>4, <1>5 DEF Shifted
<1>7. x * c >= 0 /\ m * den > 0 /\ x * c \in Int /\ m * den \in Int
  BY <1>2, <1>3, <1>5
<1>8. -2 * 125 * m * den = -250 * (m * den)
  OBVIOUS
<1> QED BY <1>6, <1>7, <1>8

LEMMA LesserOf ==
  ASSUME NEW a \in Nat, NEW b \in Nat
  PROVE  Min({a, b}) = IF a <= b THEN a ELSE b
<1>1. PICK c \in Nat : c \in {a, b} /\ \A y \in {a, b} : c <= y
  OBVIOUS
<1>2. Min({a, b}) \in {a, b} /\ \A y \in {a, b} : Min({a, b}) <= y
  BY <1>1 DEF Min
<1> QED BY <1>2

\* y is the readings in the window, k of them.
IsTail(y, k, s) ==
    /\ k = (IF TrendWindow <= Len(s) THEN TrendWindow ELSE Len(s))
    /\ \A i \in 1 .. k : y[i] = s[Len(s) - k + i] /\ y[i] \in Int

\* The slope is their weighed total.
LEMMA SlopeIsWeighed ==
  ASSUME NEW n \in Nat, NEW s \in Seq(Int), Len(s) = n, n >= 1
  PROVE  \E k \in Nat : \E y : IsTail(y, k, s) /\ Slope(s) = Total(Weighed(k, y))
<1>1. TrendWindow \in Nat
  BY DetectorAssumption
<1>2. PICK k \in Nat : k = (IF TrendWindow <= n THEN TrendWindow ELSE n) /\ k <= n
                       /\ k = Min({TrendWindow, n})
  BY <1>1, LesserOf
<1>3. PICK y : y = SubSeq(s, n - k + 1, n)
  OBVIOUS
<1>4. \A i \in 1 .. k : y[i] = s[n - k + i] /\ y[i] \in Int
  <2>0. \A i \in 1 .. n : s[i] \in Int
    OBVIOUS
  <2>a. k <= n
    BY <1>2
  <2>1. PICK a \in Int : a = n - k + 1 /\ a >= 1 /\ a <= n + 1
    BY <2>a
  <2>2. n \in Int /\ \A i \in a .. n : s[i] \in Int
    BY <2>0, <2>1
  <2>3. \A i \in 1 .. n - a + 1 : y[i] = s[a + i - 1]
    <3>1. \A i \in 1 .. n - a + 1 : SubSeq(s, a, n)[i] = s[a + i - 1]
      BY <2>1, <2>2, SubSeqProperties
    <3> QED BY <1>3, <2>1, <3>1
  <2>4. ASSUME NEW i \in 1 .. k PROVE y[i] = s[n - k + i] /\ y[i] \in Int
    <3>1. i \in 1 .. n - a + 1 /\ a + i - 1 \in a .. n
      BY <2>a, <2>1
    <3>2. a + i - 1 = n - k + i
      BY <2>1
    <3> QED BY <2>2, <2>3, <3>1, <3>2
  <2> QED BY <2>4
<1>5. Slope(s) = Total(Weighed(k, y))
  BY <1>2, <1>3 DEF Slope, Weighed
<1>6. IsTail(y, k, s)
  BY <1>2, <1>4 DEF IsTail
<1> QED BY <1>5, <1>6

LEMMA FallHeads ==
  ASSUME NEW n \in Nat, NEW s \in Seq(Int), Len(s) = n, n >= MinReadings,
         \A i, j \in Window(s, TrendWindow) : i < j => s[i] > s[j], s[n] < WatchLevel
  PROVE  Heading(s)
<1>1. n >= 2 /\ TrendWindow \in Nat /\ TrendWindow >= 2 /\ DOMAIN s = 1 .. n
  BY DetectorAssumption
<1>2. PICK k \in Nat : \E y : IsTail(y, k, s) /\ Slope(s) = Total(Weighed(k, y))
  BY <1>1, SlopeIsWeighed
<1>3. PICK y : /\ k = (IF TrendWindow <= n THEN TrendWindow ELSE n)
               /\ \A i \in 1 .. k : y[i] = s[n - k + i] /\ y[i] \in Int
               /\ Slope(s) = Total(Weighed(k, y))
  BY <1>2 DEF IsTail
<1>4. k >= 2 /\ k <= n /\ k <= TrendWindow
  BY <1>1, <1>3
<1>5. ASSUME NEW i \in 1 .. k, NEW j \in 1 .. k, i < j PROVE y[i] > y[j]
  <2>1. n - k + i \in Window(s, TrendWindow) /\ n - k + j \in Window(s, TrendWindow)
    BY <1>1, <1>4 DEF Window
  <2>2. n - k + i < n - k + j
    BY <1>5
  <2> QED BY <1>3, <2>1, <2>2
<1>6. Total(Weighed(k, y)) < 0
  BY <1>3, <1>4, <1>5, FallHasAFall
<1> QED BY <1>3, <1>6 DEF Heading, Last

LEMMA RiseHeadsNowhere ==
  ASSUME NEW n \in Nat, NEW s \in Seq(Int), Len(s) = n, n >= 1,
         \A i, j \in Window(s, TrendWindow) : i < j => s[i] <= s[j]
  PROVE  ~Heading(s)
<1>1. TrendWindow \in Nat /\ DOMAIN s = 1 .. n
  BY DetectorAssumption
<1>2. PICK k \in Nat : \E y : IsTail(y, k, s) /\ Slope(s) = Total(Weighed(k, y))
  BY <1>1, SlopeIsWeighed
<1>3. PICK y : /\ k = (IF TrendWindow <= n THEN TrendWindow ELSE n)
               /\ \A i \in 1 .. k : y[i] = s[n - k + i] /\ y[i] \in Int
               /\ Slope(s) = Total(Weighed(k, y))
  BY <1>2 DEF IsTail
<1>4. k <= n /\ k <= TrendWindow
  BY <1>1, <1>3
<1>5. ASSUME NEW i \in 1 .. k, NEW j \in 1 .. k, i < j PROVE y[i] <= y[j]
  <2>1. n - k + i \in Window(s, TrendWindow) /\ n - k + j \in Window(s, TrendWindow)
    BY <1>1, <1>4 DEF Window
  <2>2. n - k + i < n - k + j
    BY <1>5
  <2> QED BY <1>3, <2>1, <2>2
<1>6. Total(Weighed(k, y)) >= 0
  BY <1>3, <1>5, RiseHasNoFall
<1>7. ~(Slope(s) < 0)
  <2>1. PICK x : x = Slope(s)
    OBVIOUS
  <2>2. x \in Int
    <3>1. PICK w : w = Weighed(k, y)
      OBVIOUS
    <3>2. DOMAIN w = 1 .. k /\ \A i \in 1 .. k : w[i] \in Int
      BY <1>3, <3>1 DEF Weighed
    <3>3. PICK t : t[k] = Total(w) /\ \A i \in 0 .. k : t[i] \in Int
      BY <3>2, RunningTotal
    <3> QED BY <1>3, <2>1, <3>1, <3>3
  <2> QED BY <1>3, <1>6, <2>1, <2>2
<1> QED BY <1>7 DEF Heading

\* Readings that fell over the whole window to below the watch level.
LEMMA FallRaisesAnAlarm ==
  ASSUME NEW n \in Nat, NEW s \in Seq(Int), Len(s) = n, n >= MinReadings, NEW o,
         \A i, j \in Window(s, TrendWindow) : i < j => s[i] > s[j], s[n] < WatchLevel
  PROVE  Codes(s, o) # {}
<1>1. Heading(s)
  BY FallHeads
<1>2. ~(Len(s) < MinReadings)
  BY DetectorAssumption
<1>3. "TREND_TO_LIMIT" \in Codes(s, o)
  BY <1>1, <1>2 DEF Codes
<1> QED BY <1>3

\* Readings that did not fall over the window, the last of which is the highest.
LEMMA RiseRaisesNone ==
  ASSUME NEW n \in Nat, NEW s \in Seq(Int), Len(s) = n, n >= 1, NEW o,
         \A i, j \in Window(s, TrendWindow) : i < j => s[i] <= s[j],
         \A i \in 1 .. n : s[i] <= s[n]
  PROVE  Codes(s, o) \subseteq {"IFOREST_OUTLIER"}
<1>1. ~Heading(s)
  BY RiseHeadsNowhere
<1>2. ~Shifted(s)
  <2>1. \A i \in 1 .. n : s[i] \in Int /\ s[i] <= s[n]
    OBVIOUS
  <2> QED BY <2>1, NoShiftAtTheTop
<1> QED BY <1>1, <1>2 DEF Codes

LEMMA AlarmsOfAPrefix ==
  ASSUME truth \in Seq(Int) PROVE AlarmsFollowFalls
<1> SUFFICES ASSUME NEW n \in MinReadings .. Len(truth), NEW s, s = SubSeq(truth, 1, n)
             PROVE  LET window == Window(s, TrendWindow)
                    IN /\ (/\ \A i, j \in window : i < j => s[i] > s[j]
                           /\ s[n] < WatchLevel) => Codes(s, odd) # {}
                       /\ (/\ \A i, j \in window : i < j => s[i] <= s[j]
                           /\ \A i \in 1 .. n : s[i] <= s[n])
                               => Codes(s, odd) \subseteq {"IFOREST_OUTLIER"}
  BY DEF AlarmsFollowFalls
<1>1. MinReadings \in Nat /\ MinReadings >= 2
  BY DetectorAssumption
<1>2. n \in Nat /\ n >= 1 /\ n >= MinReadings /\ n <= Len(truth)
  BY <1>1
<1>3. s \in Seq(Int) /\ Len(s) = n
  <2>1. 1 \in Int /\ n \in Int /\ \A i \in 1 .. n : truth[i] \in Int
    BY <1>2
  <2>2. s \in Seq(Int) /\ Len(s) = IF 1 <= n THEN n - 1 + 1 ELSE 0
    BY <2>1, SubSeqProperties
  <2> QED BY <1>2, <2>2
<1> QED BY <1>2, <1>3, FallRaisesAnAlarm, RiseRaisesNone

-----------------------------------------------------------------------------
(* The theorems.                                                           *)

LEMMA Inductive == Spec => [](IndInv /\ HeldInv)
  BY IndInit, IndStep, HeldInit, HeldStep, PTL DEF Spec

\* Requests, rows and files keep their shape, whatever fails.
THEOREM TypeCorrect == Spec => []TypeOK
<1>1. IndInv /\ HeldInv => TypeOK
  <2> SUFFICES ASSUME IndInv, HeldInv PROVE TypeOK
    OBVIOUS
  <2>1. \A q \in Requests : Held(q) /\ RowOfOwn(q)
    BY DEF IndInv, HeldInv
  <2>2. DOMAIN rows \subseteq Requests /\ \A q \in DOMAIN rows : rows[q] \in Row
    BY DEF HeldInv, OnRecord
  <2>3. \A q \in Requests :
          CASE request[q].pc = "new" -> q \notin DOMAIN rows
            [] request[q].pc = "measured" -> q \notin DOMAIN rows /\ request[q].sha \in Shas
            [] request[q].pc \in {"committed", "opened"} -> q \in DOMAIN rows
            [] OTHER -> request[q].pc \in {"done", "failed"}
    <3> TAKE q \in Requests
    <3>1. Held(q) /\ RowOfOwn(q)
      BY <2>1
    <3>2. CASE request[q].pc = "new"
      BY <3>1, <3>2 DEF RowOfOwn
    <3>3. CASE request[q].pc = "measured"
      BY <3>1, <3>3 DEF RowOfOwn, Held
    <3>4. CASE request[q].pc \in {"committed", "opened"}
      BY <3>1, <3>4 DEF RowOfOwn
    <3>5. CASE request[q].pc \in {"done", "failed"}
      BY <3>5
    <3> QED BY <3>1, <3>2, <3>3, <3>4, <3>5 DEF Held
  <2>4. \A path \in DOMAIN files : files[path] \in File
    BY DEF IndInv, FileInv
  <2> QED BY <2>2, <2>3, <2>4 DEF TypeOK, HeldInv
<1> QED BY <1>1, Inductive, PTL

\* Readings that fell over the whole window to below the watch level raise an
\* alarm, and a series that ends on its highest reading after a window without a
\* fall raises neither of the codes that speak of one: whatever the readings, and
\* for any span of the average, any window of two readings or more.
THEOREM AlarmsAreOfFalls == Spec => []AlarmsFollowFalls
<1>1. Init => truth \in Seq(Int)
  BY SeriesAssumption DEF Init
<1>2. truth \in Seq(Int) /\ [Next]_vars => (truth \in Seq(Int))'
  BY DEF Next, vars, Measure, Commit, OpenReport, Open, WriteReport, Fail, FailToWrite
<1> QED BY <1>1, <1>2, AlarmsOfAPrefix, PTL DEF Spec

\* A run on record that passes C1 has a reading on which the detector did
\* better than the fixed threshold, and one that passes C2 an alarm before every
\* labelled reading below the watch level: for any series, any episode, any
\* budget and whatever the detector makes of each prefix.
THEOREM VerdictsAreWitnessed == Spec => []VerdictsHaveAWitness
<1>1. HeldInv => VerdictsHaveAWitness
  BY DEF HeldInv, OnRecord, Holds, Owed, VerdictsHaveAWitness
<1> QED BY <1>1, Inductive, PTL

\* Each text in a report file is of a run on record, of a commit the file is
\* named after; a run that was alone with the file since it opened it, and was
\* answered 201, left exactly its own there; and each run answered 201 has its
\* row and a file.  run of evaluate.py commits first; write_text then empties the
\* file and writes it, whatever fails between and whoever writes at the same time.
THEOREM ReportsAreOnRecord == Spec => []ReportIsOnRecord
<1>1. IndInv => ReportIsOnRecord
  BY DEF IndInv, RowOfOwn, FileInv, LastWriter, ReportIsOnRecord
<1> QED BY <1>1, IndInit, IndStep, PTL DEF Spec
=============================================================================
