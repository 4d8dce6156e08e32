------------------------------- MODULE Alerts -------------------------------
(***************************************************************************)
(* M2 at the service layer: detection passes raise and refresh alerts      *)
(* while operators acknowledge them.  Both are plain `def` handlers run in *)
(* a thread pool, each with a session of its own, so between a SELECT and  *)
(* the commit that depends on it anybody else may commit.                  *)
(*                                                                         *)
(*   Detectors  threads that run run_detection (POST /detect/run, or a     *)
(*              batch), one pass after another.                            *)
(*   Requests   acknowledgements: POST /alerts/{id}/ack, the inbox button. *)
(*                                                                         *)
(* There is no row version and no SELECT FOR UPDATE.  The ORM's UPDATE     *)
(* names a row by id and writes only the columns whose new value differs   *)
(* from the value the session loaded; the other columns keep whatever the  *)
(* table holds by then.                                                    *)
(*                                                                         *)
(* The detector itself (modules/m2_detect.py) is a deterministic function  *)
(* of a point's series.  Here a series is the number of readings it has,   *)
(* and History[n] is what the detector makes of the first n: the last      *)
(* reading and the reason codes, {} when it stays quiet.                   *)
(***************************************************************************)
EXTENDS Integers, Sequences, FiniteSets

CONSTANTS
    Points,     \* sampling points
    Detectors,  \* threads running detection passes
    Requests,   \* acknowledgement requests
    Operators,  \* operator ids
    Notes,      \* texts an operator may add
    Codes,      \* reason codes
    History,    \* sequence of [last, codes]: the detector's verdicts
    Threshold,  \* DEFAULT_THRESHOLD_MG_L, on the scale of `last`
    MaxPasses,  \* bound: passes per detector
    None        \* SQL NULL

ASSUME HistoryAssumption == History \in Seq([last : Int, codes : SUBSET Codes])
ASSUME BoundAssumption == Threshold \in Int /\ MaxPasses \in Nat
ASSUME NoneAssumption ==
    None \notin Operators \cup Notes \cup Requests \cup (Detectors \X Nat)

VARIABLES
    series,     \* the readings each point has on record, as a length
    alerts,     \* table anomaly_alert: id -> row
    passes,     \* how many passes each detector has begun
    pass,       \* a detector's pass in progress
    request,    \* an operator's request
    overlapped  \* history: points that two passes held loaded at a time

vars == <<series, alerts, passes, pass, request, overlapped>>

-----------------------------------------------------------------------------
AlertIds == Detectors \X Nat    \* uuid4: the pass that raised it

Evidence == {"last", "severity", "codes"}
AckColumns == {"by", "at", "note"}

\* detect: the payload of the alert raised over the first n readings.
Verdict(n) ==
    [last |-> History[n].last,
     severity |-> IF History[n].last <= Threshold THEN "action" ELSE "watch",
     codes |-> History[n].codes]

\* No reading, or no reason code: detect returns no alert.
Quiet(n) == n \notin {i \in 1 .. Len(History) : History[i].codes # {}}

NewRow(p, verdict) ==
    [point |-> p, last |-> verdict.last, severity |-> verdict.severity,
     codes |-> verdict.codes, by |-> None, at |-> None, note |-> None]

Open(p) == {a \in DOMAIN alerts : alerts[a].point = p /\ alerts[a].at = None}

\* Mutant: the refresh writes the whole row back as it was loaded.
RefreshedWhole(row, loaded, verdict) ==
    [c \in DOMAIN row |-> IF c \in Evidence THEN verdict[c] ELSE loaded[c]]

\* Mutant: the refresh forgets the severity.
RefreshedPartly(row, loaded, verdict) ==
    [c \in DOMAIN row |->
        IF c \in Evidence \ {"severity"} /\ verdict[c] # loaded[c]
        THEN verdict[c] ELSE row[c]]

\* The UPDATE of a refresh, applied to the row the table holds by then.
Refreshed(row, loaded, verdict) ==
    [c \in DOMAIN row |->
        IF c \in Evidence /\ verdict[c] # loaded[c] THEN verdict[c] ELSE row[c]]

\* Mutant: the note is appended to the reason codes.
AcknowledgedInCodes(row, k, operator, note) ==
    [row EXCEPT !.by = operator, !.at = k, !.codes = @ \cup ({note} \ {None})]

\* Mutant: acknowledged_at is set, the operator is not.
AcknowledgedAnonymously(row, k, operator, note) ==
    [row EXCEPT !.at = k, !.note = IF note = None THEN @ ELSE note]

\* The UPDATE of an acknowledgement at time k.  The note was loaded as NULL,
\* so an acknowledgement without a note does not write that column.
Acknowledged(row, k, operator, note) ==
    [row EXCEPT !.by = operator, !.at = k,
                !.note = IF note = None THEN @ ELSE note]

-----------------------------------------------------------------------------
IdlePass == [pc |-> "idle", point |-> None, length |-> 0,
             target |-> None, loaded |-> None]
NewRequest == [pc |-> "new", alert |-> None, operator |-> None, note |-> None]

Init ==
    /\ series = [p \in Points |-> 0]
    /\ alerts = [a \in {} |-> None]
    /\ passes = [d \in Detectors |-> 0]
    /\ pass = [d \in Detectors |-> IdlePass]
    /\ request = [k \in Requests |-> NewRequest]
    /\ overlapped = {}

\* M1 commits one more reading of p.
NewReading(p) ==
    /\ series[p] < Len(History)
    /\ series' = [series EXCEPT ![p] = @ + 1]
    /\ UNCHANGED <<alerts, passes, pass, request, overlapped>>

\* run_detection: series_for_point, then the detector over what it returned.
ReadSeries(d, p) ==
    /\ pass[d].pc = "idle"
    /\ passes[d] < MaxPasses
    /\ passes' = [passes EXCEPT ![d] = @ + 1]
    /\ pass' = [pass EXCEPT ![d].pc = "detected", ![d].point = p,
                            ![d].length = series[p]]
    /\ UNCHANGED <<series, alerts, request, overlapped>>

NoteOverlap(d) ==
    overlapped' = overlapped \cup
        {pass[d].point : e \in {e \in Detectors \ {d} : /\ pass[e].pc = "loaded"
                                                      /\ pass[e].point = pass[d].point}}

\* Mutant: the pass does not look for an open alert.
LoadOpenNever(d) ==
    /\ pass[d].pc = "detected"
    /\ pass' = [pass EXCEPT ![d].pc = "loaded"]
    /\ NoteOverlap(d)
    /\ UNCHANGED <<series, alerts, passes, request>>

\* The SELECT of the point's open alerts.  The dict keeps one row per point:
\* the last one returned, in an order the statement does not fix.
LoadOpen(d) ==
    /\ pass[d].pc = "detected"
    /\ LET p == pass[d].point IN
       \/ /\ Open(p) = {}
          /\ pass' = [pass EXCEPT ![d].pc = "loaded"]
       \/ \E a \in Open(p) :
             pass' = [pass EXCEPT ![d].pc = "loaded", ![d].target = a,
                                  ![d].loaded = alerts[a]]
    /\ NoteOverlap(d)
    /\ UNCHANGED <<series, alerts, passes, request>>

EndPass(d) ==
    /\ pass' = [pass EXCEPT ![d] = IdlePass]
    /\ UNCHANGED <<series, passes, request, overlapped>>

\* The detector was quiet: the open alert, if any, is left as it is.
QuietPass(d) ==
    /\ pass[d].pc = "loaded"
    /\ Quiet(pass[d].length)
    /\ EndPass(d)
    /\ UNCHANGED alerts

RaiseAlert(d) ==
    /\ pass[d].pc = "loaded"
    /\ ~Quiet(pass[d].length)
    /\ pass[d].target = None
    /\ alerts' = [a \in DOMAIN alerts \cup {<<d, passes[d]>>} |->
                    IF a = <<d, passes[d]>>
                    THEN NewRow(pass[d].point, Verdict(pass[d].length))
                    ELSE alerts[a]]
    /\ EndPass(d)

RefreshAlert(d) ==
    /\ pass[d].pc = "loaded"
    /\ ~Quiet(pass[d].length)
    /\ pass[d].target # None
    /\ alerts' = [alerts EXCEPT ![pass[d].target] =
                    Refreshed(@, pass[d].loaded, Verdict(pass[d].length))]
    /\ EndPass(d)

\* The commit fails, or the process dies: nothing of the pass is written.
AbortPass(d) ==
    /\ pass[d].pc # "idle"
    /\ EndPass(d)
    /\ UNCHANGED alerts

\* acknowledge: the row is loaded and found open.
LoadAlert(k, a, operator, note) ==
    /\ request[k].pc = "new"
    /\ a \in DOMAIN alerts /\ alerts[a].at = None
    /\ request' = [request EXCEPT ![k] = [pc |-> "loaded", alert |-> a,
                                          operator |-> operator, note |-> note]]
    /\ UNCHANGED <<series, alerts, passes, pass, overlapped>>

\* acknowledge: the alert is acknowledged already: 404.
RefuseAck(k, a, operator, note) ==
    /\ request[k].pc = "new"
    /\ a \in DOMAIN alerts /\ alerts[a].at # None
    /\ request' = [request EXCEPT ![k] = [pc |-> "refused", alert |-> a,
                                          operator |-> operator, note |-> note]]
    /\ UNCHANGED <<series, alerts, passes, pass, overlapped>>

CommitAck(k) ==
    /\ request[k].pc = "loaded"
    /\ alerts' = [alerts EXCEPT ![request[k].alert] =
                    Acknowledged(@, k, request[k].operator, request[k].note)]
    /\ request' = [request EXCEPT ![k].pc = "accepted"]
    /\ UNCHANGED <<series, passes, pass, overlapped>>

AbortAck(k) ==
    /\ request[k].pc = "loaded"
    /\ request' = [request EXCEPT ![k].pc = "failed"]
    /\ UNCHANGED <<series, alerts, passes, pass, overlapped>>

DetectorStep(d) ==
    \/ \E p \in Points : ReadSeries(d, p)
    \/ LoadOpen(d)
    \/ QuietPass(d)
    \/ RaiseAlert(d)
    \/ RefreshAlert(d)
    \/ AbortPass(d)

RequestStep(k) ==
    \/ \E a \in DOMAIN alerts, operator \in Operators, note \in Notes \cup {None} :
          LoadAlert(k, a, operator, note) \/ RefuseAck(k, a, operator, note)
    \/ CommitAck(k)
    \/ AbortAck(k)

Next ==
    \/ \E p \in Points : NewReading(p)
    \/ \E d \in Detectors : DetectorStep(d)
    \/ \E k \in Requests : RequestStep(k)

Spec == Init /\ [][Next]_vars

-----------------------------------------------------------------------------
(* Properties.                                                             *)

Row == [point : Points, last : Int, severity : {"action", "watch"},
        codes : SUBSET Codes, by : Operators \cup {None},
        at : Requests \cup {None}, note : Notes \cup {None}]
Pass == [pc : {"idle", "detected", "loaded"}, point : Points \cup {None},
         length : 0 .. Len(History), target : AlertIds \cup {None},
         loaded : Row \cup {None}]
Request == [pc : {"new", "loaded", "accepted", "refused", "failed"},
            alert : AlertIds \cup {None}, operator : Operators \cup {None},
            note : Notes \cup {None}]

\* Shapes of the table and of the handlers' local state.  In particular the
\* reason codes stay reason codes: an acknowledgement's note never lands there.
TypeOK ==
    /\ series \in [Points -> 0 .. Len(History)]
    /\ DOMAIN alerts \subseteq AlertIds
    /\ \A a \in DOMAIN alerts : alerts[a] \in Row
    /\ passes \in [Detectors -> Nat]
    /\ pass \in [Detectors -> Pass]
    /\ request \in [Requests -> Request]
    /\ overlapped \subseteq Points

\* What is left of "one open alert per point" when passes overlap: a point
\* has no two open alerts from the same detector thread, however the passes,
\* the other threads' passes and the acknowledgements interleave.  With one
\* thread this is one open alert per point.
OneOpenAlertPerDetector ==
    \A p \in Points : \A a, b \in Open(p) : a[1] = b[1] => a = b

\* The window is exactly the one between the SELECT of the open alerts and
\* the commit: a point that no two passes ever held in it has at most one
\* open alert, whatever the acknowledgements do.
OneOpenAlertUnlessOverlapped ==
    \A p \in Points \ overlapped : \A a, b \in Open(p) : a = b

\* A step writes the evidence of alerts or their acknowledgement, never both,
\* and no step removes an alert, moves it to another point or reopens it: the
\* passes and the operators race for a row but not for a column.
ColumnsKeepTheirWriter ==
    [][/\ DOMAIN alerts \subseteq DOMAIN alerts'
       /\ \A a \in DOMAIN alerts :
            /\ alerts'[a].point = alerts[a].point
            /\ alerts[a].at # None => alerts'[a].at # None
            /\ \/ \A c \in Evidence : alerts'[a][c] = alerts[a][c]
               \/ \A c \in AckColumns : alerts'[a][c] = alerts[a][c]]_alerts

\* The audit trail names a person: whoever stands in an acknowledged row asked
\* for that acknowledgement of that alert and was told it was recorded, and
\* whoever was told so finds the alert acknowledged.
AcknowledgementIsOwned ==
    /\ \A a \in DOMAIN alerts : alerts[a].at # None =>
          LET k == alerts[a].at
          IN  /\ request[k].pc = "accepted"
              /\ request[k].alert = a
              /\ request[k].operator = alerts[a].by
    /\ \A k \in Requests : request[k].pc = "accepted" =>
          alerts[request[k].alert].at # None

\* An alert shows one verdict, its severity, its last reading and its reason
\* codes all of one series, unless two passes overlapped on its point: the
\* columns a refresh leaves out are right when nobody wrote them meanwhile.
OneVerdictUnlessOverlapped ==
    \A a \in DOMAIN alerts : alerts[a].point \notin overlapped =>
        \E n \in 1 .. Len(History) : \A c \in Evidence : alerts[a][c] = Verdict(n)[c]

-----------------------------------------------------------------------------
(* What the comments and documents say and the code does not do.           *)

\* "One open alert per point, refreshed rather than duplicated" (the comment
\* in run_detection, which counts overlapping passes among the cases).
OneOpenAlertPerPoint ==
    \A p \in Points : \A a, b \in Open(p) : a = b

\* "Keyed on the point while it is unacknowledged": a new verdict updates an
\* open alert, not one that an operator has acknowledged.
AcknowledgedEvidenceIsFrozen ==
    [][\A a \in DOMAIN alerts : alerts[a].at # None =>
          \A c \in Evidence : alerts'[a][c] = alerts[a][c]]_alerts
=============================================================================
