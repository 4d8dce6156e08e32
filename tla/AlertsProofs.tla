---------------------------- MODULE AlertsProofs ----------------------------
(***************************************************************************)
(* Proofs about Alerts, for any number of points, detector threads,        *)
(* acknowledgement requests and passes: the types, one open alert per      *)
(* detector thread, the ownership of acknowledgements and the separation   *)
(* of the columns that passes and operators write.                         *)
(***************************************************************************)
EXTENDS Alerts, TLAPS

-----------------------------------------------------------------------------
(* Facts about one row.                                                    *)

Verdicts == [last : Int, severity : {"action", "watch"}, codes : SUBSET Codes]

\* What the detector finds over a series it is not quiet about.
LEMMA VerdictTyped ==
    ASSUME NEW n \in 0 .. Len(History), ~Quiet(n)
    PROVE  Verdict(n) \in Verdicts
<1>1. n \in 1 .. Len(History) /\ History[n] \in [last : Int, codes : SUBSET Codes]
  <2> DEFINE T == [last : Int, codes : SUBSET Codes]
  <2>1. n \in 1 .. Len(History)
    BY DEF Quiet
  <2>2. History \in Seq(T)
    BY HistoryAssumption
  <2> HIDE DEF T
  <2>3. History[n] \in T
    BY <2>1, <2>2
  <2> QED BY <2>1, <2>3 DEF T
<1>2. History[n].last \in Int /\ History[n].codes \in SUBSET Codes
  BY <1>1
<1> QED BY <1>2 DEF Verdict, Verdicts

LEMMA NewRowTyped ==
    ASSUME NEW p \in Points, NEW verdict \in Verdicts
    PROVE  NewRow(p, verdict) \in Row
BY DEF NewRow, Verdicts, Row

\* A refresh writes evidence columns only.
LEMMA RefreshedColumns ==
    ASSUME NEW row \in Row, NEW loaded \in Row, NEW verdict \in Verdicts
    PROVE  /\ Refreshed(row, loaded, verdict) \in Row
           /\ \A c \in AckColumns : Refreshed(row, loaded, verdict)[c] = row[c]
           /\ Refreshed(row, loaded, verdict).point = row.point
           /\ Refreshed(row, loaded, verdict).at = row.at
           /\ Refreshed(row, loaded, verdict).by = row.by
BY DEF Refreshed, Row, Verdicts, Evidence, AckColumns

\* An acknowledgement writes its own columns only.
LEMMA AcknowledgedColumns ==
    ASSUME NEW row \in Row, NEW k \in Requests, NEW operator \in Operators,
           NEW note \in Notes \cup {None}
    PROVE  /\ Acknowledged(row, k, operator, note) \in Row
           /\ \A c \in Evidence : Acknowledged(row, k, operator, note)[c] = row[c]
           /\ Acknowledged(row, k, operator, note).point = row.point
           /\ Acknowledged(row, k, operator, note).at = k
           /\ Acknowledged(row, k, operator, note).by = operator
BY DEF Acknowledged, Row, Evidence

-----------------------------------------------------------------------------
(* The inductive invariant.                                                *)

\* A pass in progress has a point, and a target it loaded is on record.
PassIsSound ==
    \A d \in Detectors :
        /\ pass[d].pc # "idle" => pass[d].point \in Points
        /\ pass[d].target # None =>
              /\ pass[d].pc = "loaded"
              /\ pass[d].target \in DOMAIN alerts
              /\ pass[d].loaded \in Row

\* A request past its check names an alert on record and an operator.
RequestIsSound ==
    \A k \in Requests :
        request[k].pc \in {"loaded", "accepted"} =>
            request[k].alert \in DOMAIN alerts /\ request[k].operator \in Operators

\* uuid4: an alert is named after a pass begun earlier, never one in progress.
FreshIds ==
    \A a \in DOMAIN alerts :
        /\ a[2] <= passes[a[1]]
        /\ pass[a[1]].pc # "idle" => a[2] < passes[a[1]]

\* A pass that found no open alert is right about the alerts its own thread
\* raised: nobody else can add one of those before it commits.
NoOpenAlertOfOwn ==
    \A d \in Detectors :
        pass[d].pc = "loaded" /\ pass[d].target = None =>
            \A a \in Open(pass[d].point) : a[1] # d

IndInv ==
    /\ TypeOK
    /\ PassIsSound
    /\ RequestIsSound
    /\ FreshIds
    /\ NoOpenAlertOfOwn
    /\ OneOpenAlertPerDetector
    /\ AcknowledgementIsOwned

\* Steps that leave the alerts alone and let the passes be.
LEMMA IndOther ==
    ASSUME IndInv, UNCHANGED <<alerts, passes, pass, request, overlapped>>,
           series' \in [Points -> 0 .. Len(History)]
    PROVE  IndInv'
BY DEF IndInv, TypeOK, PassIsSound, RequestIsSound, FreshIds, NoOpenAlertOfOwn,
       OneOpenAlertPerDetector, AcknowledgementIsOwned, Open

LEMMA IndReadSeries ==
    ASSUME IndInv, NEW d \in Detectors, NEW p \in Points, ReadSeries(d, p)
    PROVE  IndInv'
<1> USE DEF IndInv
<1>1. /\ UNCHANGED <<series, alerts, request, overlapped>>
      /\ passes' = [passes EXCEPT ![d] = @ + 1]
      /\ pass[d].pc = "idle"
      /\ pass' = [pass EXCEPT ![d] = [@ EXCEPT !.pc = "detected", !.point = p,
                                               !.length = series[p]]]
  BY DEF ReadSeries, TypeOK
<1>2. pass[d] \in Pass /\ series[p] \in 0 .. Len(History)
  BY DEF TypeOK
<1>3. /\ pass'[d] \in Pass /\ pass'[d].pc = "detected" /\ pass'[d].point = p
      /\ pass'[d].target = pass[d].target /\ pass'[d].loaded = pass[d].loaded
      /\ \A e \in Detectors \ {d} : pass'[e] = pass[e]
  BY <1>1, <1>2 DEF Pass, TypeOK
<1>4. TypeOK'
  BY <1>1, <1>3 DEF TypeOK
<1>5. PassIsSound'
  BY <1>1, <1>3 DEF PassIsSound
<1>6. FreshIds'
  BY <1>1, <1>3 DEF FreshIds, TypeOK, AlertIds
<1>7. NoOpenAlertOfOwn'
  BY <1>1, <1>3 DEF NoOpenAlertOfOwn, Open
<1> QED BY <1>1, <1>4, <1>5, <1>6, <1>7
        DEF RequestIsSound, OneOpenAlertPerDetector, AcknowledgementIsOwned, Open

LEMMA IndLoadOpen ==
    ASSUME IndInv, NEW d \in Detectors, LoadOpen(d)
    PROVE  IndInv'
<1> USE DEF IndInv
<1>1. UNCHANGED <<series, alerts, passes, request>> /\ pass[d].pc = "detected"
  BY DEF LoadOpen
<1>2. pass[d] \in Pass /\ pass[d].target = None /\ pass[d].point \in Points
  BY <1>1 DEF TypeOK, PassIsSound
<1> DEFINE SamePoint == pass'[d] \in Pass /\ pass'[d].pc = "loaded"
                           /\ pass'[d].point = pass[d].point
<1>3. /\ SamePoint
      /\ \/ pass'[d].target = None /\ Open(pass[d].point) = {}
         \/ /\ pass'[d].target # None
            /\ pass'[d].target \in DOMAIN alerts /\ pass'[d].loaded \in Row
  <2>1. ASSUME Open(pass[d].point) = {}, pass' = [pass EXCEPT ![d].pc = "loaded"]
        PROVE  SamePoint /\ pass'[d].target = None
    BY <1>2, <2>1 DEF Pass, TypeOK
  <2>2. ASSUME NEW a \in Open(pass[d].point),
               pass' = [pass EXCEPT ![d].pc = "loaded", ![d].target = a,
                                    ![d].loaded = alerts[a]]
        PROVE  SamePoint /\ pass'[d].target = a /\ pass'[d].loaded = alerts[a]
    <3>1. a \in DOMAIN alerts /\ a \in AlertIds /\ alerts[a] \in Row
      BY DEF Open, TypeOK
    <3> QED BY <1>2, <2>2, <3>1 DEF Pass, TypeOK
  <2>3. \A a \in Open(pass[d].point) :
           a \in DOMAIN alerts /\ alerts[a] \in Row /\ a # None
    BY NoneAssumption DEF Open, TypeOK, AlertIds
  <2> HIDE DEF SamePoint
  <2> QED BY <2>1, <2>2, <2>3 DEF LoadOpen
<1>4. \A e \in Detectors \ {d} : pass'[e] = pass[e]
  BY DEF LoadOpen, TypeOK
<1>5. TypeOK'
  <2>1. pass' \in [Detectors -> Pass]
    BY <1>3, <1>4 DEF LoadOpen, TypeOK
  <2>2. overlapped' \subseteq Points
    BY <1>2 DEF LoadOpen, NoteOverlap, TypeOK
  <2> QED BY <1>1, <2>1, <2>2 DEF TypeOK
<1>6. PassIsSound'
  BY <1>1, <1>2, <1>3, <1>4 DEF PassIsSound
<1>7. FreshIds'
  BY <1>1, <1>3, <1>4 DEF FreshIds, TypeOK, AlertIds
<1>8. NoOpenAlertOfOwn'
  BY <1>1, <1>3, <1>4 DEF NoOpenAlertOfOwn, Open
<1> QED BY <1>1, <1>5, <1>6, <1>7, <1>8
        DEF RequestIsSound, OneOpenAlertPerDetector, AcknowledgementIsOwned, Open

\* What EndPass leaves behind.
LEMMA EndPassEffects ==
    ASSUME TypeOK, NEW d \in Detectors, EndPass(d)
    PROVE  /\ UNCHANGED <<series, passes, request, overlapped>>
           /\ pass' \in [Detectors -> Pass]
           /\ pass'[d].pc = "idle" /\ pass'[d].target = None
           /\ \A e \in Detectors \ {d} : pass'[e] = pass[e]
<1>1. IdlePass \in Pass /\ IdlePass.pc = "idle" /\ IdlePass.target = None
  <2>1. 0 \in 0 .. Len(History)
    BY HistoryAssumption
  <2> QED BY <2>1 DEF IdlePass, Pass
<1>2. pass' = [pass EXCEPT ![d] = IdlePass] /\ UNCHANGED <<series, passes, request, overlapped>>
  BY DEF EndPass
<1> HIDE DEF IdlePass
<1> QED BY <1>1, <1>2 DEF TypeOK

LEMMA IndEndPass ==
    ASSUME IndInv, NEW d \in Detectors, EndPass(d), UNCHANGED alerts
    PROVE  IndInv'
<1> USE DEF IndInv
<1>1. /\ UNCHANGED <<series, alerts, passes, request, overlapped>>
      /\ pass' \in [Detectors -> Pass]
      /\ pass'[d].pc = "idle" /\ pass'[d].target = None
      /\ \A e \in Detectors \ {d} : pass'[e] = pass[e]
  BY EndPassEffects
<1>2. TypeOK'
  BY <1>1 DEF TypeOK
<1>3. PassIsSound'
  BY <1>1 DEF PassIsSound
<1>4. FreshIds'
  <2>1. \A a \in DOMAIN alerts : a[1] \in Detectors
    BY DEF TypeOK, AlertIds
  <2>2. \A e \in Detectors : pass'[e].pc # "idle" => pass[e].pc # "idle"
    BY <1>1
  <2> QED BY <1>1, <2>1, <2>2 DEF FreshIds
<1>5. NoOpenAlertOfOwn'
  BY <1>1 DEF NoOpenAlertOfOwn, Open
<1> QED BY <1>1, <1>2, <1>3, <1>4, <1>5
        DEF RequestIsSound, OneOpenAlertPerDetector, AcknowledgementIsOwned, Open

\* A thread raises an alert only where it has no open one.
LEMMA IndRaiseAlert ==
    ASSUME IndInv, NEW d \in Detectors, RaiseAlert(d)
    PROVE  IndInv'
<1> USE DEF IndInv
<1> DEFINE new == <<d, passes[d]>>
           p == pass[d].point
           row == NewRow(p, Verdict(pass[d].length))
<1>1. /\ UNCHANGED <<series, passes, request, overlapped>>
      /\ pass' \in [Detectors -> Pass]
      /\ pass'[d].pc = "idle" /\ pass'[d].target = None
      /\ \A e \in Detectors \ {d} : pass'[e] = pass[e]
  BY EndPassEffects DEF RaiseAlert
<1>2. /\ alerts' = [a \in DOMAIN alerts \cup {new} |-> IF a = new THEN row ELSE alerts[a]]
      /\ pass[d].pc = "loaded" /\ pass[d].target = None /\ ~Quiet(pass[d].length)
  BY DEF RaiseAlert
<1>3. row \in Row /\ row.point = p /\ row.at = None
  <2>1. p \in Points /\ pass[d].length \in 0 .. Len(History)
    BY <1>2 DEF PassIsSound, TypeOK, Pass
  <2>2. Verdict(pass[d].length) \in Verdicts
    BY <1>2, <2>1, VerdictTyped
  <2>3. row \in Row
    BY <2>1, <2>2, NewRowTyped
  <2> QED BY <2>3 DEF NewRow
<1>4. new \in AlertIds /\ new \notin DOMAIN alerts /\ new # None
  <2>1. passes[d] \in Nat
    BY DEF TypeOK
  <2>2. new[1] = d /\ new[2] = passes[d]
    OBVIOUS
  <2>3. ~(passes[d] < passes[d])
    BY <2>1
  <2> QED BY <1>2, <2>1, <2>2, <2>3, NoneAssumption DEF FreshIds, AlertIds
<1> HIDE DEF new, row
<1>5. /\ DOMAIN alerts' = DOMAIN alerts \cup {new}
      /\ alerts'[new] = row
      /\ \A a \in DOMAIN alerts : alerts'[a] = alerts[a]
  BY <1>2, <1>4
<1>6. TypeOK'
  BY <1>1, <1>3, <1>4, <1>5 DEF TypeOK
<1>7. PassIsSound'
  BY <1>1, <1>5 DEF PassIsSound
<1>8. RequestIsSound'
  BY <1>1, <1>5 DEF RequestIsSound
<1>9. FreshIds'
  <2>1. \A a \in DOMAIN alerts : a[1] \in Detectors
    BY DEF TypeOK, AlertIds
  <2>2. \A e \in Detectors : pass'[e].pc # "idle" => pass[e].pc # "idle"
    BY <1>1
  <2>3. new[1] = d /\ new[2] = passes[d] /\ passes[d] \in Nat
    BY DEF new, TypeOK
  <2> QED BY <1>1, <1>5, <2>1, <2>2, <2>3 DEF FreshIds
<1>10. \A q \in Points : Open(q)' = IF q = p THEN Open(q) \cup {new} ELSE Open(q)
  BY <1>3, <1>4, <1>5 DEF Open
<1>11. new[1] = d /\ (\A a \in Open(p) : a[1] # d)
  BY <1>2 DEF new, NoOpenAlertOfOwn
<1>12. p \in Points
  BY <1>2 DEF PassIsSound
<1> HIDE DEF p
<1>13. NoOpenAlertOfOwn'
  <2> SUFFICES ASSUME NEW e \in Detectors,
                      pass'[e].pc = "loaded", pass'[e].target = None,
                      NEW a \in DOMAIN alerts',
                      alerts'[a].point = pass'[e].point, alerts'[a].at = None
               PROVE  a[1] # e
    BY DEF NoOpenAlertOfOwn, Open
  <2>1. e # d /\ pass'[e] = pass[e]
    BY <1>1
  <2>2. a \in Open(pass[e].point) \/ a = new
    BY <1>5, <2>1 DEF Open
  <2> QED BY <1>11, <2>1, <2>2 DEF NoOpenAlertOfOwn
<1>14. OneOpenAlertPerDetector'
  BY <1>10, <1>11 DEF OneOpenAlertPerDetector
<1>15. AcknowledgementIsOwned'
  <2>1. \A a \in DOMAIN alerts' : alerts'[a].at # None =>
           a \in DOMAIN alerts /\ alerts'[a] = alerts[a]
    BY <1>3, <1>5
  <2>2. \A k \in Requests : request[k].pc = "accepted" => request[k].alert \in DOMAIN alerts
    BY DEF RequestIsSound
  <2> QED BY <1>1, <1>5, <2>1, <2>2 DEF AcknowledgementIsOwned
<1> QED BY <1>6, <1>7, <1>8, <1>9, <1>13, <1>14, <1>15

LEMMA IndRefreshAlert ==
    ASSUME IndInv, NEW d \in Detectors, RefreshAlert(d)
    PROVE  IndInv'
<1> USE DEF IndInv
<1> DEFINE t == pass[d].target
<1>1. /\ UNCHANGED <<series, passes, request, overlapped>>
      /\ pass' \in [Detectors -> Pass]
      /\ pass'[d].pc = "idle" /\ pass'[d].target = None
      /\ \A e \in Detectors \ {d} : pass'[e] = pass[e]
  BY EndPassEffects DEF RefreshAlert
<1>2. /\ alerts' = [alerts EXCEPT ![t] =
                        Refreshed(@, pass[d].loaded, Verdict(pass[d].length))]
      /\ t # None /\ ~Quiet(pass[d].length)
  BY DEF RefreshAlert
<1>3. t \in DOMAIN alerts /\ pass[d].loaded \in Row /\ alerts[t] \in Row
  BY <1>2 DEF PassIsSound, TypeOK
<1>4. Verdict(pass[d].length) \in Verdicts
  <2>1. pass[d].length \in 0 .. Len(History)
    BY DEF TypeOK, Pass
  <2> QED BY <1>2, <2>1, VerdictTyped
<1>5. /\ DOMAIN alerts' = DOMAIN alerts
      /\ alerts'[t] = Refreshed(alerts[t], pass[d].loaded, Verdict(pass[d].length))
      /\ \A a \in DOMAIN alerts \ {t} : alerts'[a] = alerts[a]
  BY <1>2, <1>3
<1>6. \A a \in DOMAIN alerts :
         /\ alerts'[a] \in Row /\ alerts'[a].point = alerts[a].point
         /\ alerts'[a].at = alerts[a].at /\ alerts'[a].by = alerts[a].by
  <2>1. /\ alerts'[t] \in Row /\ alerts'[t].point = alerts[t].point
        /\ alerts'[t].at = alerts[t].at /\ alerts'[t].by = alerts[t].by
    <3> DEFINE v == Verdict(pass[d].length)
               l == pass[d].loaded
               r == alerts[t]
    <3>1. r \in Row /\ l \in Row /\ v \in Verdicts /\ alerts'[t] = Refreshed(r, l, v)
      BY <1>3, <1>4, <1>5
    <3> HIDE DEF v, l
    <3>2. /\ Refreshed(r, l, v) \in Row /\ Refreshed(r, l, v).point = r.point
          /\ Refreshed(r, l, v).at = r.at /\ Refreshed(r, l, v).by = r.by
      <4> HIDE DEF r
      <4> QED BY <3>1, RefreshedColumns
    <3> QED BY <3>1, <3>2
  <2>2. \A a \in DOMAIN alerts \ {t} : alerts'[a] \in Row
    BY <1>5 DEF TypeOK
  <2> HIDE DEF t
  <2> QED BY <1>5, <2>1, <2>2
<1>7. TypeOK'
  BY <1>1, <1>5, <1>6 DEF TypeOK
<1>8. PassIsSound' /\ RequestIsSound'
  BY <1>1, <1>5 DEF PassIsSound, RequestIsSound
<1>9. FreshIds'
  <2>1. \A a \in DOMAIN alerts : a[1] \in Detectors
    BY DEF TypeOK, AlertIds
  <2>2. \A e \in Detectors : pass'[e].pc # "idle" => pass[e].pc # "idle"
    BY <1>1
  <2> QED BY <1>1, <1>5, <2>1, <2>2 DEF FreshIds
<1>10. \A p : Open(p)' \subseteq Open(p)
  BY <1>5, <1>6 DEF Open
<1>11. NoOpenAlertOfOwn' /\ OneOpenAlertPerDetector'
  BY <1>1, <1>10 DEF NoOpenAlertOfOwn, OneOpenAlertPerDetector
<1>12. AcknowledgementIsOwned'
  <2>1. \A k \in Requests : request[k].pc = "accepted" => request[k].alert \in DOMAIN alerts
    BY DEF RequestIsSound
  <2> QED BY <1>1, <1>5, <1>6, <2>1 DEF AcknowledgementIsOwned
<1> QED BY <1>7, <1>8, <1>9, <1>11, <1>12

\* A request that is not accepted has acknowledged nothing, so what happens
\* to it before it commits concerns no row.
LEMMA IndRequest ==
    ASSUME IndInv, NEW k \in Requests, UNCHANGED <<series, alerts, passes, pass, overlapped>>,
           request[k].pc # "accepted",
           request' \in [Requests -> Request],
           \A j \in Requests \ {k} : request'[j] = request[j],
           request'[k].pc # "accepted",
           request'[k].pc = "loaded" =>
               request'[k].alert \in DOMAIN alerts /\ request'[k].operator \in Operators
    PROVE  IndInv'
<1> USE DEF IndInv
<1>1. TypeOK'
  BY DEF TypeOK
<1>2. RequestIsSound'
  BY DEF RequestIsSound
<1>3. AcknowledgementIsOwned'
  <2>1. \A a \in DOMAIN alerts : alerts[a].at # None => alerts[a].at \in Requests \ {k}
    BY DEF TypeOK, Row, AcknowledgementIsOwned
  <2> QED BY <2>1 DEF AcknowledgementIsOwned
<1> QED BY <1>1, <1>2, <1>3
        DEF PassIsSound, FreshIds, NoOpenAlertOfOwn, OneOpenAlertPerDetector, Open

LEMMA IndLoadAlert ==
    ASSUME IndInv, NEW k \in Requests, NEW a \in DOMAIN alerts,
           NEW operator \in Operators, NEW note \in Notes \cup {None},
           LoadAlert(k, a, operator, note) \/ RefuseAck(k, a, operator, note)
    PROVE  IndInv'
<1>1. PICK c \in {"loaded", "refused"} :
         /\ request' = [request EXCEPT ![k] = [pc |-> c, alert |-> a,
                                               operator |-> operator, note |-> note]]
         /\ request[k].pc = "new"
         /\ UNCHANGED <<series, alerts, passes, pass, overlapped>>
  BY DEF LoadAlert, RefuseAck
<1>2. [pc |-> c, alert |-> a, operator |-> operator, note |-> note] \in Request
  BY DEF IndInv, TypeOK, Request
<1>3. /\ request' \in [Requests -> Request]
      /\ request'[k].pc = c /\ request'[k].alert = a /\ request'[k].operator = operator
      /\ \A j \in Requests \ {k} : request'[j] = request[j]
  BY <1>1, <1>2 DEF IndInv, TypeOK
<1> QED BY <1>1, <1>3, IndRequest

LEMMA IndAbortAck ==
    ASSUME IndInv, NEW k \in Requests, AbortAck(k)
    PROVE  IndInv'
<1>1. request' \in [Requests -> Request] /\ request'[k].pc = "failed"
  BY DEF AbortAck, IndInv, TypeOK, Request
<1> QED BY <1>1, IndRequest DEF AbortAck, IndInv, TypeOK

\* A committed acknowledgement: the row names the request and its operator.
LEMMA IndCommitAck ==
    ASSUME IndInv, NEW k \in Requests, CommitAck(k)
    PROVE  IndInv'
<1> USE DEF IndInv
<1> DEFINE t == request[k].alert
           op == request[k].operator
           n == request[k].note
<1>1. /\ UNCHANGED <<series, passes, pass, overlapped>>
      /\ request[k].pc = "loaded"
      /\ alerts' = [alerts EXCEPT ![t] = Acknowledged(@, k, op, n)]
      /\ request' = [request EXCEPT ![k].pc = "accepted"]
  BY DEF CommitAck
<1>2. request[k] \in Request /\ t \in DOMAIN alerts /\ op \in Operators
      /\ n \in Notes \cup {None} /\ alerts[t] \in Row
  BY <1>1 DEF TypeOK, RequestIsSound, Request
<1>3. /\ request' \in [Requests -> Request]
      /\ request'[k].pc = "accepted" /\ request'[k].alert = t /\ request'[k].operator = op
      /\ \A j \in Requests \ {k} : request'[j] = request[j]
  BY <1>1, <1>2 DEF TypeOK, Request
<1> HIDE DEF t, op, n
<1>4. /\ DOMAIN alerts' = DOMAIN alerts
      /\ alerts'[t] = Acknowledged(alerts[t], k, op, n)
      /\ \A a \in DOMAIN alerts \ {t} : alerts'[a] = alerts[a]
  BY <1>1, <1>2
<1>5. /\ alerts'[t] \in Row /\ alerts'[t].point = alerts[t].point
      /\ alerts'[t].at = k /\ alerts'[t].by = op
  BY <1>2, <1>4, AcknowledgedColumns
<1>6. k # None
  BY NoneAssumption
<1>7. TypeOK'
  BY <1>1, <1>3, <1>4, <1>5 DEF TypeOK
<1>8. PassIsSound' /\ FreshIds'
  BY <1>1, <1>4 DEF PassIsSound, FreshIds
<1>9. RequestIsSound'
  BY <1>2, <1>3, <1>4 DEF RequestIsSound
<1>10. \A p : Open(p)' \subseteq Open(p)
  BY <1>4, <1>5, <1>6 DEF Open
<1>11. NoOpenAlertOfOwn' /\ OneOpenAlertPerDetector'
  BY <1>1, <1>10 DEF NoOpenAlertOfOwn, OneOpenAlertPerDetector
<1>12. AcknowledgementIsOwned'
  <2>1. \A j \in Requests : request[j].pc = "accepted" => request[j].alert \in DOMAIN alerts
    BY DEF RequestIsSound
  <2>2. \A a \in DOMAIN alerts : alerts[a].at # None => alerts[a].at \in Requests
    BY DEF TypeOK, Row
  <2> QED BY <1>1, <1>3, <1>4, <1>5, <1>6, <2>1, <2>2 DEF AcknowledgementIsOwned
<1> QED BY <1>7, <1>8, <1>9, <1>11, <1>12

LEMMA IndStep ==
    ASSUME IndInv, [Next]_vars
    PROVE  IndInv'
<1>1. ASSUME NEW p \in Points, NewReading(p)
      PROVE  IndInv'
  <2>1. series' \in [Points -> 0 .. Len(History)]
    BY <1>1, HistoryAssumption DEF NewReading, IndInv, TypeOK
  <2> QED BY <1>1, <2>1, IndOther DEF NewReading
<1>2. ASSUME NEW d \in Detectors, DetectorStep(d)
      PROVE  IndInv'
  <2>1. (QuietPass(d) \/ AbortPass(d)) => IndInv'
    BY IndEndPass DEF QuietPass, AbortPass
  <2> QED BY <1>2, <2>1, IndReadSeries, IndLoadOpen, IndRaiseAlert, IndRefreshAlert
          DEF DetectorStep
<1>3. ASSUME NEW k \in Requests, RequestStep(k)
      PROVE  IndInv'
  BY <1>3, IndLoadAlert, IndCommitAck, IndAbortAck DEF RequestStep
<1>4. CASE UNCHANGED vars
  BY <1>4, IndOther DEF vars, IndInv, TypeOK
<1> QED BY <1>1, <1>2, <1>3, <1>4 DEF Next

LEMMA IndInvariant == Spec => []IndInv
<1>1. Init => IndInv
  <2> SUFFICES ASSUME Init PROVE IndInv
    OBVIOUS
  <2>1. /\ DOMAIN alerts = {}
        /\ \A d \in Detectors : pass[d].pc = "idle" /\ pass[d].target = None
        /\ \A k \in Requests : request[k].pc = "new"
    BY DEF Init, IdlePass, NewRequest
  <2>2. TypeOK
    <3>1. 0 \in 0 .. Len(History)
      BY HistoryAssumption
    <3> QED BY <3>1 DEF Init, TypeOK, IdlePass, NewRequest, Pass, Request
  <2> QED BY <2>1, <2>2 DEF IndInv, PassIsSound, RequestIsSound, FreshIds, NoOpenAlertOfOwn,
                            OneOpenAlertPerDetector, AcknowledgementIsOwned, Open
<1> QED BY <1>1, IndStep, PTL DEF Spec

-----------------------------------------------------------------------------
(* The window between the SELECT of the open alerts and the commit.        *)

\* A target stays a row of the pass's point.
TargetIsOfPoint ==
    \A d \in Detectors :
        pass[d].target # None => alerts[pass[d].target].point = pass[d].point

\* On a point that is not overlapped one pass at a time is in the window, and
\* what it loaded is still so: no open alert, or the evidence of its target.
WindowIsExclusive ==
    \A d \in Detectors : pass[d].pc = "loaded" /\ pass[d].point \notin overlapped =>
        /\ \A e \in Detectors \ {d} :
              ~(pass[e].pc = "loaded" /\ pass[e].point = pass[d].point)
        /\ pass[d].target = None => Open(pass[d].point) = {}
        /\ pass[d].target # None =>
              \A c \in Evidence : alerts[pass[d].target][c] = pass[d].loaded[c]

WindowInv ==
    /\ TargetIsOfPoint
    /\ WindowIsExclusive
    /\ OneOpenAlertUnlessOverlapped
    /\ OneVerdictUnlessOverlapped

\* Steps that leave the alerts alone and bring no pass into the window.
LEMMA WindowUndisturbed ==
    ASSUME IndInv, WindowInv, UNCHANGED <<alerts, overlapped>>,
           \A d \in Detectors : pass'[d] = pass[d]
                             \/ (pass'[d].pc # "loaded" /\ pass'[d].target = None)
    PROVE  WindowInv'
<1>1. TargetIsOfPoint'
  BY DEF WindowInv, TargetIsOfPoint
<1>2. WindowIsExclusive'
  BY DEF WindowInv, WindowIsExclusive, Open
<1> QED BY <1>1, <1>2
        DEF WindowInv, OneOpenAlertUnlessOverlapped, OneVerdictUnlessOverlapped, Open

LEMMA WindowLoadOpen ==
    ASSUME IndInv, WindowInv, NEW d \in Detectors, LoadOpen(d)
    PROVE  WindowInv'
<1> USE DEF WindowInv
<1>1. alerts' = alerts /\ overlapped \subseteq overlapped'
  BY DEF LoadOpen, NoteOverlap
<1>2. /\ pass'[d].pc = "loaded" /\ pass'[d].point = pass[d].point
      /\ \/ pass'[d].target = None /\ Open(pass[d].point) = {}
         \/ /\ pass'[d].target \in Open(pass[d].point)
            /\ pass'[d].loaded = alerts[pass'[d].target]
      /\ \A e \in Detectors \ {d} : pass'[e] = pass[e]
  <2>1. pass[d].target = None /\ pass[d] \in Pass /\ pass \in [Detectors -> Pass]
    BY DEF IndInv, PassIsSound, LoadOpen, TypeOK
  <2>2. CASE Open(pass[d].point) = {} /\ pass' = [pass EXCEPT ![d].pc = "loaded"]
    BY <2>1, <2>2 DEF Pass
  <2>3. ASSUME NEW a \in Open(pass[d].point),
               pass' = [pass EXCEPT ![d].pc = "loaded", ![d].target = a,
                                    ![d].loaded = alerts[a]]
        PROVE  <1>2
    BY <2>1, <2>3 DEF Pass
  <2> QED BY <2>2, <2>3 DEF LoadOpen
<1>3. \A e \in Detectors \ {d} : pass[e].pc = "loaded" /\ pass[e].point = pass[d].point =>
         pass[d].point \in overlapped'
  BY DEF LoadOpen, NoteOverlap
<1>4. TargetIsOfPoint'
  BY <1>1, <1>2 DEF TargetIsOfPoint, Open
<1>5. WindowIsExclusive'
  <2> SUFFICES ASSUME NEW e \in Detectors, pass'[e].pc = "loaded",
                      pass'[e].point \notin overlapped'
               PROVE  /\ \A f \in Detectors \ {e} :
                            ~(pass'[f].pc = "loaded" /\ pass'[f].point = pass'[e].point)
                      /\ pass'[e].target = None => Open(pass'[e].point) = {}
                      /\ pass'[e].target # None =>
                            \A c \in Evidence :
                               alerts[pass'[e].target][c] = pass'[e].loaded[c]
    BY <1>1 DEF WindowIsExclusive, Open
  <2>1. CASE e = d
    <3>1. \A f \in Detectors \ {d} :
             ~(pass'[f].pc = "loaded" /\ pass'[f].point = pass'[d].point)
      BY <1>2, <1>3, <2>1
    <3>2. \A a \in Open(pass[d].point) : a # None
      BY NoneAssumption DEF Open, IndInv, TypeOK, AlertIds
    <3> QED BY <1>2, <2>1, <3>1, <3>2
  <2>2. CASE e # d
    <3>1. pass'[e] = pass[e] /\ pass[e].point \notin overlapped
      BY <1>1, <1>2, <2>2
    <3>2. pass[e].point # pass[d].point
      BY <1>3, <2>2, <3>1
    <3>3. \A f \in Detectors \ {e} :
             ~(pass'[f].pc = "loaded" /\ pass'[f].point = pass'[e].point)
      BY <1>2, <3>1, <3>2 DEF WindowIsExclusive
    <3> QED BY <3>1, <3>3 DEF WindowIsExclusive
  <2> QED BY <2>1, <2>2
<1> QED BY <1>1, <1>4, <1>5
        DEF OneOpenAlertUnlessOverlapped, OneVerdictUnlessOverlapped, Open

LEMMA WindowRaiseAlert ==
    ASSUME IndInv, WindowInv, NEW d \in Detectors, RaiseAlert(d)
    PROVE  WindowInv'
<1> USE DEF WindowInv
<1> DEFINE new == <<d, passes[d]>>
           p == pass[d].point
           n == pass[d].length
           row == NewRow(p, Verdict(n))
<1>1. /\ overlapped' = overlapped
      /\ pass'[d].pc = "idle" /\ pass'[d].target = None
      /\ \A e \in Detectors \ {d} : pass'[e] = pass[e]
  BY EndPassEffects DEF RaiseAlert, IndInv
<1>2. pass[d].pc = "loaded" /\ pass[d].target = None /\ n \in 1 .. Len(History)
  <2>1. ~Quiet(n) => n \in 1 .. Len(History)
    BY DEF Quiet
  <2> QED BY <2>1 DEF RaiseAlert
<1>3. new \notin DOMAIN alerts
  <2>1. passes[d] \in Nat /\ ~(passes[d] < passes[d])
    BY DEF IndInv, TypeOK
  <2> QED BY <1>2, <2>1 DEF IndInv, FreshIds
<1>4. /\ DOMAIN alerts' = DOMAIN alerts \cup {new}
      /\ alerts'[new] = row
      /\ \A a \in DOMAIN alerts : alerts'[a] = alerts[a]
  BY <1>3 DEF RaiseAlert
<1>5. row.point = p /\ row.at = None /\ \A c \in Evidence : row[c] = Verdict(n)[c]
  BY DEF NewRow, Verdict, Evidence
<1> HIDE DEF new, row
<1>6. TargetIsOfPoint'
  BY <1>1, <1>4 DEF TargetIsOfPoint, IndInv, PassIsSound
<1>7. \A q : Open(q)' \subseteq IF q = p THEN Open(q) \cup {new} ELSE Open(q)
  BY <1>4, <1>5 DEF Open
<1>8. p \notin overlapped => Open(p) = {}
  BY <1>2 DEF WindowIsExclusive
<1>9. WindowIsExclusive'
  <2> SUFFICES ASSUME NEW e \in Detectors, pass'[e].pc = "loaded",
                      pass'[e].point \notin overlapped'
               PROVE  /\ \A f \in Detectors \ {e} :
                            ~(pass'[f].pc = "loaded" /\ pass'[f].point = pass'[e].point)
                      /\ pass'[e].target = None =>
                            \A a \in DOMAIN alerts' :
                               ~(alerts'[a].point = pass'[e].point /\ alerts'[a].at = None)
                      /\ pass'[e].target # None =>
                            \A c \in Evidence :
                               alerts'[pass'[e].target][c] = pass'[e].loaded[c]
    BY DEF WindowIsExclusive, Open
  <2>1. e # d /\ pass'[e] = pass[e]
    BY <1>1
  <2>2. pass[e].point # p
    BY <1>1, <1>2, <2>1 DEF WindowIsExclusive
  <2>3. pass[e].target # None => pass[e].target \in DOMAIN alerts
    BY DEF IndInv, PassIsSound
  <2>4. pass[e].target = None => Open(pass[e].point) = {}
    BY <1>1, <2>1 DEF WindowIsExclusive
  <2> QED BY <1>1, <1>4, <1>5, <2>1, <2>2, <2>3, <2>4 DEF WindowIsExclusive, Open
<1>10. OneOpenAlertUnlessOverlapped'
  BY <1>1, <1>7, <1>8 DEF OneOpenAlertUnlessOverlapped
<1>11. OneVerdictUnlessOverlapped'
  <2> SUFFICES ASSUME NEW a \in DOMAIN alerts', alerts'[a].point \notin overlapped'
               PROVE  \E i \in 1 .. Len(History) :
                         \A c \in Evidence : alerts'[a][c] = Verdict(i)[c]
    BY DEF OneVerdictUnlessOverlapped, Verdict
  <2>1. CASE a = new
    BY <1>2, <1>4, <1>5, <2>1
  <2>2. CASE a \in DOMAIN alerts
    BY <1>1, <1>4, <2>2 DEF OneVerdictUnlessOverlapped
  <2> QED BY <1>4, <2>1, <2>2
<1> QED BY <1>6, <1>9, <1>10, <1>11

LEMMA WindowRefreshAlert ==
    ASSUME IndInv, WindowInv, NEW d \in Detectors, RefreshAlert(d)
    PROVE  WindowInv'
<1> USE DEF WindowInv
<1> DEFINE t == pass[d].target
           p == pass[d].point
           n == pass[d].length
           r == alerts[t]
           l == pass[d].loaded
           v == Verdict(n)
<1>1. /\ overlapped' = overlapped
      /\ pass'[d].pc = "idle" /\ pass'[d].target = None
      /\ \A e \in Detectors \ {d} : pass'[e] = pass[e]
  BY EndPassEffects DEF RefreshAlert, IndInv
<1>2. /\ pass[d].pc = "loaded" /\ t # None /\ t \in DOMAIN alerts
      /\ l \in Row /\ r \in Row /\ r.point = p
      /\ n \in 1 .. Len(History) /\ ~Quiet(n)
  <2>1. ~Quiet(n) => n \in 1 .. Len(History)
    BY DEF Quiet
  <2>2. pass[d].pc = "loaded" /\ t # None /\ ~Quiet(n)
    BY DEF RefreshAlert
  <2> QED BY <2>1, <2>2 DEF IndInv, TypeOK, PassIsSound, TargetIsOfPoint
<1>3. v \in Verdicts
  <2>1. n \in 0 .. Len(History)
    BY DEF IndInv, TypeOK, Pass
  <2> QED BY <1>2, <2>1, VerdictTyped
<1>4. /\ DOMAIN alerts' = DOMAIN alerts
      /\ alerts'[t] = Refreshed(r, l, v)
      /\ \A a \in DOMAIN alerts \ {t} : alerts'[a] = alerts[a]
  BY <1>2 DEF RefreshAlert
<1>5. Refreshed(r, l, v).point = r.point /\ Refreshed(r, l, v).at = r.at
  <2> HIDE DEF r, l, v
  <2> QED BY <1>2, <1>3, RefreshedColumns
<1>6. p \notin overlapped => \A c \in Evidence : Refreshed(r, l, v)[c] = v[c]
  <2>1. p \notin overlapped => \A c \in Evidence : r[c] = l[c]
    BY <1>2 DEF WindowIsExclusive
  <2>2. \A c \in Evidence : Refreshed(r, l, v)[c] = IF v[c] # l[c] THEN v[c] ELSE r[c]
    <3>1. Evidence \subseteq DOMAIN r
      BY <1>2 DEF Evidence, Row
    <3> HIDE DEF r, l, v
    <3> QED BY <3>1 DEF Refreshed
  <2> HIDE DEF r, l, v, p
  <2> QED BY <2>1, <2>2
<1> HIDE DEF t, l, v, p, n
<1>7. \A a \in DOMAIN alerts :
         alerts'[a].point = alerts[a].point /\ alerts'[a].at = alerts[a].at
  BY <1>2, <1>4, <1>5
<1>8. \A q : Open(q)' = Open(q)
  BY <1>4, <1>7 DEF Open
<1>9. TargetIsOfPoint'
  BY <1>1, <1>4, <1>7 DEF TargetIsOfPoint, IndInv, PassIsSound
<1>10. WindowIsExclusive'
  <2> SUFFICES ASSUME NEW e \in Detectors, pass'[e].pc = "loaded",
                      pass'[e].point \notin overlapped'
               PROVE  /\ \A f \in Detectors \ {e} :
                            ~(pass'[f].pc = "loaded" /\ pass'[f].point = pass'[e].point)
                      /\ pass'[e].target = None =>
                            \A a \in DOMAIN alerts' :
                               ~(alerts'[a].point = pass'[e].point /\ alerts'[a].at = None)
                      /\ pass'[e].target # None =>
                            \A c \in Evidence :
                               alerts'[pass'[e].target][c] = pass'[e].loaded[c]
    BY DEF WindowIsExclusive, Open
  <2>1. e # d /\ pass'[e] = pass[e]
    BY <1>1
  <2>2. pass[e].point # p
    BY <1>1, <1>2, <2>1 DEF WindowIsExclusive, p
  <2>3. pass[e].target # None => pass[e].target \in DOMAIN alerts \ {t}
    BY <1>2, <2>2 DEF IndInv, PassIsSound, TargetIsOfPoint
  <2>4. \A f \in Detectors \ {e} :
           ~(pass'[f].pc = "loaded" /\ pass'[f].point = pass'[e].point)
    BY <1>1, <2>1 DEF WindowIsExclusive
  <2>5. pass[e].target = None => Open(pass[e].point) = {}
    BY <1>1, <2>1 DEF WindowIsExclusive
  <2>6. pass[e].target # None =>
           \A c \in Evidence : alerts[pass[e].target][c] = pass[e].loaded[c]
    BY <1>1, <2>1 DEF WindowIsExclusive
  <2> QED BY <1>4, <1>7, <2>1, <2>3, <2>4, <2>5, <2>6 DEF Open
<1>11. OneOpenAlertUnlessOverlapped'
  BY <1>1, <1>8 DEF OneOpenAlertUnlessOverlapped
<1>12. OneVerdictUnlessOverlapped'
  <2> SUFFICES ASSUME NEW a \in DOMAIN alerts', alerts'[a].point \notin overlapped'
               PROVE  \E i \in 1 .. Len(History) :
                         \A c \in Evidence : alerts'[a][c] = Verdict(i)[c]
    BY DEF OneVerdictUnlessOverlapped, Verdict
  <2>1. CASE a = t
    BY <1>1, <1>2, <1>4, <1>6, <1>7, <2>1 DEF v
  <2>2. CASE a # t
    BY <1>1, <1>4, <2>2 DEF OneVerdictUnlessOverlapped
  <2> QED BY <2>1, <2>2
<1> QED BY <1>9, <1>10, <1>11, <1>12

LEMMA WindowCommitAck ==
    ASSUME IndInv, WindowInv, NEW k \in Requests, CommitAck(k)
    PROVE  WindowInv'
<1> USE DEF WindowInv
<1> DEFINE t == request[k].alert
           r == alerts[t]
           op == request[k].operator
           n == request[k].note
<1>1. UNCHANGED <<pass, overlapped>>
  BY DEF CommitAck
<1>2. t \in DOMAIN alerts /\ r \in Row /\ op \in Operators /\ n \in Notes \cup {None}
  BY DEF CommitAck, IndInv, RequestIsSound, TypeOK, Request
<1>3. /\ DOMAIN alerts' = DOMAIN alerts
      /\ alerts'[t] = Acknowledged(r, k, op, n)
      /\ \A a \in DOMAIN alerts \ {t} : alerts'[a] = alerts[a]
  BY <1>2 DEF CommitAck
<1>4. /\ \A c \in Evidence : Acknowledged(r, k, op, n)[c] = r[c]
      /\ Acknowledged(r, k, op, n).point = r.point /\ Acknowledged(r, k, op, n).at = k
  <2> HIDE DEF r, op, n
  <2> QED BY <1>2, AcknowledgedColumns
<1>5. k # None
  BY NoneAssumption
<1> HIDE DEF t, op, n
<1>6. \A a \in DOMAIN alerts :
         /\ alerts'[a].point = alerts[a].point
         /\ alerts[a].at # None => alerts'[a].at # None
         /\ \A c \in Evidence : alerts'[a][c] = alerts[a][c]
  BY <1>2, <1>3, <1>4, <1>5
<1>7. \A q : Open(q)' \subseteq Open(q)
  BY <1>3, <1>6 DEF Open
<1>8. \A e \in Detectors : pass[e].target # None => pass[e].target \in DOMAIN alerts
  BY DEF IndInv, PassIsSound
<1>9. TargetIsOfPoint'
  BY <1>1, <1>6, <1>8 DEF TargetIsOfPoint
<1>10. WindowIsExclusive'
  <2> SUFFICES ASSUME NEW e \in Detectors, pass[e].pc = "loaded",
                      pass[e].point \notin overlapped
               PROVE  /\ \A f \in Detectors \ {e} :
                            ~(pass[f].pc = "loaded" /\ pass[f].point = pass[e].point)
                      /\ pass[e].target = None =>
                            \A a \in DOMAIN alerts' :
                               ~(alerts'[a].point = pass[e].point /\ alerts'[a].at = None)
                      /\ pass[e].target # None =>
                            \A c \in Evidence :
                               alerts'[pass[e].target][c] = pass[e].loaded[c]
    BY <1>1 DEF WindowIsExclusive, Open
  <2>1. /\ \A f \in Detectors \ {e} :
              ~(pass[f].pc = "loaded" /\ pass[f].point = pass[e].point)
        /\ pass[e].target = None => Open(pass[e].point) = {}
        /\ pass[e].target # None =>
              \A c \in Evidence : alerts[pass[e].target][c] = pass[e].loaded[c]
    BY DEF WindowIsExclusive
  <2> QED BY <1>3, <1>6, <1>8, <2>1 DEF Open
<1>11. OneOpenAlertUnlessOverlapped'
  BY <1>1, <1>7 DEF OneOpenAlertUnlessOverlapped
<1>12. OneVerdictUnlessOverlapped'
  <2> SUFFICES ASSUME NEW a \in DOMAIN alerts', alerts'[a].point \notin overlapped'
               PROVE  \E i \in 1 .. Len(History) :
                         \A c \in Evidence : alerts'[a][c] = Verdict(i)[c]
    BY DEF OneVerdictUnlessOverlapped, Verdict
  <2> QED BY <1>1, <1>3, <1>6 DEF OneVerdictUnlessOverlapped
<1> QED BY <1>9, <1>10, <1>11, <1>12

LEMMA WindowStep ==
    ASSUME IndInv, WindowInv, [Next]_vars
    PROVE  WindowInv'
<1>1. ASSUME NEW d \in Detectors, QuietPass(d) \/ AbortPass(d)
      PROVE  WindowInv'
  <2>1. EndPass(d) /\ UNCHANGED alerts
    BY <1>1 DEF QuietPass, AbortPass
  <2>2. /\ UNCHANGED <<alerts, overlapped>>
        /\ \A e \in Detectors : pass'[e] = pass[e]
                             \/ (pass'[e].pc # "loaded" /\ pass'[e].target = None)
    BY <2>1, EndPassEffects DEF IndInv
  <2> QED BY <2>2, WindowUndisturbed
<1>2. ASSUME NEW d \in Detectors, NEW p \in Points, ReadSeries(d, p)
      PROVE  WindowInv'
  <2>1. /\ pass \in [Detectors -> Pass] /\ pass[d].target = None
        /\ pass' = [pass EXCEPT ![d].pc = "detected", ![d].point = p, ![d].length = series[p]]
        /\ UNCHANGED <<alerts, overlapped>>
    BY <1>2 DEF ReadSeries, IndInv, TypeOK, PassIsSound
  <2>2. pass'[d].pc = "detected" /\ pass'[d].target = None
    BY <2>1 DEF Pass
  <2>3. \A e \in Detectors : pass'[e] = pass[e]
                         \/ (pass'[e].pc # "loaded" /\ pass'[e].target = None)
    BY <2>1, <2>2
  <2> QED BY <2>1, <2>3, WindowUndisturbed
<1>3. ASSUME UNCHANGED <<alerts, pass, overlapped>>
      PROVE  WindowInv'
  <2>1. /\ UNCHANGED <<alerts, overlapped>>
        /\ \A e \in Detectors : pass'[e] = pass[e]
                             \/ (pass'[e].pc # "loaded" /\ pass'[e].target = None)
    BY <1>3
  <2> QED BY <2>1, WindowUndisturbed
<1> QED BY <1>1, <1>2, <1>3, WindowLoadOpen, WindowRaiseAlert, WindowRefreshAlert, WindowCommitAck
        DEF Next, vars, NewReading, DetectorStep, RequestStep, LoadAlert, RefuseAck, AbortAck

LEMMA WindowInvariant == Spec => []WindowInv
<1>1. Init => WindowInv
  BY DEF Init, IdlePass, WindowInv, TargetIsOfPoint, WindowIsExclusive,
         OneOpenAlertUnlessOverlapped, OneVerdictUnlessOverlapped, Open
<1> QED BY <1>1, WindowStep, IndInvariant, PTL DEF Spec

-----------------------------------------------------------------------------
(* The theorems.                                                           *)

\* The table and the handlers' state keep their shapes: in particular the
\* reason codes stay reason codes.
THEOREM TypeCorrect == Spec => []TypeOK
BY IndInvariant, PTL DEF IndInv

\* No detector thread ever has two open alerts for one point.
THEOREM OneOpenPerDetector == Spec => []OneOpenAlertPerDetector
BY IndInvariant, PTL DEF IndInv

\* With a single detector thread a point has at most one open alert.
THEOREM OneOpenPerPoint ==
    ASSUME \A d, e \in Detectors : d = e
    PROVE  Spec => []OneOpenAlertPerPoint
<1>1. IndInv => OneOpenAlertPerPoint
  <2> SUFFICES ASSUME IndInv, NEW p \in Points, NEW a \in Open(p), NEW b \in Open(p)
               PROVE  a = b
    BY DEF OneOpenAlertPerPoint
  <2>1. a[1] \in Detectors /\ b[1] \in Detectors
    BY DEF IndInv, TypeOK, AlertIds, Open
  <2> QED BY <2>1 DEF IndInv, OneOpenAlertPerDetector
<1> QED BY <1>1, IndInvariant, PTL

\* A point that no two passes held loaded at a time has at most one open alert.
THEOREM OneOpenUnlessOverlapped == Spec => []OneOpenAlertUnlessOverlapped
BY WindowInvariant, PTL DEF WindowInv

\* On such a point every alert shows one verdict.
THEOREM OneVerdict == Spec => []OneVerdictUnlessOverlapped
BY WindowInvariant, PTL DEF WindowInv

\* Whoever stands in an acknowledged row asked for it and was told so.
THEOREM AcknowledgementsOwned == Spec => []AcknowledgementIsOwned
BY IndInvariant, PTL DEF IndInv

\* Passes and operators never write each other's columns, and no step removes,
\* moves or reopens an alert.
THEOREM ColumnsKept == Spec => ColumnsKeepTheirWriter
<1> DEFINE Kept ==
        /\ DOMAIN alerts \subseteq DOMAIN alerts'
        /\ \A a \in DOMAIN alerts :
              /\ alerts'[a].point = alerts[a].point
              /\ alerts[a].at # None => alerts'[a].at # None
              /\ \/ \A c \in Evidence : alerts'[a][c] = alerts[a][c]
                 \/ \A c \in AckColumns : alerts'[a][c] = alerts[a][c]
<1>1. ASSUME IndInv, NEW d \in Detectors, RaiseAlert(d)
      PROVE  Kept
  <2>1. <<d, passes[d]>> \notin DOMAIN alerts
    <3>1. passes[d] \in Nat /\ ~(passes[d] < passes[d]) /\ pass[d].pc = "loaded"
      BY <1>1 DEF IndInv, TypeOK, RaiseAlert
    <3> QED BY <1>1, <3>1 DEF IndInv, FreshIds
  <2>2. /\ DOMAIN alerts \subseteq DOMAIN alerts'
        /\ \A a \in DOMAIN alerts : alerts'[a] = alerts[a]
    BY <1>1, <2>1 DEF RaiseAlert
  <2> QED BY <2>2
<1>2. ASSUME IndInv, NEW d \in Detectors, RefreshAlert(d)
      PROVE  Kept
  <2> DEFINE t == pass[d].target
             r == alerts[t]
             l == pass[d].loaded
             v == Verdict(pass[d].length)
  <2>1. t \in DOMAIN alerts /\ l \in Row /\ r \in Row /\ ~Quiet(pass[d].length)
    BY <1>2 DEF RefreshAlert, IndInv, PassIsSound, TypeOK
  <2>2. v \in Verdicts
    <3>1. pass[d].length \in 0 .. Len(History)
      BY <1>2 DEF IndInv, TypeOK, Pass
    <3> QED BY <2>1, <3>1, VerdictTyped
  <2>3. /\ DOMAIN alerts' = DOMAIN alerts
        /\ alerts'[t] = Refreshed(r, l, v)
        /\ \A a \in DOMAIN alerts \ {t} : alerts'[a] = alerts[a]
    BY <1>2, <2>1 DEF RefreshAlert
  <2>4. /\ \A c \in AckColumns : Refreshed(r, l, v)[c] = r[c]
        /\ Refreshed(r, l, v).point = r.point /\ Refreshed(r, l, v).at = r.at
    <3> HIDE DEF r, l, v
    <3> QED BY <2>1, <2>2, RefreshedColumns
  <2> HIDE DEF t, l, v
  <2> QED BY <2>3, <2>4
<1>3. ASSUME IndInv, NEW k \in Requests, CommitAck(k)
      PROVE  Kept
  <2> DEFINE t == request[k].alert
             r == alerts[t]
             op == request[k].operator
             n == request[k].note
  <2>1. t \in DOMAIN alerts /\ r \in Row /\ op \in Operators /\ n \in Notes \cup {None}
    BY <1>3 DEF CommitAck, IndInv, RequestIsSound, TypeOK, Request
  <2>2. /\ DOMAIN alerts' = DOMAIN alerts
        /\ alerts'[t] = Acknowledged(r, k, op, n)
        /\ \A a \in DOMAIN alerts \ {t} : alerts'[a] = alerts[a]
    BY <1>3, <2>1 DEF CommitAck
  <2>3. /\ \A c \in Evidence : Acknowledged(r, k, op, n)[c] = r[c]
        /\ Acknowledged(r, k, op, n).point = r.point /\ Acknowledged(r, k, op, n).at = k
    <3> HIDE DEF r, op, n
    <3> QED BY <2>1, AcknowledgedColumns
  <2>4. k # None
    BY NoneAssumption
  <2> HIDE DEF t, op, n
  <2> QED BY <2>2, <2>3, <2>4
<1>4. ASSUME UNCHANGED alerts
      PROVE  Kept
  BY <1>4
<1> HIDE DEF Kept
<1>5. IndInv /\ [Next]_vars => [Kept]_alerts
  BY <1>1, <1>2, <1>3, <1>4
     DEF Next, vars, NewReading, DetectorStep, ReadSeries, LoadOpen, QuietPass, AbortPass,
         RequestStep, LoadAlert, RefuseAck, AbortAck
<1> QED BY <1>5, IndInvariant, PTL DEF Spec, ColumnsKeepTheirWriter, Kept
=============================================================================
