----------------------------- MODULE Dashboard ------------------------------
(***************************************************************************)
(* The operator dashboard as one browser tab sees it: panels rendered into *)
(* the page and swapped afterwards by HTMX, the forms that act, and the    *)
(* session that says in whose name.  Other tabs of the same browser share  *)
(* its cookie; the API, the laboratory and the detector change what the    *)
(* panels show; the process is restarted with another configuration.       *)
(*                                                                         *)
(* A point's readings are a number, which stands for the latest of them; a *)
(* point has one alert, named after the point (Alerts says how far that    *)
(* holds).  #alert-inbox is the target of its poll and of every            *)
(* acknowledge form: those answers may cross, and are steps of their own.  *)
(* So are the two halves of an acknowledgement: the middleware looks at    *)
(* the cookie once, and the handler runs when the form has arrived and a   *)
(* thread is free.  Of the other requests nothing below asks what passes   *)
(* between the two; each is one step.  #network-status and #week-view poll *)
(* and feed nothing back; they are left out.                               *)
(***************************************************************************)
EXTENDS Sessions

CONSTANTS
    Points,         \* sampling points, numbered in the order of their ids
    Envs,           \* environments the process may be started with
    MaxReadings,    \* bound: readings on record at a point
    MaxNow,         \* bound: the clock
    MaxEras         \* bound: sign-ins, sign-outs and restarts

ASSUME PointAssumption == Points \subseteq Nat /\ Points # {} /\ IsFiniteSet(Points)
ASSUME EnvAssumption ==
    \A env \in Envs : /\ env.entries \in Seq(Entry \cup {None, Malformed})
                      /\ env.legacy \in Tokens \cup {None, Malformed}
ASSUME BoundAssumption == MaxReadings \in Nat /\ MaxNow \in Nat /\ MaxEras \in Nat

VARIABLES
    config,     \* app.state.operator_tokens, or Refused: the process is down
    now,        \* the clock
    jar,        \* the browser's session cookie
    era,        \* history: how often the cookie or the process changed
    stored,     \* readings on record, by point
    open,       \* points with an open alert, the newest first
    acked,      \* acknowledged_by, by point
    htmx,       \* the script loaded in the tab
    tab,        \* what the tab shows: "closed", "signin", "dashboard"
    inbox,      \* #alert-inbox
    trend,      \* #chlorine-trend
    form,       \* the acknowledge form that has the focus
    due,        \* #chlorine-trend has a request to make
    reply,      \* the inbox poll's answer, on its way
    post,       \* the acknowledge form the tab has submitted
    uploaded    \* history: the readings on record after the tab's last
                \* upload, unless the request it caused found no server

world == <<stored, open, acked, uploaded>>
server == <<config, now, jar, era>>
screen == <<htmx, tab, inbox, trend, form, due>>
vars == <<server, world, screen, reply, post>>

-----------------------------------------------------------------------------
\* render_alert_inbox: the open alerts, and whom the forms say they act for;
\* `era` is a history field, when the request for it was made.
InboxView(who, alerts, asked) == [open |-> alerts, who |-> who, era |-> asked]

\* _default_trend_point: the newest alert's, else the first measured one.
DefaultTrendPoint(readings, alerts) ==
    LET measured == {p \in Points : readings[p] > 0}
    IN IF alerts # <<>> THEN Head(alerts)
       ELSE Min(IF measured # {} THEN measured ELSE Points)

\* _trend_html: as much of the point's series as is on record.
TrendView(chosen, readings, alerts) ==
    LET p == IF chosen \in Points THEN chosen ELSE DefaultTrendPoint(readings, alerts)
    IN [point |-> p, shown |-> readings[p]]

\* _page: one response renders every panel.
PageView(who, readings, alerts) ==
    [inbox |-> InboxView(who, alerts, era),
     trend |-> TrendView(None, readings, alerts)]
NoPage == [inbox |-> None, trend |-> None]

Show(where, page) ==
    /\ tab' = where
    /\ inbox' = page.inbox /\ trend' = page.trend
    /\ form' = None /\ due' = FALSE

ShowSignIn == Show("signin", NoPage)

\* An acknowledgement is sent, then in the hands of the process, then answered.
Sent == post # None /\ post.stage = "sent"
InHand == post # None /\ post.stage = "admitted"

\* Nobody waits for the answer to a request whose page was left.
Answered(what, view) ==
    post' = IF post.orphan THEN None ELSE [stage |-> "answered", what |-> what, view |-> view]

\* A page that is left drops the answers on their way to it.  A request that
\* was sent is served all the same.
Abandon ==
    /\ reply' = None
    /\ post' = IF Sent \/ InHand THEN [post EXCEPT !.orphan = TRUE] ELSE None

\* The middleware's verdict on a request of this browser for a page.
Visitor(cookie) == Caller(config, "page", None, cookie, now)

-----------------------------------------------------------------------------
Init ==
    /\ config \in {LoadTokens(env) : env \in Envs} \ {Refused}
    /\ now = 0 /\ jar = None /\ era = 0
    /\ stored = [p \in Points |-> 0]
    /\ open = <<>>
    /\ acked = [p \in Points |-> None]
    /\ htmx \in BOOLEAN
    /\ tab = "closed"
    /\ inbox = None /\ trend = None /\ form = None
    /\ due = FALSE /\ reply = None /\ post = None
    /\ uploaded = [p \in Points |-> 0]

Tick ==
    /\ now < MaxNow
    /\ now' = now + 1
    /\ UNCHANGED <<config, jar, era, world, screen, reply, post>>

\* The process ends, and with it what it has in hand, and is started with
\* another environment.
Restart(env) ==
    /\ era < MaxEras
    /\ LoadTokens(env) # config
    /\ config' = LoadTokens(env)
    /\ era' = era + 1
    /\ IF InHand THEN Answered("failed", None) ELSE UNCHANGED post
    /\ UNCHANGED <<now, jar, world, screen, reply>>

\* POST /login from the sign-in page or from another tab.  A token nobody has
\* is answered 401 and changes nothing.
SignIn(token) ==
    /\ era < MaxEras
    /\ config # Refused
    /\ Enabled(config)
    /\ Identify(config, token) # None
    /\ jar' = SignSession(config, Identify(config, token), now)
    /\ era' = era + 1
    /\ UNCHANGED <<config, now, world, screen, reply, post>>

\* POST /logout from this tab.
SignOut ==
    /\ era < MaxEras
    /\ config # Refused
    /\ tab = "dashboard" /\ jar # None
    /\ jar' = None
    /\ era' = era + 1
    /\ ShowSignIn
    /\ Abandon
    /\ UNCHANGED <<config, now, world, htmx>>

\* POST /logout from another tab of the browser.
SignOutElsewhere ==
    /\ era < MaxEras
    /\ config # Refused
    /\ jar # None
    /\ jar' = None
    /\ era' = era + 1
    /\ UNCHANGED <<config, now, world, screen, reply, post>>

\* Where a navigation ends: without a server nowhere, without a credential at
\* the sign-in page.
Navigate ==
    IF config = Refused THEN Show("closed", NoPage)
    ELSE IF Visitor(jar) = Refused THEN Show("signin", NoPage)
    ELSE Show("dashboard", PageView(Visitor(jar), stored, open))

\* GET /
LoadPage ==
    /\ Navigate
    /\ Abandon
    /\ UNCHANGED <<server, world, htmx>>

-----------------------------------------------------------------------------
RecordReading(p) ==
    /\ stored[p] < MaxReadings
    /\ stored' = [stored EXCEPT ![p] = @ + 1]
    /\ UNCHANGED <<server, open, acked, uploaded, screen, reply, post>>

\* A detection pass; each point's alert is raised once.
RaiseAlert(p) ==
    /\ p \notin {open[i] : i \in DOMAIN open}
    /\ acked[p] = None
    /\ open' = <<p>> \o open
    /\ UNCHANGED <<server, stored, acked, uploaded, screen, reply, post>>

\* Mutant: the alert is filtered by a column the acknowledgement does not set.
AcknowledgeStillOpen(p, operator) ==
    /\ acked' = [acked EXCEPT ![p] = operator]
    /\ UNCHANGED open

\* acknowledge: an alert that is closed already is left alone.
Acknowledge(p, operator) ==
    \/ \E i \in DOMAIN open :
          /\ open[i] = p
          /\ open' = SubSeq(open, 1, i - 1) \o SubSeq(open, i + 1, Len(open))
          /\ acked' = [acked EXCEPT ![p] = operator]
    \/ /\ \A i \in DOMAIN open : open[i] # p
       /\ UNCHANGED <<open, acked>>

\* POST /api/v1/alerts/{id}/ack: the token's operator, else the body's.
AcknowledgeByApi(p, bearer, claimed) ==
    LET caller == Caller(config, "api", bearer, None, now)
    IN /\ config # Refused
       /\ caller # Refused
       /\ p \in {open[i] : i \in DOMAIN open}
       /\ Acknowledge(p, IF caller = None THEN claimed ELSE caller)
       /\ UNCHANGED <<server, stored, uploaded, screen, reply, post>>

-----------------------------------------------------------------------------
Watching == htmx /\ tab = "dashboard" /\ config # Refused
Admitted == Visitor(jar) # Refused

\* GET /dash/trend: on readings-changed, for the point the page has selected; it
\* does not poll.
FetchTrend ==
    /\ due /\ Watching /\ Admitted
    /\ due' = FALSE
    /\ trend' = TrendView(trend.point, stored, open)
    /\ UNCHANGED <<server, world, htmx, tab, inbox, form, reply, post>>

\* The request for the chart finds no server, and nothing repeats it.
LoseTrend ==
    /\ due /\ htmx /\ tab = "dashboard" /\ config = Refused
    /\ due' = FALSE
    /\ uploaded' = [p \in Points |-> 0]
    /\ UNCHANGED <<server, stored, open, acked, htmx, tab, inbox, trend, form, reply, post>>

\* Any panel's request after the session has ended: 401 with HX-Redirect.
FetchOusted ==
    /\ Watching /\ ~Admitted
    /\ ShowSignIn
    /\ Abandon
    /\ UNCHANGED <<server, world, htmx>>

\* Mutant: the filter of the poll is the wrong way round.
PollInboxWhileTyping ==
    /\ Watching /\ Admitted
    /\ form # None /\ reply = None
    /\ reply' = InboxView(Visitor(jar), open, era)
    /\ UNCHANGED <<server, world, screen, post>>

\* GET /dash/alerts: every 30 s, but not while a form has the focus.
PollInbox ==
    /\ Watching /\ Admitted
    /\ form = None /\ reply = None
    /\ reply' = InboxView(Visitor(jar), open, era)
    /\ UNCHANGED <<server, world, screen, post>>

\* The swap takes the focus, and whatever was typed, with it.
DeliverInbox ==
    /\ reply # None
    /\ inbox' = reply
    /\ form' = None /\ reply' = None
    /\ UNCHANGED <<server, world, htmx, tab, trend, due, post>>

-----------------------------------------------------------------------------
\* The operator goes to an alert's form.  It asks for an operator id unless
\* it was rendered for one; blanks pass for an id until the handler strips it.
Focus(p, typed) ==
    /\ tab = "dashboard"
    /\ form = None /\ post = None
    /\ p \in {inbox.open[i] : i \in DOMAIN inbox.open}
    /\ inbox.who # None => typed = None
    /\ form' = [alert |-> p, typed |-> typed]
    /\ UNCHANGED <<server, world, htmx, tab, inbox, trend, due, reply, post>>

Blur ==
    /\ form # None
    /\ form' = None
    /\ UNCHANGED <<server, world, htmx, tab, inbox, trend, due, reply, post>>

\* What the form says the acknowledgement will be recorded under.
Shown == IF inbox.who # None THEN inbox.who ELSE form.typed

SubmitAck ==
    /\ form # None
    /\ post' = [stage |-> "sent", orphan |-> FALSE, point |-> form.alert, typed |-> form.typed,
                 shown |-> Shown, rendered |-> inbox.era, era |-> era, cookie |-> jar,
                 signedIn |-> None, admitted |-> None]
    /\ form' = None
    /\ UNCHANGED <<server, world, htmx, tab, inbox, trend, due, reply>>

\* The middleware turns a session away that has ended.
AckRefused ==
    /\ Sent /\ config # Refused
    /\ Visitor(post.cookie) = Refused
    /\ Answered("signin", None)
    /\ UNCHANGED <<server, world, screen, reply>>

\* The middleware lets the request in and notes whose it is; `admitted`, the
\* time it did so, is a history field.
AdmitAck ==
    /\ Sent /\ config # Refused
    /\ Visitor(post.cookie) # Refused
    /\ post' = [post EXCEPT !.stage = "admitted", !.signedIn = Visitor(post.cookie),
                           !.admitted = now]
    /\ UNCHANGED <<server, world, screen, reply>>

\* No server, a connection that breaks before the form has arrived, a handler
\* that raises: nothing is recorded.
FailAck ==
    /\ Sent \/ InHand
    /\ Answered("failed", None)
    /\ UNCHANGED <<server, world, screen, reply>>

\* Mutant: without a session the shared operator is assumed.
RecordedUnderLegacy(signedIn, typed) == IF signedIn # None THEN signedIn ELSE LegacyOperator

\* signed_in or operator_id.strip()
RecordedUnder(signedIn, typed) == IF signedIn # None THEN signedIn ELSE typed

\* dash_acknowledge, however long after the middleware: whether the session has
\* ended meanwhile is not asked again.  One that is refused answers with a
\* notice and no event, and the event only brings the next poll of the network
\* forward.  A plain form post is redirected to the page either way.  What has
\* been recorded stays, whatever becomes of the answer.
RecordAck ==
    LET operator == RecordedUnder(post.signedIn, post.typed)
    IN /\ InHand
       /\ IF operator = None THEN UNCHANGED <<open, acked>>
          ELSE Acknowledge(post.point, operator)
       /\ \/ Answered("failed", None)
          \/ htmx /\ Answered("inbox", InboxView(post.signedIn, open', post.era))
          \/ ~htmx /\ Answered("page", None)
       /\ UNCHANGED <<server, stored, uploaded, screen, reply>>

\* The browser does what the answer says; a script that gets no answer leaves
\* the panel alone.
DeliverAck ==
    /\ post # None /\ post.stage = "answered"
    /\ post' = None
    /\ UNCHANGED <<server, world, htmx>>
    /\ \/ /\ post.what = "inbox"
          /\ inbox' = post.view /\ form' = None
          /\ UNCHANGED <<tab, trend, due, reply>>
       \/ /\ post.what = "failed" /\ htmx
          /\ UNCHANGED <<tab, inbox, trend, form, due, reply>>
       \/ /\ post.what = "signin" \/ (post.what = "failed" /\ ~htmx)
          /\ Show(IF post.what = "signin" THEN "signin" ELSE "closed", NoPage)
          /\ reply' = None
       \/ post.what = "page" /\ Navigate /\ reply' = None

-----------------------------------------------------------------------------
\* Mutant: the answer to an upload announces nothing.
UploadSilently(p, inserted) ==
    /\ tab = "dashboard" /\ config # Refused /\ Admitted
    /\ stored[p] + inserted <= MaxReadings
    /\ stored' = [stored EXCEPT ![p] = @ + inserted]
    /\ uploaded' = IF inserted > 0 THEN [uploaded EXCEPT ![p] = stored'[p]] ELSE uploaded
    /\ IF htmx THEN UNCHANGED <<tab, inbox, trend, form, due, reply, post>>
       ELSE Show("dashboard", PageView(Visitor(jar), stored', open)) /\ Abandon
    /\ UNCHANGED <<server, open, acked, htmx>>

\* POST /dash/upload, whose receipt no other request replaces: a file with one
\* new reading or none.  Only one that was stored raises readings-changed.  A
\* plain form post is answered with the page.
Upload(p, inserted) ==
    /\ tab = "dashboard" /\ config # Refused /\ Admitted
    /\ stored[p] + inserted <= MaxReadings
    /\ stored' = [stored EXCEPT ![p] = @ + inserted]
    /\ uploaded' = IF inserted > 0 THEN [uploaded EXCEPT ![p] = stored'[p]] ELSE uploaded
    /\ IF htmx
       THEN /\ due' = (due \/ inserted > 0)
            /\ UNCHANGED <<tab, inbox, trend, form, reply, post>>
       ELSE Show("dashboard", PageView(Visitor(jar), stored', open)) /\ Abandon
    /\ UNCHANGED <<server, open, acked, htmx>>

-----------------------------------------------------------------------------
Environment ==
    \/ Tick
    \/ \E env \in Envs : Restart(env)
    \/ \E t \in Tokens : SignIn(t)
    \/ SignOut \/ SignOutElsewhere \/ LoadPage
    \/ \E p \in Points : RecordReading(p) \/ RaiseAlert(p)
    \/ \E p \in Points, bearer \in Tokens \cup {None}, o \in Operators :
          AcknowledgeByApi(p, bearer, o)

Operate ==
    \/ \E p \in Points : Upload(p, 0) \/ Upload(p, 1)
    \/ \E p \in Points, o \in Operators \cup {None} : Focus(p, o)
    \/ Blur \/ SubmitAck

Refresh == FetchTrend \/ LoseTrend \/ FetchOusted \/ PollInbox \/ DeliverInbox
Answer == AckRefused \/ AdmitAck \/ FailAck \/ RecordAck \/ DeliverAck

Next == Environment \/ Operate \/ Refresh \/ Answer

\* The script's timers go off, what is sent is answered or fails, and what is
\* answered arrives.  Nobody has to type, sign in or upload.
Fairness ==
    /\ WF_vars(FetchTrend) /\ WF_vars(LoseTrend)
    /\ WF_vars(FetchOusted) /\ WF_vars(PollInbox) /\ WF_vars(DeliverInbox)
    /\ WF_vars(Answer)

Spec == Init /\ [][Next]_vars /\ Fairness

-----------------------------------------------------------------------------
Numbers(n) == [Points -> 0 .. n]
Alerted == {s \in UNION {[1 .. n -> Points] : n \in 0 .. Cardinality(Points)} :
               \A i, j \in DOMAIN s : s[i] = s[j] => i = j}
Inbox == [open : Alerted, who : Operators \cup {None}, era : 0 .. MaxEras]
Trend == [point : Points, shown : 0 .. MaxReadings]

\* Type correctness.  It also says that only a dashboard has panels, that only
\* one that was rendered for nobody has a form to type in, and that the cookie
\* is one this clock can have signed.
TypeOK ==
    /\ config = Refused \/ \A i \in DOMAIN config : config[i] \in Entry
    /\ now \in 0 .. MaxNow /\ era \in 0 .. MaxEras
    /\ jar # None => jar.expires \in jar.since .. now + Ttl
    /\ stored \in Numbers(MaxReadings) /\ open \in Alerted
    /\ \A i \in DOMAIN open : acked[open[i]] = None
    /\ tab \in {"closed", "signin", "dashboard"}
    /\ IF tab = "dashboard" THEN inbox \in Inbox /\ trend \in Trend
       ELSE <<inbox, trend, form, reply>> = <<None, None, None, None>>
    /\ reply # None => reply \in Inbox
    /\ form # None => form.typed = None \/ inbox.who = None

\* The acknowledgement the form of this tab has just recorded.
RecordedByForm(p) == acked'[p] # acked[p] /\ post' # post

\* An acknowledgement is recorded under the identity the form showed, or under
\* what was typed into it, as long as nobody signed in or out in the browser
\* and the server was not restarted between rendering the form and recording
\* it (render_alert_inbox: "the identity the acknowledgement will be recorded
\* under"), whatever polls and other people's acknowledgements came between.
AcknowledgedAsShown ==
    [][\A p \in Points :
          RecordedByForm(p) /\ post.rendered = era => acked'[p] = post.shown]_vars

\* With authentication on, the operator an acknowledgement is recorded under
\* signed in, in this browser, no longer than one shift before the middleware
\* admitted it, and the token they signed in with is still theirs when it is
\* recorded, across restarts with rotated tokens and other people's sessions.
\* The end of the shift may pass between the two: OperatorAuthMiddleware asks
\* once, before it awaits the application.
AckWithinShift ==
    [][\A p \in Points :
          RecordedByForm(p) /\ Enabled(config) =>
              /\ post.cookie # None
              /\ acked'[p] = post.cookie.operator
              /\ post.admitted - post.cookie.since <= Ttl
              /\ post.cookie.token \in TokensOf(config, acked'[p])]_vars

\* A dashboard that stays open, on a server that is up, shows the open alerts
\* as they are again and again, unless the operator goes to a form again and
\* again: an answer that was overtaken, and shows an acknowledged alert once
\* more, does not stay.
InboxConverges == []<>(form # None) \/ []<>(Watching => inbox.open = open)

\* A result uploaded from this page reaches the chart without a reload, if the
\* chart shows that point, the page is not left, and the server is up for the
\* one request that fetches it.
UploadReachesTrend ==
    \A p \in Points, n \in 1 .. MaxReadings :
        (uploaded[p] = n) ~> (Watching /\ trend.point = p => trend.shown >= n)
=============================================================================
