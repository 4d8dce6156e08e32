-------------------------- MODULE DashboardProofs ---------------------------
(***************************************************************************)
(* Proofs about Dashboard and its sessions, for any operators, tokens,     *)
(* environments and points and for any length of a shift.                  *)
(*                                                                         *)
(* What makes an acknowledgement go to the name on its form: whatever was  *)
(* rendered since the cookie or the process last changed was rendered for  *)
(* whom the browser's cookie proves now (IdentityInv), and what is sent    *)
(* carries that cookie along.  What makes it go to somebody on shift: the  *)
(* middleware looked when it let the request in, and a process that is     *)
(* started with other tokens has nothing in hand (AdmissionInv).           *)
(***************************************************************************)
EXTENDS Dashboard, FiniteSetTheorems, SequenceTheorems, TLAPS

\* A process that runs has a configuration: entries at some positions.
IsConfiguration(c) ==
    \E n \in Nat : DOMAIN c \subseteq 1 .. n /\ c \in [DOMAIN c -> Entry]

ConfigInv == config = Refused \/ IsConfiguration(config)

ClockInv == now \in 0 .. MaxNow /\ era \in 0 .. MaxEras

\* A cookie was signed some time ago, for one shift at most.
IsSession(c) ==
    /\ c \in Cookie
    /\ c.since <= now /\ c.since <= c.expires /\ c.expires <= c.since + Ttl

JarInv == jar # None => IsSession(jar)

StoreInv ==
    /\ stored \in Numbers(MaxReadings)
    /\ open \in Alerted
    /\ acked \in [Points -> Operators \cup {None}]
    /\ \A i \in DOMAIN open : acked[open[i]] = None

ScreenInv ==
    /\ tab \in {"closed", "signin", "dashboard"}
    /\ htmx \in BOOLEAN /\ due \in BOOLEAN
    /\ IF tab = "dashboard" THEN inbox \in Inbox /\ trend \in Trend
       ELSE inbox = None /\ trend = None /\ form = None /\ reply = None
    /\ reply # None => reply \in Inbox
    /\ form # None =>
          /\ form \in [alert : Points, typed : Operators \cup {None}]
          /\ form.typed = None \/ inbox.who = None

SentPost ==
    [stage : {"sent", "admitted"}, orphan : BOOLEAN, point : Points,
     typed : Operators \cup {None}, shown : Operators \cup {None},
     rendered : 0 .. MaxEras, era : 0 .. MaxEras, cookie : Cookie \cup {None},
     signedIn : Operators \cup {None}, admitted : 0 .. MaxNow \cup {None}]

AnsweredPost ==
    [stage : {"answered"}, what : {"inbox", "page", "signin", "failed"}, view : Inbox \cup {None}]

\* A request is sent with the cookie of its time; only one that was left behind
\* outlives the page it was sent from.
PostInv ==
    post # None =>
        \/ /\ post \in SentPost
           /\ post.cookie # None => IsSession(post.cookie)
           /\ post.orphan \/ tab = "dashboard"
        \/ /\ post \in AnsweredPost
           /\ tab = "dashboard"
           /\ post.what = "inbox" => post.view \in Inbox

\* Whom the browser's cookie proves to a server that runs.
Whoever == IF Enabled(config) THEN jar.operator ELSE None

\* What was rendered in this era was rendered for whom the cookie proves.
Faithful(view) ==
    /\ view.era <= era
    /\ view.era = era => view.who = Whoever /\ (Enabled(config) => jar # None)

\* What was sent in this era carries the cookie, and what it was rendered for
\* in this era is what its form showed.
Honest(p) ==
    /\ p.rendered <= p.era /\ p.era <= era
    /\ p.era = era => p.cookie = jar
    /\ p.rendered = era => /\ p.shown = IF Enabled(config) THEN jar.operator ELSE p.typed
                           /\ Enabled(config) => jar # None

IdentityInv ==
    /\ tab = "dashboard" => Faithful(inbox)
    /\ reply # None => Faithful(reply)
    /\ post # None /\ post.stage = "answered" /\ post.what = "inbox" => Faithful(post.view)
    /\ Sent \/ InHand => Honest(post)

\* What the middleware saw when it let the request in; only its own process, with
\* its own tokens, has the request in hand.
OnShift(p) ==
    /\ p.admitted \in Nat
    /\ IF Enabled(config)
       THEN /\ p.cookie # None /\ p.signedIn = p.cookie.operator
            /\ p.cookie.token \in TokensOf(config, p.cookie.operator)
            /\ p.cookie.expires >= p.admitted
       ELSE p.signedIn = None

AdmissionInv == InHand => OnShift(post)

IInv ==
    /\ ConfigInv /\ ClockInv /\ JarInv /\ StoreInv /\ ScreenInv /\ PostInv /\ IdentityInv
    /\ AdmissionInv

-----------------------------------------------------------------------------
(* Numbers.                                                                *)

\* A set of natural numbers has a least one.
LEMMA LeastNumber ==
  ASSUME NEW N, N \subseteq Nat, N # {}
  PROVE  \E m \in N : \A n \in N : m <= n
<1>1. PICK x \in N, D \in {0 .. y : y \in N} : D = 0 .. x
  OBVIOUS
<1> DEFINE C == {0 .. n : n \in {n \in N : n <= x}}
<1>2. IsFiniteSet(D) /\ FiniteSubsetsOf(D) = SUBSET D
  <2>1. 0 \in Int /\ x \in Int
    BY <1>1
  <2>2. IsFiniteSet(D)
    BY <1>1, <2>1, FS_Interval
  <2> QED BY <2>2, FS_FiniteSubsetsOfFinite
<1>3. C \subseteq SUBSET D /\ C # {}
  BY <1>1
<1>4. PICK I \in C : \A J \in C : ~(<<J, I>> \in StrictSubsetOrdering(D))
  <2> HIDE DEF C
  <2> QED BY <1>2, <1>3, FS_StrictSubsetOrderingWellFounded, WFMin
<1>5. PICK m \in N : m <= x /\ I = 0 .. m
  BY <1>4
<1>6. ASSUME NEW n \in N, n < m
      PROVE  FALSE
  <2>1. 0 .. n \in C /\ 0 .. n \subseteq I /\ I \in SUBSET D
    BY <1>1, <1>5, <1>6
  <2>2. m \in I /\ m \notin 0 .. n
    BY <1>5, <1>6
  <2> QED BY <1>4, <1>3, <2>1, <2>2 DEF StrictSubsetOrdering
<1> QED BY <1>5, <1>6

\* Min finds it.
LEMMA MinIsLeast ==
  ASSUME NEW N, N \subseteq Nat, N # {}
  PROVE  Min(N) \in N
<1>1. \E m \in N : \A n \in N : m <= n
  BY LeastNumber
<1> QED BY <1>1 DEF Min

\* A bounded set of natural numbers has a greatest one, which Max finds.
LEMMA MaxIsGreatest ==
  ASSUME NEW b \in Nat, NEW N, N \subseteq 1 .. b, N # {}
  PROVE  Max(N) \in N
<1> DEFINE M == {b - n : n \in N}
<1>1. M \subseteq Nat /\ M # {}
  OBVIOUS
<1>2. PICK m \in M : \A n \in M : m <= n
  <2> HIDE DEF M
  <2> QED BY <1>1, LeastNumber
<1>3. PICK x \in N : m = b - x
  BY <1>2
<1>4. \A y \in N : x >= y
  <2> TAKE y \in N
  <2>1. x \in 1 .. b /\ y \in 1 .. b /\ b - y \in M
    OBVIOUS
  <2>2. b - x <= b - y
    BY <1>2, <1>3, <2>1
  <2> QED BY <2>1, <2>2
<1>5. \E z \in N : \A y \in N : z >= y
  BY <1>4
<1> QED BY <1>5 DEF Max

\* Cutting off a fraction takes off less than a second.
LEMMA WholeSecondsCutOff ==
  ASSUME NEW t \in Nat
  PROVE  /\ WholeSeconds(t) \in Nat
         /\ WholeSeconds(t) <= t /\ t < WholeSeconds(t) + Second
<1>1. PICK s \in Nat : s = Second /\ s > 0
  BY TimeAssumption
<1>2. t = s * (t \div s) + (t % s)
  BY <1>1
<1>3. t % s \in 0 .. s - 1 /\ t \div s \in Nat
  BY <1>1
<1>4. PICK q \in Nat, r \in 0 .. s - 1 : q = t \div s /\ r = t % s
  BY <1>3
<1>5. PICK n \in Nat : n = q * s
  BY <1>1, <1>4
<1>6. s * q = q * s
  BY <1>1, <1>4
<1> QED BY <1>1, <1>2, <1>4, <1>5, <1>6 DEF WholeSeconds

-----------------------------------------------------------------------------
(* Sessions.                                                               *)

\* What parse_tokens reads are the entries that say something.
LEMMA ParsedEntries ==
  ASSUME NEW S, NEW e \in [S -> Entry \cup {None, Malformed}]
  PROVE  \/ ParseTokens(e) = Refused
         \/ /\ DOMAIN ParseTokens(e) \subseteq S
            /\ ParseTokens(e) \in [DOMAIN ParseTokens(e) -> Entry]
<1> DEFINE named == {i \in S : e[i] # None}
<1>1. DOMAIN e = S
  OBVIOUS
<1>2. CASE \E i \in named : e[i] = Malformed
  BY <1>1, <1>2 DEF ParseTokens
<1>3. CASE \A i \in named : e[i] # Malformed
  <2>1. [i \in named |-> e[i]] \in [named -> Entry]
    BY <1>3
  <2>2. ParseTokens(e) = Refused \/ ParseTokens(e) = [i \in named |-> e[i]]
    BY <1>1 DEF ParseTokens
  <2> QED BY <2>1, <2>2
<1> QED BY <1>2, <1>3

\* A process is started with a configuration or not at all.
LEMMA LoadedConfiguration ==
  ASSUME NEW env \in Envs
  PROVE  LoadTokens(env) = Refused \/ IsConfiguration(LoadTokens(env))
<1> DEFINE E == Entry \cup {None, Malformed}
           n == Len(env.entries)
           last == [i \in {n + 1} |-> IF env.legacy \in Tokens
                                      THEN [operator |-> LegacyOperator, token |-> env.legacy]
                                      ELSE env.legacy]
           listed == ParseTokens(env.entries)
           legacy == ParseTokens(last)
<1>1. n \in Nat /\ env.entries \in [1 .. n -> E]
  BY EnvAssumption
<1>2. last \in [{n + 1} -> E]
  BY EnvAssumption, OperatorAssumption DEF Entry
<1>3. \/ listed = Refused
      \/ DOMAIN listed \subseteq 1 .. n /\ listed \in [DOMAIN listed -> Entry]
  BY <1>1, ParsedEntries
<1>4. \/ legacy = Refused
      \/ DOMAIN legacy \subseteq {n + 1} /\ legacy \in [DOMAIN legacy -> Entry]
  BY <1>2, ParsedEntries
<1>5. LoadTokens(env) = IF listed = Refused THEN Refused
                        ELSE IF LegacyOperator \in Names(listed) THEN listed
                        ELSE IF legacy = Refused THEN Refused
                        ELSE [i \in DOMAIN listed \cup DOMAIN legacy |->
                              IF i \in DOMAIN listed THEN listed[i] ELSE legacy[i]]
  BY DEF LoadTokens
<1> HIDE DEF listed, legacy, last
<1>6. CASE listed = Refused
  BY <1>5, <1>6
<1>7. CASE listed # Refused /\ LegacyOperator \in Names(listed)
  BY <1>1, <1>3, <1>5, <1>7 DEF IsConfiguration
<1>8. CASE listed # Refused /\ LegacyOperator \notin Names(listed) /\ legacy = Refused
  BY <1>5, <1>8
<1>9. CASE listed # Refused /\ LegacyOperator \notin Names(listed) /\ legacy # Refused
  <2> DEFINE both == [i \in DOMAIN listed \cup DOMAIN legacy |->
                      IF i \in DOMAIN listed THEN listed[i] ELSE legacy[i]]
  <2>1. LoadTokens(env) = both
    BY <1>5, <1>9
  <2>2. both \in [DOMAIN listed \cup DOMAIN legacy -> Entry]
    BY <1>3, <1>4, <1>9
  <2>3. DOMAIN listed \cup DOMAIN legacy \subseteq 1 .. n + 1 /\ n + 1 \in Nat
    BY <1>1, <1>3, <1>4, <1>9
  <2>4. DOMAIN both = DOMAIN listed \cup DOMAIN legacy
    OBVIOUS
  <2> HIDE DEF both
  <2> QED BY <2>1, <2>2, <2>3, <2>4 DEF IsConfiguration
<1> QED BY <1>6, <1>7, <1>8, <1>9

\* A token that is presented proves an operator or nobody.
LEMMA IdentifiedOperator ==
  ASSUME NEW c, IsConfiguration(c), NEW t
  PROVE  /\ Identify(c, t) \in Operators \cup {None}
         /\ Identify(c, t) # None => \E i \in DOMAIN c : c[i].operator = Identify(c, t)
<1> DEFINE matches == {i \in DOMAIN c : c[i].token = t}
<1>1. PICK n \in Nat : DOMAIN c \subseteq 1 .. n /\ c \in [DOMAIN c -> Entry]
  BY DEF IsConfiguration
<1>2. Identify(c, t) = IF matches = {} THEN None ELSE c[Max(matches)].operator
  BY DEF Identify
<1>3. CASE matches = {}
  BY <1>2, <1>3
<1>4. CASE matches # {}
  <2>1. matches \subseteq 1 .. n
    BY <1>1
  <2>2. Max(matches) \in matches
    <3> HIDE DEF matches
    <3> QED BY <1>4, <2>1, MaxIsGreatest
  <2>3. Max(matches) \in DOMAIN c /\ c[Max(matches)] \in Entry
    BY <1>1, <2>2
  <2> QED BY <1>2, <1>4, <2>3 DEF Entry
<1> QED BY <1>3, <1>4

\* A cookie is signed for an operator who has a token, for one shift.
LEMMA SignedSession ==
  ASSUME IsConfiguration(config), now \in Nat,
         NEW o \in Operators, \E i \in DOMAIN config : config[i].operator = o
  PROVE  IsSession(SignSession(config, o, now))
<1>1. PICK k \in DOMAIN config : config[k].operator = o
  OBVIOUS
<1>2. config \in [DOMAIN config -> Entry]
  BY DEF IsConfiguration
<1>3. config[k].token \in TokensOf(config, o)
  BY <1>1 DEF TokensOf
<1>4. TokensOf(config, o) \subseteq Tokens
  BY <1>2 DEF TokensOf, Entry
<1>5. (CHOOSE t \in TokensOf(config, o) : TRUE) \in Tokens
  BY <1>3, <1>4
<1>6. PICK e : e = WholeSeconds(now + Ttl)
  OBVIOUS
<1>7. e \in Nat /\ e <= now + Ttl /\ now + Ttl < e + Second
  BY <1>6, WholeSecondsCutOff, TimeAssumption
<1>8. Second <= Ttl
  <2>1. PICK s \in Nat \ {0}, t \in Nat \ {0} : s = Second /\ t = Ttl /\ t % s = 0
    BY TimeAssumption
  <2>2. t < s => t % s = t
    BY <2>1
  <2> QED BY <2>1, <2>2
<1>9. now <= e
  BY <1>7, <1>8, TimeAssumption
<1>10. PICK t \in Tokens : SignSession(config, o, now) =
                             [operator |-> o, expires |-> e, token |-> t, since |-> now]
  BY <1>5, <1>6 DEF SignSession
<1> QED BY <1>7, <1>9, <1>10 DEF IsSession, Cookie

\* Whom a request for a page is admitted as: nobody in particular when
\* authentication is off, else the operator of a cookie that still counts.
LEMMA AdmittedVisitor ==
  ASSUME NEW c
  PROVE  /\ ~Enabled(config) => Visitor(c) = None
         /\ Enabled(config) /\ Visitor(c) # Refused =>
               /\ c # None /\ Visitor(c) = c.operator
               /\ c.token \in TokensOf(config, c.operator) /\ c.expires >= now
  BY DEF Visitor, Caller, Proved, ReadSession

\* ... and that is an operator, or nobody.
LEMMA VisitorIsOperator ==
  ASSUME NEW c, c # None => c \in Cookie, Visitor(c) # Refused
  PROVE  Visitor(c) \in Operators \cup {None}
  BY AdmittedVisitor DEF Cookie

-----------------------------------------------------------------------------
(* The open alerts.                                                        *)

\* They are a list of points without repetitions.
LEMMA AlertedLists ==
  ASSUME NEW s
  PROVE  s \in Alerted <=> /\ s \in Seq(Points)
                           /\ \A i, j \in 1 .. Len(s) : s[i] = s[j] => i = j
<1>1. ASSUME s \in Alerted
      PROVE  s \in Seq(Points) /\ \A i, j \in 1 .. Len(s) : s[i] = s[j] => i = j
  <2>1. IsFiniteSet(Points) /\ Cardinality(Points) \in Nat
    BY PointAssumption, FS_CardinalityType
  <2>2. PICK n \in 0 .. Cardinality(Points) : s \in [1 .. n -> Points]
    BY <1>1 DEF Alerted
  <2>3. n \in Nat /\ DOMAIN s = 1 .. n
    BY <2>1, <2>2
  <2>4. s \in Seq(Points) /\ Len(s) = n
    BY <2>2, <2>3
  <2> QED BY <1>1, <2>3, <2>4 DEF Alerted
<1>2. ASSUME s \in Seq(Points), \A i, j \in 1 .. Len(s) : s[i] = s[j] => i = j
      PROVE  s \in Alerted
  <2>1. PICK n \in Nat : n = Len(s) /\ DOMAIN s = 1 .. n /\ s \in [1 .. n -> Points]
    BY <1>2
  <2>2. s \in Injection(1 .. n, Points)
    BY <1>2, <2>1 DEF Injection, IsInjective
  <2>3. IsFiniteSet(Points) /\ Cardinality(Points) \in Nat
    BY PointAssumption, FS_CardinalityType
  <2>4. Cardinality(1 .. n) = n
    <3>1. 1 \in Int /\ n \in Int
      OBVIOUS
    <3>2. Cardinality(1 .. n) = IF 1 > n THEN 0 ELSE n - 1 + 1
      BY <3>1, FS_Interval
    <3> QED BY <3>2
  <2>5. n <= Cardinality(Points)
    BY <2>2, <2>3, <2>4, FS_Injection
  <2>6. n \in 0 .. Cardinality(Points)
    BY <2>3, <2>5
  <2> QED BY <1>2, <2>1, <2>6 DEF Alerted
<1> QED BY <1>1, <1>2

\* A new alert comes first.
LEMMA AlertComesFirst ==
  ASSUME NEW s \in Alerted, NEW p \in Points, p \notin {s[i] : i \in DOMAIN s}
  PROVE  /\ <<p>> \o s \in Alerted
         /\ \A i \in DOMAIN (<<p>> \o s) :
               (<<p>> \o s)[i] = p \/ \E j \in DOMAIN s : (<<p>> \o s)[i] = s[j]
<1>1. s \in Seq(Points) /\ \A i, j \in 1 .. Len(s) : s[i] = s[j] => i = j
  BY AlertedLists
<1>2. PICK n \in Nat : n = Len(s) /\ DOMAIN s = 1 .. n
  BY <1>1
<1>3. PICK t \in Seq(Points) : t = <<p>> \o s
  <2>1. <<p>> \in Seq(Points)
    OBVIOUS
  <2>2. <<p>> \o s \in Seq(Points)
    BY <1>1, <2>1, ConcatProperties
  <2> QED BY <2>2
<1>4. /\ Len(t) = n + 1 /\ DOMAIN t = 1 .. n + 1
      /\ t[1] = p /\ \A i \in 2 .. n + 1 : t[i] = s[i - 1] /\ i - 1 \in 1 .. n
  BY <1>1, <1>2, <1>3
<1>5. \A i, j \in 1 .. n + 1 : t[i] = t[j] => i = j
  <2> SUFFICES ASSUME NEW i \in 1 .. n + 1, NEW j \in 1 .. n + 1, t[i] = t[j]
               PROVE  i = j
    OBVIOUS
  <2>1. CASE i = 1 /\ j = 1
    BY <2>1
  <2>2. CASE i = 1 /\ j # 1
    BY <1>2, <1>4, <2>2
  <2>3. CASE i # 1 /\ j = 1
    BY <1>2, <1>4, <2>3
  <2>4. CASE i # 1 /\ j # 1
    <3>1. s[i - 1] = s[j - 1] /\ i - 1 \in 1 .. n /\ j - 1 \in 1 .. n
      BY <1>4, <2>4
    <3>2. i - 1 = j - 1
      BY <1>1, <1>2, <3>1
    <3> QED BY <3>2
  <2> QED BY <2>1, <2>2, <2>3, <2>4
<1>6. t \in Alerted
  BY <1>3, <1>4, <1>5, AlertedLists
<1>7. \A i \in DOMAIN t : t[i] = p \/ \E j \in DOMAIN s : t[i] = s[j]
  BY <1>2, <1>4
<1> QED BY <1>3, <1>6, <1>7

\* acknowledge closes the alert at k.
Without(s, k) == SubSeq(s, 1, k - 1) \o SubSeq(s, k + 1, Len(s))

\* Without the alert at k the others are left ...
LEMMA OneIsTakenOut ==
  ASSUME NEW s \in Alerted, NEW n \in Nat, n = Len(s), NEW k \in 1 .. n
  PROVE  /\ Without(s, k) \in Alerted
         /\ \A i \in DOMAIN Without(s, k) :
               Without(s, k)[i] # s[k] /\ \E j \in 1 .. n : Without(s, k)[i] = s[j]
<1>1. s \in Seq(Points) /\ \A i, j \in 1 .. Len(s) : s[i] = s[j] => i = j
  BY AlertedLists
<1>2. DOMAIN s = 1 .. n
  BY <1>1
<1>3. k \in 1 .. n /\ k \in Int /\ n \in Nat /\ \A i \in 1 .. n : s[i] \in Points
  BY <1>1, <1>2
<1>4. PICK a : a = SubSeq(s, 1, k - 1)
  OBVIOUS
<1>5. a \in Seq(Points) /\ Len(a) = k - 1 /\ \A i \in 1 .. k - 1 : a[i] = s[i]
  <2>1. 1 \in Int /\ k - 1 \in Int /\ \A i \in 1 .. k - 1 : s[i] \in Points
    BY <1>3
  <2>2. /\ a \in Seq(Points)
        /\ Len(a) = IF 1 <= k - 1 THEN k - 1 - 1 + 1 ELSE 0
        /\ \A i \in 1 .. k - 1 - 1 + 1 : a[i] = s[1 + i - 1]
    BY <1>4, <2>1, SubSeqProperties
  <2> QED BY <1>3, <2>2
<1>6. PICK z : z = SubSeq(s, k + 1, n)
  OBVIOUS
<1>7. z \in Seq(Points) /\ Len(z) = n - k /\ \A i \in 1 .. n - k : z[i] = s[k + i]
  <2>1. k + 1 \in Int /\ n \in Int /\ \A i \in k + 1 .. n : s[i] \in Points
    BY <1>3
  <2>2. /\ z \in Seq(Points)
        /\ Len(z) = IF k + 1 <= n THEN n - (k + 1) + 1 ELSE 0
        /\ \A i \in 1 .. n - (k + 1) + 1 : z[i] = s[k + 1 + i - 1]
    BY <1>6, <2>1, SubSeqProperties
  <2>3. Len(z) = n - k
    BY <2>2
  <2>4. ASSUME NEW i \in 1 .. n - k
        PROVE  z[i] = s[k + i]
    <3>1. i \in 1 .. n - (k + 1) + 1 /\ k + 1 + i - 1 = k + i
      OBVIOUS
    <3> QED BY <2>2, <3>1
  <2> QED BY <2>2, <2>3, <2>4
<1>8. PICK t : t = Without(s, k) /\ t = a \o z
  BY <1>4, <1>6 DEF Without
<1>9. t \in Seq(Points) /\ Len(t) = n - 1
  <2>1. t \in Seq(Points) /\ Len(t) = Len(a) + Len(z)
    <3>1. a \in Seq(Points) /\ z \in Seq(Points)
      BY <1>5, <1>7
    <3>2. a \o z \in Seq(Points) /\ Len(a \o z) = Len(a) + Len(z)
      BY <3>1, ConcatProperties
    <3> QED BY <1>8, <3>2
  <2>2. PICK p, q : p = Len(a) /\ q = Len(z) /\ p = k - 1 /\ q = n - k
    BY <1>5, <1>7
  <2>3. p + q = n - 1
    BY <2>2
  <2> QED BY <2>1, <2>2, <2>3
<1>10. \A i \in 1 .. n - 1 : \E j \in 1 .. n : j # k /\ t[i] = s[j] /\ j = IF i < k THEN i ELSE i + 1
  <2> SUFFICES ASSUME NEW i \in 1 .. n - 1
               PROVE  \E j \in 1 .. n : j # k /\ t[i] = s[j] /\ j = IF i < k THEN i ELSE i + 1
    OBVIOUS
  <2>1. CASE i < k
    <3>1. i \in 1 .. k - 1 /\ i \in 1 .. n /\ i # k
      BY <2>1
    <3>2. t[i] = a[i]
      BY <1>5, <1>7, <1>8, <3>1
    <3>3. t[i] = s[i]
      BY <1>5, <3>1, <3>2
    <3> QED BY <2>1, <3>1, <3>3
  <2>2. CASE ~(i < k)
    <3>1. PICK m \in 1 .. n - k : m = i - (k - 1) /\ k + m = i + 1
      BY <2>2
    <3>2. i + 1 \in 1 .. n /\ i + 1 # k
      BY <2>2
    <3>3. t[i] = z[m]
      <4>1. PICK p \in Nat, q \in Nat : p = Len(a) /\ q = Len(z) /\ p = k - 1 /\ q = n - k
        BY <1>5, <1>7
      <4>2. i \in 1 .. p + q /\ ~(i <= p) /\ i - p = m
        BY <2>2, <3>1, <4>1
      <4>3. \A l \in 1 .. p + q : t[l] = IF l <= p THEN a[l] ELSE z[l - p]
        <5>1. \A l \in 1 .. Len(a) + Len(z) :
                 (a \o z)[l] = IF l <= Len(a) THEN a[l] ELSE z[l - Len(a)]
          BY <1>5, <1>7, ConcatProperties
        <5> QED BY <1>8, <4>1, <5>1
      <4> QED BY <4>2, <4>3
    <3>4. t[i] = s[i + 1]
      BY <1>7, <3>1, <3>3
    <3> QED BY <2>2, <3>2, <3>4
  <2> QED BY <2>1, <2>2
<1>11. DOMAIN t = 1 .. n - 1
  <2>1. DOMAIN t = 1 .. Len(t)
    BY <1>9, LenProperties
  <2> QED BY <1>9, <2>1
<1>12. ASSUME NEW i \in 1 .. n - 1, NEW j \in 1 .. n - 1, t[i] = t[j]
       PROVE  i = j
  <2>1. PICK l \in 1 .. n : t[i] = s[l] /\ l = IF i < k THEN i ELSE i + 1
    BY <1>10
  <2>2. PICK m \in 1 .. n : t[j] = s[m] /\ m = IF j < k THEN j ELSE j + 1
    BY <1>10
  <2>3. l = m
    BY <1>1, <1>12, <2>1, <2>2
  <2> QED BY <2>1, <2>2, <2>3
<1>13. t \in Alerted
  BY <1>9, <1>12, AlertedLists
<1>14. \A i \in DOMAIN t : t[i] # s[k] /\ \E j \in 1 .. n : t[i] = s[j]
  <2> SUFFICES ASSUME NEW i \in 1 .. n - 1
               PROVE  t[i] # s[k] /\ \E j \in 1 .. n : t[i] = s[j]
    BY <1>11
  <2>1. PICK j \in 1 .. n : j # k /\ t[i] = s[j]
    BY <1>10
  <2>2. s[j] # s[k]
    BY <1>1, <2>1
  <2> QED BY <2>1, <2>2
<1> QED BY <1>8, <1>13, <1>14

\* ... whatever the length of the list is.
LEMMA AlertIsTakenOut ==
  ASSUME NEW s \in Alerted, NEW k \in DOMAIN s
  PROVE  /\ Without(s, k) \in Alerted
         /\ \A i \in DOMAIN Without(s, k) :
               Without(s, k)[i] # s[k] /\ \E j \in DOMAIN s : Without(s, k)[i] = s[j]
<1>1. PICK n \in Nat : n = Len(s) /\ DOMAIN s = 1 .. n
  <2>1. s \in Seq(Points)
    BY AlertedLists
  <2> QED BY <2>1
<1>2. PICK j \in 1 .. n : j = k
  BY <1>1
<1>3. /\ Without(s, j) \in Alerted
      /\ \A i \in DOMAIN Without(s, j) :
            Without(s, j)[i] # s[j] /\ \E m \in 1 .. n : Without(s, j)[i] = s[m]
  BY <1>1, OneIsTakenOut
<1> QED BY <1>1, <1>2, <1>3

-----------------------------------------------------------------------------
(* What a page shows.                                                      *)

LEMMA ChartOfAPoint ==
  ASSUME NEW readings \in Numbers(MaxReadings), NEW alerts \in Alerted, NEW chosen
  PROVE  TrendView(chosen, readings, alerts) \in Trend
<1>1. DefaultTrendPoint(readings, alerts) \in Points
  <2> DEFINE measured == {p \in Points : readings[p] > 0}
  <2>1. CASE alerts # <<>>
    <3>1. alerts \in Seq(Points)
      BY AlertedLists
    <3>2. Head(alerts) \in Points
      BY <2>1, <3>1
    <3> QED BY <2>1, <3>2 DEF DefaultTrendPoint
  <2>2. CASE alerts = <<>>
    <3>1. Min(Points) \in Points
      BY PointAssumption, MinIsLeast
    <3>2. measured # {} => Min(measured) \in Points
      <4>1. measured \subseteq Points /\ measured \subseteq Nat
        BY PointAssumption
      <4> HIDE DEF measured
      <4> QED BY <4>1, MinIsLeast
    <3> QED BY <2>2, <3>1, <3>2 DEF DefaultTrendPoint
  <2> QED BY <2>1, <2>2
<1>2. PICK p \in Points : TrendView(chosen, readings, alerts) = [point |-> p, shown |-> readings[p]]
  BY <1>1 DEF TrendView
<1> QED BY <1>2 DEF Trend, Numbers

LEMMA InboxForSomebody ==
  ASSUME NEW who \in Operators \cup {None}, NEW alerts \in Alerted, NEW asked \in 0 .. MaxEras
  PROVE  /\ InboxView(who, alerts, asked) \in Inbox
         /\ InboxView(who, alerts, asked).who = who
         /\ InboxView(who, alerts, asked).era = asked
         /\ InboxView(who, alerts, asked).open = alerts
  BY DEF InboxView, Inbox

-----------------------------------------------------------------------------
(* The inductive invariant, conjunct by conjunct.                          *)

LEMMA Initially == Init => IInv
<1> SUFFICES ASSUME Init PROVE IInv
  OBVIOUS
<1>1. ConfigInv
  BY LoadedConfiguration DEF Init, ConfigInv
<1>2. ClockInv
  BY BoundAssumption DEF Init, ClockInv
<1>3. JarInv
  BY DEF Init, JarInv
<1>4. StoreInv
  <2>1. <<>> \in Alerted
    <3>1. <<>> \in Seq(Points) /\ Len(<<>>) = 0
      OBVIOUS
    <3>2. PICK s \in Seq(Points) : s = <<>> /\ Len(s) = 0
      BY <3>1
    <3>3. s \in Alerted
      <4>1. \A i, j \in 1 .. Len(s) : s[i] = s[j] => i = j
        BY <3>2
      <4> QED BY <4>1, AlertedLists
    <3> QED BY <3>2, <3>3
  <2>2. [p \in Points |-> 0] \in Numbers(MaxReadings)
    BY BoundAssumption DEF Numbers
  <2>3. DOMAIN <<>> = {}
    OBVIOUS
  <2> QED BY <2>1, <2>2, <2>3 DEF Init, StoreInv
<1>5. ScreenInv
  BY DEF Init, ScreenInv
<1>6. PostInv
  BY DEF Init, PostInv
<1>7. IdentityInv
  BY DEF Init, IdentityInv, Sent, InHand
<1>8. AdmissionInv
  BY DEF Init, AdmissionInv, InHand
<1> QED BY <1>1, <1>2, <1>3, <1>4, <1>5, <1>6, <1>7, <1>8 DEF IInv

\* Restart is the only action that configures.
LEMMA ConfigNext == IInv /\ [Next]_vars => ConfigInv'
<1> SUFFICES ASSUME IInv, [Next]_vars PROVE ConfigInv'
  OBVIOUS
<1>1. CASE UNCHANGED config
  BY <1>1 DEF IInv, ConfigInv, IsConfiguration
<1>2. CASE \E env \in Envs : Restart(env)
  BY <1>2, LoadedConfiguration DEF Restart, ConfigInv, IsConfiguration
<1> QED
  BY <1>1, <1>2 DEF Next, Environment, Operate, Refresh, Answer, Tick, SignIn, SignOut,
     SignOutElsewhere, LoadPage, RecordReading, RaiseAlert, AcknowledgeByApi, Upload, Focus, Blur,
     SubmitAck, FetchTrend, LoseTrend, FetchOusted, PollInbox, DeliverInbox, AckRefused, AdmitAck,
     FailAck, RecordAck, DeliverAck, vars, server

\* The clock and the count of changes stay within their bounds.
LEMMA ClockNext == IInv /\ [Next]_vars => ClockInv' /\ now <= now' /\ now' \in Nat
<1> SUFFICES ASSUME IInv, [Next]_vars PROVE ClockInv' /\ now <= now' /\ now' \in Nat
  OBVIOUS
<1>1. now \in 0 .. MaxNow /\ era \in 0 .. MaxEras
  BY DEF IInv, ClockInv
<1>2. \/ UNCHANGED <<now, era>>
      \/ now < MaxNow /\ now' = now + 1 /\ era' = era
      \/ era < MaxEras /\ era' = era + 1 /\ now' = now
  BY DEF Next, Environment, Operate, Refresh, Answer, Tick, Restart, SignIn, SignOut,
     SignOutElsewhere, LoadPage, RecordReading, RaiseAlert, AcknowledgeByApi, Upload, Focus, Blur,
     SubmitAck, FetchTrend, LoseTrend, FetchOusted, PollInbox, DeliverInbox, AckRefused, AdmitAck,
     FailAck, RecordAck, DeliverAck, vars, server
<1> QED BY <1>1, <1>2, BoundAssumption DEF ClockInv

\* Time passes over a cookie without changing it.
LEMMA SessionStays ==
  ASSUME now \in Nat, now' \in Nat, now <= now', NEW c, IsSession(c), NEW d, d = c
  PROVE  /\ d \in Cookie
         /\ d.since <= now' /\ d.since <= d.expires /\ d.expires <= d.since + Ttl
  BY DEF IsSession, Cookie

LEMMA JarNext == IInv /\ [Next]_vars => JarInv'
<1> SUFFICES ASSUME IInv, [Next]_vars, jar' # None PROVE IsSession(jar)'
  BY DEF JarInv
<1>1. now \in Nat /\ now' \in Nat /\ now <= now'
  BY ClockNext DEF IInv, ClockInv
<1>2. CASE UNCHANGED jar
  BY <1>1, <1>2, SessionStays DEF IInv, JarInv, IsSession
<1>3. ASSUME NEW t \in Tokens, SignIn(t)
      PROVE  IsSession(jar)'
  <2>1. IsConfiguration(config)
    BY <1>3 DEF IInv, ConfigInv, SignIn
  <2>2. PICK o \in Operators : o = Identify(config, t) /\ \E i \in DOMAIN config : config[i].operator = o
    BY <1>3, <2>1, IdentifiedOperator DEF SignIn
  <2>3. IsSession(SignSession(config, o, now))
    BY <1>1, <2>1, <2>2, SignedSession
  <2>4. jar' = SignSession(config, o, now) /\ now' = now
    BY <1>3, <2>2 DEF SignIn
  <2> QED BY <2>3, <2>4 DEF IsSession
<1> QED
  BY <1>2, <1>3 DEF Next, Environment, Operate, Refresh, Answer, Tick, Restart, SignOut,
     SignOutElsewhere, LoadPage, RecordReading, RaiseAlert, AcknowledgeByApi, Upload, Focus, Blur,
     SubmitAck, FetchTrend, LoseTrend, FetchOusted, PollInbox, DeliverInbox, AckRefused, AdmitAck,
     FailAck, RecordAck, DeliverAck, vars, server

\* What acknowledge does to the alerts on record.
LEMMA AcknowledgeKeeps ==
  ASSUME StoreInv, NEW p \in Points, NEW o \in Operators, Acknowledge(p, o), stored' = stored
  PROVE  StoreInv'
<1>1. /\ open \in Alerted /\ acked \in [Points -> Operators \cup {None}]
      /\ \A i \in DOMAIN open : acked[open[i]] = None
  BY DEF StoreInv
<1>2. CASE UNCHANGED <<open, acked>>
  BY <1>2 DEF StoreInv
<1>3. ASSUME NEW k \in DOMAIN open, open[k] = p,
             open' = SubSeq(open, 1, k - 1) \o SubSeq(open, k + 1, Len(open)),
             acked' = [acked EXCEPT ![p] = o]
      PROVE  StoreInv'
  <2>1. open \in Seq(Points)
    BY <1>1, AlertedLists
  <2>3. PICK t : t = open' /\ t = Without(open, k)
    BY <1>3 DEF Without
  <2>4. /\ t \in Alerted
        /\ \A i \in DOMAIN t : t[i] # open[k] /\ \E j \in DOMAIN open : t[i] = open[j]
    BY <1>1, <2>3, AlertIsTakenOut
  <2>5. \A j \in DOMAIN open : open[j] \in Points /\ acked[open[j]] = None
    BY <1>1, <2>1
  <2>6. acked' \in [Points -> Operators \cup {None}]
    BY <1>1, <1>3
  <2>7. ASSUME NEW i \in DOMAIN t
        PROVE  acked'[t[i]] = None
    BY <1>1, <1>3, <2>4, <2>5
  <2>8. stored' \in Numbers(MaxReadings)
    BY DEF StoreInv
  <2> QED BY <2>3, <2>4, <2>6, <2>7, <2>8 DEF StoreInv, Alerted, Numbers
<1> QED BY <1>2, <1>3 DEF Acknowledge

LEMMA StoreNext == IInv /\ [Next]_vars => StoreInv'
<1> SUFFICES ASSUME IInv, [Next]_vars PROVE StoreInv'
  OBVIOUS
<1>1. StoreInv /\ stored \in Numbers(MaxReadings)
  BY DEF IInv, StoreInv
<1>2. CASE UNCHANGED <<stored, open, acked>>
  BY <1>1, <1>2 DEF StoreInv, Alerted, Numbers
<1>3. ASSUME NEW p \in Points, NEW k \in {0, 1}, stored[p] + k <= MaxReadings,
             stored' = [stored EXCEPT ![p] = @ + k], UNCHANGED <<open, acked>>
      PROVE  StoreInv'
  <2>1. stored[p] + k \in 0 .. MaxReadings
    BY <1>1, <1>3, BoundAssumption DEF Numbers
  <2>2. stored' \in Numbers(MaxReadings)
    BY <1>1, <1>3, <2>1 DEF Numbers
  <2> QED BY <1>1, <1>3, <2>2 DEF StoreInv, Alerted, Numbers
<1>4. ASSUME NEW p \in Points, RecordReading(p)
      PROVE  StoreInv'
  <2>1. stored[p] + 1 <= MaxReadings
    BY <1>1, <1>4, BoundAssumption DEF RecordReading, Numbers
  <2> QED BY <1>3, <1>4, <2>1 DEF RecordReading
<1>5. ASSUME NEW p \in Points, RaiseAlert(p)
      PROVE  StoreInv'
  <2>1. /\ open \in Alerted /\ acked \in [Points -> Operators \cup {None}]
        /\ \A i \in DOMAIN open : acked[open[i]] = None
    BY <1>1 DEF StoreInv
  <2>2. p \notin {open[i] : i \in DOMAIN open} /\ acked[p] = None /\ UNCHANGED <<stored, acked>>
    BY <1>5 DEF RaiseAlert
  <2>3. PICK t : t = open' /\ t = <<p>> \o open
    BY <1>5 DEF RaiseAlert
  <2>4. t \in Alerted /\ \A i \in DOMAIN t : t[i] = p \/ \E j \in DOMAIN open : t[i] = open[j]
    BY <2>1, <2>2, <2>3, AlertComesFirst
  <2>5. \A i \in DOMAIN t : acked[t[i]] = None
    BY <2>1, <2>2, <2>4
  <2> QED BY <1>1, <2>1, <2>2, <2>3, <2>4, <2>5 DEF StoreInv, Alerted, Numbers
<1>6. ASSUME NEW p \in Points, NEW bearer \in Tokens \cup {None}, NEW o \in Operators,
             AcknowledgeByApi(p, bearer, o)
      PROVE  StoreInv'
  <2>1. IsConfiguration(config)
    BY <1>6 DEF IInv, ConfigInv, AcknowledgeByApi
  <2> DEFINE caller == Caller(config, "api", bearer, None, now)
  <2>2. caller # Refused => caller \in Operators \cup {None}
    BY <2>1, IdentifiedOperator DEF Caller, Proved
  <2>3. caller # Refused /\ Acknowledge(p, IF caller = None THEN o ELSE caller) /\ stored' = stored
    BY <1>6 DEF AcknowledgeByApi
  <2> HIDE DEF caller
  <2>4. (IF caller = None THEN o ELSE caller) \in Operators
    BY <2>2, <2>3
  <2> QED BY <1>1, <2>3, <2>4, AcknowledgeKeeps
<1>7. CASE RecordAck
  <2>1. InHand /\ stored' = stored
    BY <1>7 DEF RecordAck
  <2>2. post \in SentPost
    BY <2>1 DEF IInv, PostInv, InHand, AnsweredPost
  <2>3. PICK who \in Operators \cup {None} : who = post.signedIn
    BY <2>2 DEF SentPost
  <2>5. PICK o : o = RecordedUnder(who, post.typed)
    OBVIOUS
  <2>6. o \in Operators \cup {None} /\ post.point \in Points
    BY <2>2, <2>3, <2>5 DEF RecordedUnder, SentPost
  <2>7. IF o = None THEN UNCHANGED <<open, acked>> ELSE Acknowledge(post.point, o)
    BY <1>7, <2>3, <2>5 DEF RecordAck
  <2>8. CASE o = None
    BY <1>2, <2>1, <2>7, <2>8
  <2>9. CASE o # None
    <3>1. o \in Operators
      BY <2>6, <2>9
    <3>2. PICK p \in Points : p = post.point
      BY <2>6
    <3>3. Acknowledge(p, o)
      BY <2>7, <2>9, <3>2
    <3> QED BY <1>1, <2>1, <3>1, <3>3, AcknowledgeKeeps
  <2> QED BY <2>8, <2>9
<1>8. ASSUME NEW p \in Points, NEW k \in {0, 1}, Upload(p, k)
      PROVE  StoreInv'
  BY <1>3, <1>8 DEF Upload
<1> QED
  BY <1>2, <1>4, <1>5, <1>6, <1>7, <1>8 DEF Next, Environment, Operate, Refresh, Answer, Tick,
     Restart, SignIn, SignOut, SignOutElsewhere, LoadPage, Focus, Blur, SubmitAck, FetchTrend,
     LoseTrend, FetchOusted, PollInbox, DeliverInbox, AckRefused, AdmitAck, FailAck, DeliverAck,
     vars, world

\* A page has just been rendered for the visitor, or none is left.
Rendered ==
    /\ tab' \in {"closed", "signin", "dashboard"}
    /\ form' = None /\ due' = FALSE
    /\ IF tab' = "dashboard"
       THEN /\ Visitor(jar) # Refused
            /\ inbox' \in Inbox /\ trend' \in Trend
            /\ inbox'.who = Visitor(jar) /\ inbox'.era = era
       ELSE inbox' = None /\ trend' = None

LEMMA PageIsRendered ==
  ASSUME IInv, Visitor(jar) # Refused, NEW readings \in Numbers(MaxReadings),
         Show("dashboard", PageView(Visitor(jar), readings, open))
  PROVE  Rendered
<1>1. open \in Alerted /\ era \in 0 .. MaxEras
  BY DEF IInv, StoreInv, ClockInv
<1>2. jar # None => jar \in Cookie
  BY DEF IInv, JarInv, IsSession
<1>3. PICK who \in Operators \cup {None} : who = Visitor(jar)
  BY <1>2, VisitorIsOperator
<1>4. PICK view \in Inbox : view = InboxView(who, open, era) /\ view.who = who /\ view.era = era
  BY <1>1, InboxForSomebody
<1>5. PICK chart \in Trend : chart = TrendView(None, readings, open)
  BY <1>1, ChartOfAPoint
<1>6. tab' = "dashboard" /\ inbox' = view /\ trend' = chart /\ form' = None /\ due' = FALSE
  BY <1>3, <1>4, <1>5 DEF Show, PageView
<1> QED BY <1>3, <1>4, <1>5, <1>6 DEF Rendered

LEMMA NothingIsRendered ==
  ASSUME NEW where \in {"closed", "signin"}, Show(where, NoPage)
  PROVE  Rendered
  BY DEF Show, NoPage, Rendered

LEMMA NavigateRenders ==
  ASSUME IInv, Navigate
  PROVE  Rendered
<1>1. stored \in Numbers(MaxReadings)
  BY DEF IInv, StoreInv
<1>2. CASE config = Refused \/ Visitor(jar) = Refused
  BY <1>2, NothingIsRendered DEF Navigate
<1>3. CASE config # Refused /\ Visitor(jar) # Refused
  BY <1>1, <1>3, PageIsRendered DEF Navigate
<1> QED BY <1>2, <1>3

\* The steps that leave the page or render it anew.
Turns ==
    \/ SignOut \/ LoadPage \/ FetchOusted
    \/ \E p \in Points, k \in {0, 1} : Upload(p, k) /\ ~htmx

LEMMA TurnsRender ==
  ASSUME IInv, [Next]_vars, Turns
  PROVE  /\ Rendered /\ Abandon /\ htmx' = htmx
         /\ tab' = "dashboard" => UNCHANGED <<config, jar, era>>
<1>1. CASE SignOut
  BY <1>1, NothingIsRendered DEF SignOut, ShowSignIn, Show
<1>2. CASE LoadPage
  BY <1>2, NavigateRenders DEF LoadPage, server
<1>3. CASE FetchOusted
  BY <1>3, NothingIsRendered DEF FetchOusted, ShowSignIn, server
<1>4. ASSUME NEW p \in Points, NEW k \in {0, 1}, Upload(p, k), ~htmx
      PROVE  /\ Rendered /\ Abandon /\ htmx' = htmx
             /\ tab' = "dashboard" => UNCHANGED <<config, jar, era>>
  <2>1. stored' \in Numbers(MaxReadings)
    BY StoreNext DEF StoreInv, Numbers
  <2>2. PICK readings \in Numbers(MaxReadings) : readings = stored'
    BY <2>1
  <2>3. /\ Show("dashboard", PageView(Visitor(jar), readings, open)) /\ Abandon
        /\ Visitor(jar) # Refused /\ UNCHANGED <<server, htmx>>
    BY <1>4, <2>2 DEF Upload, Admitted
  <2> QED BY <2>2, <2>3, PageIsRendered DEF server
<1> QED BY <1>1, <1>2, <1>3, <1>4 DEF Turns

LEMMA ScreenNext == IInv /\ [Next]_vars => ScreenInv'
<1> SUFFICES ASSUME IInv, [Next]_vars PROVE ScreenInv'
  OBVIOUS
<1> USE DEF ScreenInv
<1>1. ScreenInv
  BY DEF IInv
<1>2. CASE UNCHANGED <<htmx, tab, inbox, trend, form, due, reply>>
  BY <1>1, <1>2 DEF Inbox, Trend, Alerted
<1>3. CASE Turns
  <2>1. Rendered /\ Abandon /\ htmx' = htmx
    BY <1>3, TurnsRender
  <2>2. Inbox' = Inbox /\ Trend' = Trend
    BY DEF Inbox, Trend, Alerted
  <2> QED BY <1>1, <2>1, <2>2 DEF Rendered, Abandon
<1>4. ASSUME NEW p \in Points, NEW k \in {0, 1}, Upload(p, k), htmx
      PROVE  ScreenInv'
  BY <1>1, <1>4 DEF Upload, Inbox, Trend, Alerted
<1>5. CASE FetchTrend
  <2>1. stored \in Numbers(MaxReadings) /\ open \in Alerted
    BY DEF IInv, StoreInv
  <2>2. PICK chart \in Trend : chart = TrendView(trend.point, stored, open)
    BY <2>1, ChartOfAPoint
  <2>3. trend' = chart /\ due' = FALSE /\ tab = "dashboard" /\ UNCHANGED <<htmx, tab, inbox, form, reply>>
    BY <1>5, <2>2 DEF FetchTrend, Watching
  <2> QED BY <1>1, <2>3 DEF Inbox, Trend, Alerted
<1>6. CASE LoseTrend
  BY <1>1, <1>6 DEF LoseTrend, Inbox, Trend, Alerted
<1>7. CASE PollInbox
  <2>1. open \in Alerted /\ era \in 0 .. MaxEras /\ (jar # None => jar \in Cookie)
    BY DEF IInv, StoreInv, ClockInv, JarInv, IsSession
  <2>2. Visitor(jar) \in Operators \cup {None} /\ tab = "dashboard"
    BY <1>7, <2>1, VisitorIsOperator DEF PollInbox, Admitted, Watching
  <2>3. InboxView(Visitor(jar), open, era) \in Inbox
    BY <2>1, <2>2, InboxForSomebody
  <2>4. reply' \in Inbox /\ UNCHANGED <<htmx, tab, inbox, trend, form, due>>
    BY <1>7, <2>3 DEF PollInbox, screen
  <2>5. Inbox' = Inbox /\ Trend' = Trend
    BY DEF Inbox, Trend, Alerted
  <2> QED BY <1>1, <2>2, <2>4, <2>5
<1>8. CASE DeliverInbox
  BY <1>1, <1>8 DEF DeliverInbox, Inbox, Trend, Alerted
<1>9. ASSUME NEW p \in Points, NEW o \in Operators \cup {None}, Focus(p, o)
      PROVE  ScreenInv'
  <2>1. /\ tab = "dashboard" /\ (inbox.who # None => o = None) /\ form' = [alert |-> p, typed |-> o]
        /\ UNCHANGED <<htmx, tab, inbox, trend, due, reply>>
    BY <1>9 DEF Focus
  <2>2. form' \in [alert : Points, typed : Operators \cup {None}] /\ form'.typed = o
    BY <2>1
  <2> QED BY <1>1, <2>1, <2>2 DEF Inbox, Trend, Alerted
<1>10. CASE Blur
  BY <1>1, <1>10 DEF Blur, Inbox, Trend, Alerted
<1>11. CASE SubmitAck
  BY <1>1, <1>11 DEF SubmitAck, Inbox, Trend, Alerted
<1>12. CASE DeliverAck
  <2>1. post # None /\ post.stage = "answered" /\ htmx' = htmx
    BY <1>12 DEF DeliverAck
  <2>2. tab = "dashboard" /\ (post.what = "inbox" => post.view \in Inbox)
    BY <2>1 DEF IInv, PostInv, SentPost
  <2>3. Inbox' = Inbox /\ Trend' = Trend
    BY DEF Inbox, Trend, Alerted
  <2>4. CASE /\ post.what = "inbox" /\ inbox' = post.view /\ form' = None
             /\ UNCHANGED <<tab, trend, due, reply>>
    BY <1>1, <2>1, <2>2, <2>3, <2>4
  <2>5. CASE UNCHANGED <<tab, inbox, trend, form, due, reply>>
    BY <1>1, <2>1, <2>3, <2>5
  <2>6. CASE Rendered /\ reply' = None
    BY <1>1, <2>1, <2>3, <2>6 DEF Rendered
  <2>7. ASSUME Show(IF post.what = "signin" THEN "signin" ELSE "closed", NoPage)
        PROVE  Rendered
    <3>1. PICK where \in {"closed", "signin"} :
             where = IF post.what = "signin" THEN "signin" ELSE "closed"
      OBVIOUS
    <3> QED BY <2>7, <3>1, NothingIsRendered
  <2> QED BY <1>12, <2>4, <2>5, <2>6, <2>7, NavigateRenders DEF DeliverAck
<1> QED
  BY <1>2, <1>3, <1>4, <1>5, <1>6, <1>7, <1>8, <1>9, <1>10, <1>11, <1>12 DEF Next, Environment,
     Operate, Refresh, Answer, Turns, Tick, Restart, SignIn, SignOutElsewhere, RecordReading,
     RaiseAlert, AcknowledgeByApi, AckRefused, AdmitAck, FailAck, RecordAck, vars, screen

\* A page that is left keeps only what was sent, as a request without a page.
LEMMA AbandonedPost ==
  ASSUME PostInv, Abandon, post' # None
  PROVE  /\ Sent \/ InHand
         /\ post \in SentPost /\ post' \in SentPost /\ post'.orphan
         /\ post'.cookie = post.cookie /\ post'.era = post.era /\ post'.rendered = post.rendered
         /\ post'.shown = post.shown /\ post'.typed = post.typed /\ post'.point = post.point
         /\ post'.stage = post.stage /\ post.stage \in {"sent", "admitted"}
         /\ post'.signedIn = post.signedIn /\ post'.admitted = post.admitted
<1>1. (Sent \/ InHand) /\ post' = [post EXCEPT !.orphan = TRUE]
  BY DEF Abandon
<1>2. post \in SentPost
  BY <1>1 DEF PostInv, Sent, InHand, AnsweredPost
<1>3. PICK p : p = [post EXCEPT !.orphan = TRUE]
  OBVIOUS
<1>4. p = [stage |-> post.stage, orphan |-> TRUE, point |-> post.point, typed |-> post.typed,
           shown |-> post.shown, rendered |-> post.rendered, era |-> post.era,
           cookie |-> post.cookie, signedIn |-> post.signedIn, admitted |-> post.admitted]
  BY <1>2, <1>3 DEF SentPost
<1>5. p \in SentPost
  BY <1>2, <1>4 DEF SentPost
<1>6. p.stage = post.stage /\ post.stage \in {"sent", "admitted"}
  BY <1>2, <1>4 DEF SentPost
<1> QED BY <1>1, <1>2, <1>3, <1>4, <1>5, <1>6

\* A request that is let in stays what it was, and bears the middleware's mark.
LEMMA AdmittedPost ==
  ASSUME IInv, AdmitAck
  PROVE  /\ Sent /\ post \in SentPost /\ post' \in SentPost
         /\ post'.orphan = post.orphan
         /\ post'.cookie = post.cookie /\ post'.era = post.era /\ post'.rendered = post.rendered
         /\ post'.shown = post.shown /\ post'.typed = post.typed
         /\ post'.stage = "admitted" /\ post'.admitted = now
         /\ Visitor(post.cookie) # Refused /\ post'.signedIn = Visitor(post.cookie)
<1>1. Sent /\ Visitor(post.cookie) # Refused
  BY DEF AdmitAck
<1>2. post \in SentPost /\ (post.cookie # None => IsSession(post.cookie))
  BY <1>1 DEF IInv, PostInv, Sent, AnsweredPost
<1>3. PICK who \in Operators \cup {None} : who = Visitor(post.cookie)
  BY <1>1, <1>2, VisitorIsOperator DEF IsSession
<1>4. PICK p : p = [post EXCEPT !.stage = "admitted", !.signedIn = who, !.admitted = now]
  OBVIOUS
<1>5. p = [stage |-> "admitted", orphan |-> post.orphan, point |-> post.point,
           typed |-> post.typed, shown |-> post.shown, rendered |-> post.rendered,
           era |-> post.era, cookie |-> post.cookie, signedIn |-> who, admitted |-> now]
  BY <1>2, <1>4 DEF SentPost
<1>6. now \in 0 .. MaxNow
  BY DEF IInv, ClockInv
<1>7. p \in SentPost
  BY <1>2, <1>5, <1>6 DEF SentPost
<1>8. post' = p
  BY <1>3, <1>4 DEF AdmitAck
<1> QED BY <1>1, <1>2, <1>3, <1>5, <1>7, <1>8

\* A request is answered if its page is still there.
LEMMA AnsweredIs ==
  ASSUME post \in SentPost, NEW what \in {"inbox", "page", "signin", "failed"},
         NEW view \in Inbox \cup {None}, what = "inbox" => view \in Inbox, Answered(what, view),
         post.orphan \/ tab = "dashboard", post' # None
  PROVE  /\ post' \in AnsweredPost /\ tab = "dashboard" /\ post'.stage = "answered"
         /\ post'.what = what /\ post'.view = view
<1>1. CASE post.orphan
  BY <1>1 DEF Answered
<1>2. CASE ~post.orphan
  BY <1>2 DEF Answered, AnsweredPost
<1> QED BY <1>1, <1>2

\* What the answer to an acknowledgement shows.
LEMMA AckAnswer ==
  ASSUME IInv, [Next]_vars, RecordAck
  PROVE  /\ InHand /\ post \in SentPost
         /\ \E what \in {"inbox", "page", "failed"}, view \in Inbox \cup {None} :
               /\ Answered(what, view)
               /\ what = "inbox" => /\ view \in Inbox
                                    /\ view.who = post.signedIn /\ view.era = post.era
<1>1. InHand
  BY DEF RecordAck
<1>2. post \in SentPost
  BY <1>1 DEF IInv, PostInv, InHand, AnsweredPost
<1>3. PICK who \in Operators \cup {None} : who = post.signedIn
  BY <1>2 DEF SentPost
<1>4. PICK alerts \in Alerted : alerts = open'
  BY StoreNext DEF StoreInv, Alerted
<1>5. PICK asked \in 0 .. MaxEras : asked = post.era
  BY <1>2 DEF SentPost
<1>6. PICK view \in Inbox : /\ view = InboxView(who, alerts, asked)
                            /\ view.who = who /\ view.era = asked
  BY InboxForSomebody
<1>7. Answered("failed", None) \/ Answered("inbox", view) \/ Answered("page", None)
  BY <1>3, <1>4, <1>5, <1>6 DEF RecordAck
<1> QED BY <1>1, <1>2, <1>3, <1>5, <1>6, <1>7

LEMMA PostNext == IInv /\ [Next]_vars => PostInv'
<1> SUFFICES ASSUME IInv, [Next]_vars, post' # None PROVE PostInv'
  BY DEF PostInv
<1>1. PostInv /\ now \in Nat /\ now' \in Nat /\ now <= now'
  BY ClockNext DEF IInv, ClockInv
<1>2. SentPost' = SentPost /\ AnsweredPost' = AnsweredPost /\ Inbox' = Inbox
  BY DEF SentPost, AnsweredPost, Inbox, Alerted, Cookie
<1>3. ASSUME NEW c, c = post.cookie, post'.cookie = c, IsSession(c)
      PROVE  IsSession(post.cookie)'
  BY <1>1, <1>3, SessionStays DEF IsSession
<1>4. ASSUME UNCHANGED post, tab' = tab
      PROVE  PostInv'
  BY <1>1, <1>2, <1>3, <1>4 DEF PostInv
<1>5. CASE Turns
  <2>1. Abandon
    BY <1>5, TurnsRender
  <2>2. /\ post \in SentPost /\ post' \in SentPost /\ post'.orphan
        /\ post'.cookie = post.cookie
    BY <1>1, <2>1, AbandonedPost
  <2>3. post.cookie # None => IsSession(post.cookie)
    <3>1. Sent \/ InHand
      BY <1>1, <2>1, AbandonedPost
    <3> QED BY <1>1, <3>1 DEF PostInv, Sent, InHand, AnsweredPost
  <2> QED BY <1>2, <1>3, <2>2, <2>3 DEF PostInv
<1>6. ASSUME NEW p \in Points, NEW k \in {0, 1}, Upload(p, k), htmx
      PROVE  PostInv'
  BY <1>4, <1>6 DEF Upload
<1>7. CASE SubmitAck
  <2>1. /\ form # None /\ ScreenInv /\ era \in 0 .. MaxEras
        /\ jar # None => IsSession(jar)
    BY <1>7 DEF SubmitAck, IInv, ClockInv, JarInv
  <2>2. /\ tab = "dashboard" /\ inbox \in Inbox
        /\ form \in [alert : Points, typed : Operators \cup {None}]
    BY <2>1 DEF ScreenInv
  <2>3. PICK shown \in Operators \cup {None} : shown = Shown
    BY <2>2 DEF Shown, Inbox
  <2>4. jar \in Cookie \cup {None}
    BY <2>1 DEF IsSession
  <2>5. PICK p : p = [stage |-> "sent", orphan |-> FALSE, point |-> form.alert,
                      typed |-> form.typed, shown |-> shown, rendered |-> inbox.era,
                      era |-> era, cookie |-> jar, signedIn |-> None, admitted |-> None]
    OBVIOUS
  <2>6. p \in SentPost /\ p.cookie = jar
    BY <2>1, <2>2, <2>4, <2>5 DEF SentPost, Inbox
  <2>7. post' = p /\ tab' = tab
    BY <1>7, <2>3, <2>5 DEF SubmitAck
  <2>8. p.cookie # None => IsSession(post.cookie)'
    BY <1>1, <2>1, <2>6, <2>7, SessionStays DEF IsSession
  <2> QED BY <1>2, <2>2, <2>6, <2>7, <2>8 DEF PostInv
<1>8. ASSUME post \in SentPost, Sent \/ InHand, NEW what \in {"inbox", "page", "signin", "failed"},
             NEW view \in Inbox \cup {None}, what = "inbox" => view \in Inbox,
             Answered(what, view), tab' = tab
      PROVE  PostInv'
  <2>1. post.orphan \/ tab = "dashboard"
    BY <1>1, <1>8 DEF PostInv, Sent, InHand, AnsweredPost
  <2>2. /\ post' \in AnsweredPost /\ tab = "dashboard"
        /\ post'.what = what /\ post'.view = view
    BY <1>8, <2>1, AnsweredIs
  <2> QED BY <1>2, <1>8, <2>2 DEF PostInv
<1>9. CASE AckRefused \/ FailAck
  <2>1. (Sent \/ InHand) /\ tab' = tab
    BY <1>9 DEF AckRefused, FailAck, screen
  <2>2. post \in SentPost
    BY <1>1, <2>1 DEF PostInv, Sent, InHand, AnsweredPost
  <2>3. PICK what \in {"failed", "signin"} : Answered(what, None)
    BY <1>9 DEF AckRefused, FailAck
  <2> QED BY <1>8, <2>1, <2>2, <2>3
<1>10. CASE RecordAck
  <2>1. tab' = tab
    BY <1>10 DEF RecordAck, screen
  <2> QED BY <1>8, <1>10, <2>1, AckAnswer
<1>11. ASSUME NEW env \in Envs, Restart(env)
       PROVE  PostInv'
  <2>1. tab' = tab
    BY <1>11 DEF Restart, screen
  <2>2. CASE InHand
    <3>1. post \in SentPost /\ Answered("failed", None)
      BY <1>1, <1>11, <2>2 DEF Restart, PostInv, InHand, AnsweredPost
    <3> QED BY <1>8, <2>1, <2>2, <3>1
  <2>3. CASE ~InHand
    BY <1>4, <1>11, <2>1, <2>3 DEF Restart
  <2> QED BY <2>2, <2>3
<1>12. CASE AdmitAck
  <2>1. tab' = tab
    BY <1>12 DEF AdmitAck, screen
  <2>2. /\ post.cookie # None => IsSession(post.cookie)
        /\ post.orphan \/ tab = "dashboard"
    BY <1>1, <1>12, AdmittedPost DEF PostInv, Sent, AnsweredPost
  <2> QED BY <1>2, <1>3, <1>12, <2>1, <2>2, AdmittedPost DEF PostInv
<1> QED
  BY <1>4, <1>5, <1>6, <1>7, <1>9, <1>10, <1>11, <1>12 DEF Next, Environment, Operate, Refresh,
     Answer, Turns, Tick, SignIn, SignOutElsewhere, RecordReading, RaiseAlert, AcknowledgeByApi, Focus,
     Blur, FetchTrend, LoseTrend, PollInbox, DeliverInbox, DeliverAck, vars, screen

\* Nothing that was rendered or sent before is of an era that has just begun.
LEMMA EraPasses ==
  ASSUME era \in Nat, era' = era + 1
  PROVE  /\ \A v : v.era \in Nat /\ Faithful(v) => Faithful(v)'
         /\ \A p : p.rendered \in Nat /\ p.era \in Nat /\ Honest(p) => Honest(p)'
  BY DEF Faithful, Honest

LEMMA EraStays ==
  ASSUME UNCHANGED <<config, jar, era>>
  PROVE  /\ \A v : Faithful(v) => Faithful(v)'
         /\ \A p : Honest(p) => Honest(p)'
  BY DEF Faithful, Honest, Whoever

\* Who is admitted now is whom the cookie proves.
LEMMA NowRendered ==
  ASSUME UNCHANGED <<config, jar, era>>, era \in Nat, Visitor(jar) # Refused,
         NEW v, v.who = Visitor(jar), v.era = era
  PROVE  Faithful(v)'
<1>1. Faithful(v)
  BY AdmittedVisitor DEF Faithful, Whoever
<1> QED BY <1>1, EraStays

LEMMA IdentityNext == IInv /\ [Next]_vars => IdentityInv'
<1> SUFFICES ASSUME IInv, [Next]_vars PROVE IdentityInv'
  OBVIOUS
<1>1. /\ IdentityInv /\ ScreenInv /\ PostInv
      /\ era \in Nat
  BY DEF IInv, ClockInv
<1>2. /\ tab = "dashboard" => inbox.era \in Nat
      /\ reply # None => reply.era \in Nat
      /\ post # None /\ post.stage = "answered" /\ post.what = "inbox" => post.view.era \in Nat
      /\ Sent \/ InHand => post \in SentPost /\ post.era \in Nat /\ post.rendered \in Nat
  BY <1>1 DEF ScreenInv, PostInv, SentPost, AnsweredPost, Inbox, Sent, InHand
<1>3. CASE era' = era + 1 /\ UNCHANGED <<tab, inbox, reply, post>>
  BY <1>1, <1>2, <1>3, EraPasses DEF IdentityInv, Faithful, Honest, Sent, InHand
<1>4. ASSUME UNCHANGED <<config, jar, era, tab, inbox, reply, post>>
      PROVE  IdentityInv'
  BY <1>1, <1>4 DEF IdentityInv, Faithful, Honest, Sent, InHand, Whoever
<1>5. CASE Turns
  <2>1. /\ Rendered /\ Abandon
        /\ tab' = "dashboard" => UNCHANGED <<config, jar, era>>
    BY <1>5, TurnsRender
  <2>2. reply' = None
    BY <2>1 DEF Abandon
  <2>3. tab' = "dashboard" => Faithful(inbox)'
    <3>1. SUFFICES ASSUME tab' = "dashboard" PROVE Faithful(inbox)'
      OBVIOUS
    <3>2. PICK v : v = inbox'
      OBVIOUS
    <3>3. Visitor(jar) # Refused /\ v.who = Visitor(jar) /\ v.era = era
      BY <2>1, <3>1, <3>2 DEF Rendered
    <3>4. Faithful(v)'
      BY <1>1, <2>1, <3>1, <3>3, NowRendered
    <3> QED BY <3>2, <3>4 DEF Faithful
  <2>4. post' # None => /\ (Sent \/ InHand) /\ post'.stage \in {"sent", "admitted"}
                        /\ post'.cookie = post.cookie /\ post'.era = post.era
                        /\ post'.rendered = post.rendered
                        /\ post'.shown = post.shown /\ post'.typed = post.typed
    BY <1>1, <2>1, AbandonedPost
  <2>5. \/ UNCHANGED <<config, jar, era>>
        \/ era' = era + 1
    BY <1>5 DEF Turns, SignOut, LoadPage, FetchOusted, Upload, server
  <2>6. ASSUME post' # None
        PROVE  Honest(post)'
    <3>1. Honest(post)
      BY <1>1, <2>4, <2>6 DEF IdentityInv
    <3>2. CASE UNCHANGED <<config, jar, era>>
      BY <2>4, <2>6, <3>1, <3>2 DEF Honest
    <3>3. CASE era' = era + 1
      BY <1>1, <1>2, <2>4, <2>6, <3>1, <3>3 DEF Honest
    <3> QED BY <2>5, <3>2, <3>3
  <2>7. post' # None => post'.stage # "answered"
    BY <2>4
  <2> QED BY <2>2, <2>3, <2>6, <2>7 DEF IdentityInv, Sent, InHand
<1>6. CASE PollInbox
  <2>1. /\ UNCHANGED <<config, jar, era, tab, inbox, post>> /\ Visitor(jar) # Refused
        /\ reply' = InboxView(Visitor(jar), open, era)
    BY <1>6 DEF PollInbox, server, screen, Admitted
  <2>2. PICK v : v = InboxView(Visitor(jar), open, era)
    OBVIOUS
  <2>3. v.who = Visitor(jar) /\ v.era = era
    BY <2>2 DEF InboxView
  <2>4. Faithful(v)'
    BY <1>1, <2>1, <2>3, NowRendered
  <2>5. Faithful(reply)'
    BY <2>1, <2>2, <2>4 DEF Faithful
  <2> QED BY <1>1, <2>1, <2>5 DEF IdentityInv, Faithful, Honest, Sent, InHand, Whoever
<1>7. CASE DeliverInbox
  BY <1>1, <1>7 DEF DeliverInbox, server, IdentityInv, Faithful, Honest, Sent, InHand, Whoever
<1>8. CASE SubmitAck
  <2>1. /\ UNCHANGED <<config, jar, era, tab, inbox, reply>>
        /\ post' = [stage |-> "sent", orphan |-> FALSE, point |-> form.alert, typed |-> form.typed,
                    shown |-> Shown, rendered |-> inbox.era, era |-> era, cookie |-> jar,
                    signedIn |-> None, admitted |-> None]
        /\ tab = "dashboard" /\ Faithful(inbox)
    BY <1>1, <1>8 DEF SubmitAck, server, ScreenInv, IdentityInv
  <2>2. Enabled(config) /\ jar # None => jar.operator # None
    BY OperatorAssumption DEF IInv, JarInv, IsSession, Cookie
  <2>3. inbox.era = era => /\ Shown = IF Enabled(config) THEN jar.operator ELSE form.typed
                           /\ Enabled(config) => jar # None
    BY <2>1, <2>2 DEF Faithful, Whoever, Shown
  <2>4. Honest(post)'
    BY <1>1, <2>1, <2>3 DEF Honest, Faithful
  <2>5. post'.stage = "sent"
    BY <2>1
  <2> QED BY <1>1, <2>1, <2>4, <2>5 DEF IdentityInv, Faithful, Whoever, Sent, InHand
<1>9. CASE AckRefused \/ FailAck
  <2>1. UNCHANGED <<config, jar, era, tab, inbox, reply>>
    BY <1>9 DEF AckRefused, FailAck, server, screen
  <2>2. \/ post' = None
        \/ post'.stage = "answered" /\ post'.what # "inbox"
    BY <1>9 DEF AckRefused, FailAck, Answered
  <2> QED BY <1>1, <2>1, <2>2 DEF IdentityInv, Faithful, Whoever, Sent, InHand
<1>10. CASE RecordAck
  <2>1. UNCHANGED <<config, jar, era, tab, inbox, reply>>
    BY <1>10 DEF RecordAck, server, screen
  <2>2. post \in SentPost /\ Honest(post) /\ OnShift(post)
    BY <1>1, <1>10, AckAnswer DEF IdentityInv, IInv, AdmissionInv
  <2>3. PICK what \in {"inbox", "page", "failed"}, view \in Inbox \cup {None} :
           /\ Answered(what, view)
           /\ what = "inbox" => view.who = post.signedIn /\ view.era = post.era
    BY <1>10, AckAnswer
  <2>4. what = "inbox" => Faithful(view)'
    <3>1. CASE post.era = era
      BY <1>1, <2>1, <2>2, <2>3, <3>1 DEF Honest, OnShift, Faithful, Whoever
    <3>2. CASE post.era # era
      BY <1>1, <1>2, <2>1, <2>2, <2>3, <3>2 DEF Honest, Faithful
    <3> QED BY <3>1, <3>2
  <2>5. \/ post' = None
        \/ post'.stage = "answered" /\ post'.what = what /\ post'.view = view
    BY <2>3 DEF Answered
  <2>6. post' # None /\ post'.what = "inbox" => Faithful(post.view)'
    BY <2>4, <2>5 DEF Faithful
  <2> QED BY <1>1, <2>1, <2>5, <2>6 DEF IdentityInv, Faithful, Whoever, Sent, InHand
<1>11. CASE DeliverAck
  <2>1. /\ UNCHANGED <<config, jar, era>> /\ post' = None
        /\ post # None /\ post.stage = "answered"
    BY <1>11 DEF DeliverAck, server
  <2>2. CASE post.what = "inbox" /\ inbox' = post.view /\ UNCHANGED <<tab, reply>>
    <3>1. Faithful(post.view)
      BY <1>1, <2>1, <2>2 DEF IdentityInv
    <3> QED BY <1>1, <2>1, <2>2, <3>1 DEF IdentityInv, Faithful, Whoever, Sent, InHand
  <2>3. CASE UNCHANGED <<tab, inbox, reply>>
    BY <1>1, <2>1, <2>3 DEF IdentityInv, Faithful, Whoever, Sent, InHand
  <2>4. CASE Rendered /\ reply' = None
    <3>1. ASSUME tab' = "dashboard" PROVE Faithful(inbox)'
      <4>1. PICK v : v = inbox'
        OBVIOUS
      <4>2. Visitor(jar) # Refused /\ v.who = Visitor(jar) /\ v.era = era
        BY <2>4, <3>1, <4>1 DEF Rendered
      <4>3. Faithful(v)'
        BY <1>1, <2>1, <4>2, NowRendered
      <4> QED BY <4>1, <4>3 DEF Faithful
    <3> QED BY <2>1, <2>4, <3>1 DEF IdentityInv, Sent, InHand
  <2>5. ASSUME Show(IF post.what = "signin" THEN "signin" ELSE "closed", NoPage)
        PROVE  Rendered
    <3>1. PICK where \in {"closed", "signin"} :
             where = IF post.what = "signin" THEN "signin" ELSE "closed"
      OBVIOUS
    <3> QED BY <2>5, <3>1, NothingIsRendered
  <2> QED BY <1>11, <2>2, <2>3, <2>4, <2>5, NavigateRenders DEF DeliverAck
<1>12. ASSUME NEW env \in Envs, Restart(env)
       PROVE  IdentityInv'
  <2>1. UNCHANGED <<tab, inbox, reply>> /\ era' = era + 1
    BY <1>12 DEF Restart, screen
  <2>2. CASE post' = post
    BY <1>3, <2>1, <2>2
  <2>3. CASE Answered("failed", None)
    <3>1. \/ post' = None
          \/ post'.stage = "answered" /\ post'.what # "inbox"
      BY <2>3 DEF Answered
    <3> QED BY <1>1, <1>2, <2>1, <3>1, EraPasses DEF IdentityInv, Faithful, Sent, InHand
  <2> QED BY <1>12, <2>2, <2>3 DEF Restart
<1>13. CASE AdmitAck
  <2>1. UNCHANGED <<config, jar, era, tab, inbox, reply>>
    BY <1>13 DEF AdmitAck, server, screen
  <2>2. Honest(post)
    BY <1>1, <1>13, AdmittedPost DEF IdentityInv
  <2>3. Honest(post)' /\ post'.stage = "admitted"
    BY <1>13, <2>1, <2>2, AdmittedPost DEF Honest
  <2> QED BY <1>1, <2>1, <2>3 DEF IdentityInv, Faithful, Whoever, Sent, InHand
<1> QED
  BY <1>3, <1>4, <1>5, <1>6, <1>7, <1>8, <1>9, <1>10, <1>11, <1>12, <1>13 DEF Next, Environment,
     Operate, Refresh, Answer, Turns, Tick, SignIn, SignOutElsewhere, RecordReading, RaiseAlert,
     AcknowledgeByApi, Upload, Focus, Blur, FetchTrend, LoseTrend, vars, server, screen

\* The middleware's mark stays true as long as the request is in hand.
LEMMA AdmissionNext == IInv /\ [Next]_vars => AdmissionInv'
<1> SUFFICES ASSUME IInv, [Next]_vars, InHand' PROVE OnShift(post)'
  BY DEF AdmissionInv
<1>1. PostInv /\ AdmissionInv /\ now \in Nat
  BY DEF IInv, ClockInv
<1>2. ASSUME UNCHANGED <<config, post>>
      PROVE  OnShift(post)'
  BY <1>1, <1>2 DEF AdmissionInv, InHand, OnShift
<1>3. CASE Abandon /\ UNCHANGED config
  <2>1. InHand /\ OnShift(post)
    <3>1. post' # None /\ post'.stage = "admitted"
      BY DEF InHand
    <3>2. (Sent \/ InHand) /\ post.stage = "admitted"
      BY <1>1, <1>3, <3>1, AbandonedPost
    <3> QED BY <1>1, <3>2 DEF AdmissionInv, Sent, InHand
  <2>2. /\ post'.cookie = post.cookie
        /\ post'.signedIn = post.signedIn /\ post'.admitted = post.admitted
    BY <1>1, <1>3, AbandonedPost DEF InHand
  <2> QED BY <1>3, <2>1, <2>2 DEF OnShift
<1>4. CASE AdmitAck
  <2>1. PICK c : c = post.cookie /\ Visitor(c) # Refused /\ config' = config
    BY <1>4 DEF AdmitAck, server
  <2>2. post'.cookie = c /\ post'.signedIn = Visitor(c) /\ post'.admitted = now
    BY <1>4, <2>1, AdmittedPost
  <2> QED BY <1>1, <2>1, <2>2, AdmittedVisitor DEF OnShift
<1>5. ASSUME NEW what, NEW view, Answered(what, view)
      PROVE  FALSE
  BY <1>5 DEF Answered, InHand
<1>6. CASE AckRefused \/ FailAck \/ RecordAck
  BY <1>5, <1>6 DEF AckRefused, FailAck, RecordAck
<1>7. ASSUME NEW env \in Envs, Restart(env)
      PROVE  FALSE
  <2>1. InHand => Answered("failed", None)
    BY <1>7 DEF Restart
  <2>2. ~InHand => post' = post
    BY <1>7 DEF Restart
  <2> QED BY <1>5, <2>1, <2>2 DEF InHand
<1>8. CASE SubmitAck \/ DeliverAck
  BY <1>8 DEF SubmitAck, DeliverAck, InHand
<1> QED
  BY <1>2, <1>3, <1>4, <1>6, <1>7, <1>8 DEF Next, Environment, Operate, Refresh, Answer, Tick,
     SignIn, SignOut, SignOutElsewhere, LoadPage, RecordReading, RaiseAlert, AcknowledgeByApi,
     Upload, Focus, Blur, FetchTrend, LoseTrend, FetchOusted, PollInbox, DeliverInbox, vars, server

-----------------------------------------------------------------------------
(* The theorems.                                                           *)

\* In every reachable state whatever was rendered or sent since the last
\* change of the cookie or the process names whom the cookie proves.
THEOREM Invariant == Spec => []IInv
<1>1. IInv /\ [Next]_vars => IInv'
  BY ConfigNext, ClockNext, JarNext, StoreNext, ScreenNext, PostNext, IdentityNext,
     AdmissionNext DEF IInv
<1> QED BY <1>1, Initially, PTL DEF Spec

\* The types of the state, that only a dashboard has panels, that only a form
\* rendered for nobody is typed into, and that the cookie was signed by this
\* clock: sign_session, render_alert_inbox and run_detection.
THEOREM TypeCorrect == Spec => []TypeOK
<1>1. IInv => TypeOK
  <2> SUFFICES ASSUME IInv PROVE TypeOK
    OBVIOUS
  <2>1. config = Refused \/ \A i \in DOMAIN config : config[i] \in Entry
    BY DEF IInv, ConfigInv, IsConfiguration
  <2>2. now \in 0 .. MaxNow /\ era \in 0 .. MaxEras
    BY DEF IInv, ClockInv
  <2>3. jar # None => jar.expires \in jar.since .. now + Ttl
    <3> SUFFICES ASSUME jar # None PROVE jar.expires \in jar.since .. now + Ttl
      OBVIOUS
    <3>1. PICK s \in Nat, e \in Nat : /\ s = jar.since /\ e = jar.expires
                                      /\ s <= now /\ s <= e /\ e <= s + Ttl
      BY DEF IInv, JarInv, IsSession, Cookie
    <3> QED BY <2>2, <3>1, TimeAssumption
  <2>4. /\ stored \in Numbers(MaxReadings) /\ open \in Alerted
        /\ \A i \in DOMAIN open : acked[open[i]] = None
    BY DEF IInv, StoreInv
  <2>5. /\ tab \in {"closed", "signin", "dashboard"}
        /\ IF tab = "dashboard" THEN inbox \in Inbox /\ trend \in Trend
           ELSE <<inbox, trend, form, reply>> = <<None, None, None, None>>
        /\ reply # None => reply \in Inbox
        /\ form # None => form.typed = None \/ inbox.who = None
    BY DEF IInv, ScreenInv
  <2> QED BY <2>1, <2>2, <2>3, <2>4, <2>5 DEF TypeOK
<1> QED BY <1>1, Invariant, PTL

\* Which acknowledgements the forms of this tab record, and under whom.
LEMMA FormRecords ==
  ASSUME IInv, [Next]_vars, NEW p \in Points, RecordedByForm(p)
  PROVE  /\ InHand /\ post \in SentPost /\ Honest(post) /\ OnShift(post)
         /\ acked'[p] = RecordedUnder(post.signedIn, post.typed)
         /\ acked'[p] # None
<1>1. acked' # acked /\ post' # post
  BY DEF RecordedByForm
<1>2. RecordAck
  BY <1>1 DEF Next, Environment, Operate, Refresh, Answer, Tick, Restart, SignIn, SignOut,
     SignOutElsewhere, LoadPage, RecordReading, RaiseAlert, AcknowledgeByApi, Upload, Focus, Blur,
     SubmitAck, FetchTrend, LoseTrend, FetchOusted, PollInbox, DeliverInbox, AckRefused, AdmitAck,
     FailAck, DeliverAck, vars, world
<1>3. InHand /\ post \in SentPost /\ Honest(post) /\ OnShift(post)
  BY <1>2, AckAnswer DEF IInv, IdentityInv, AdmissionInv
<1>4. PICK o : o = RecordedUnder(post.signedIn, post.typed)
  OBVIOUS
<1>5. o # None /\ Acknowledge(post.point, o)
  BY <1>1, <1>2, <1>4 DEF RecordAck
<1>6. acked' = [acked EXCEPT ![post.point] = o]
  BY <1>1, <1>5 DEF Acknowledge
<1>7. acked \in [Points -> Operators \cup {None}]
  BY DEF IInv, StoreInv
<1>8. acked'[p] = o
  BY <1>6, <1>7 DEF RecordedByForm
<1> QED BY <1>3, <1>4, <1>5, <1>8

\* An acknowledgement goes to the name its form showed, unless the cookie or
\* the process changed in between: dash_acknowledge and render_alert_inbox.
THEOREM FormsAreHonest == Spec => AcknowledgedAsShown
<1>1. ASSUME IInv, [Next]_vars, NEW p \in Points, RecordedByForm(p), post.rendered = era
      PROVE  acked'[p] = post.shown
  <2>1. /\ post \in SentPost /\ Honest(post) /\ OnShift(post)
        /\ acked'[p] = RecordedUnder(post.signedIn, post.typed)
    BY <1>1, FormRecords
  <2>2. post.rendered \in Nat /\ post.era \in Nat /\ era \in Nat
    BY <1>1, <2>1 DEF SentPost, IInv, ClockInv
  <2>3. post.era = era /\ post.cookie = jar
    BY <1>1, <2>1, <2>2 DEF Honest
  <2>4. CASE Enabled(config)
    <3>1. jar # None /\ post.signedIn = jar.operator /\ jar.operator # None
      BY <1>1, <2>1, <2>3, <2>4, OperatorAssumption DEF OnShift, IInv, JarInv, IsSession, Cookie
    <3> QED BY <1>1, <2>1, <2>3, <2>4, <3>1 DEF Honest, RecordedUnder
  <2>5. CASE ~Enabled(config)
    BY <1>1, <2>1, <2>3, <2>5 DEF Honest, OnShift, RecordedUnder
  <2> QED BY <2>4, <2>5
<1>2. IInv /\ [Next]_vars =>
        [\A p \in Points : RecordedByForm(p) /\ post.rendered = era => acked'[p] = post.shown]_vars
  BY <1>1
<1> QED BY <1>2, Invariant, PTL DEF Spec, AcknowledgedAsShown

\* With authentication on, an acknowledgement goes to the operator of a cookie
\* that was no older than one shift when the middleware admitted it, whatever
\* the clock says by the time it is recorded, and whose token is still theirs
\* then: read_session, OperatorAuthMiddleware and dash_acknowledge.
THEOREM AcksAreWithinShift == Spec => AckWithinShift
<1>1. ASSUME IInv, [Next]_vars, NEW p \in Points, RecordedByForm(p), Enabled(config)
      PROVE  /\ post.cookie # None
             /\ acked'[p] = post.cookie.operator
             /\ post.admitted - post.cookie.since <= Ttl
             /\ post.cookie.token \in TokensOf(config, acked'[p])
  <2>1. /\ InHand /\ post \in SentPost /\ OnShift(post)
        /\ acked'[p] = RecordedUnder(post.signedIn, post.typed)
    BY <1>1, FormRecords
  <2>2. PICK c : c = post.cookie
    OBVIOUS
  <2>3. PICK a \in Nat : a = post.admitted
    BY <2>1 DEF OnShift
  <2>4. /\ c # None /\ post.signedIn = c.operator
        /\ c.token \in TokensOf(config, c.operator) /\ c.expires >= a
    BY <1>1, <2>1, <2>2, <2>3 DEF OnShift
  <2>5. IsSession(c)
    BY <1>1, <2>1, <2>2, <2>4 DEF IInv, PostInv, InHand, AnsweredPost
  <2>6. c.operator # None
    BY <2>5, OperatorAssumption DEF IsSession, Cookie
  <2>7. acked'[p] = c.operator
    BY <2>1, <2>4, <2>6 DEF RecordedUnder
  <2>8. PICK s \in Nat, e \in Nat : s = c.since /\ e = c.expires /\ e <= s + Ttl /\ e >= a
    BY <2>4, <2>5 DEF IsSession, Cookie
  <2>9. a - s <= Ttl
    BY <2>8, TimeAssumption
  <2> QED BY <2>2, <2>3, <2>4, <2>7, <2>8, <2>9
<1>2. IInv /\ [Next]_vars =>
        [\A p \in Points :
            RecordedByForm(p) /\ Enabled(config) =>
                /\ post.cookie # None
                /\ acked'[p] = post.cookie.operator
                /\ post.admitted - post.cookie.since <= Ttl
                /\ post.cookie.token \in TokensOf(config, acked'[p])]_vars
  BY <1>1
<1> QED BY <1>2, Invariant, PTL DEF Spec, AckWithinShift
=============================================================================
