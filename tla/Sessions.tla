------------------------------ MODULE Sessions ------------------------------
(***************************************************************************)
(* Operator authentication: what the environment configures, whom a token  *)
(* or a session cookie proves, and which requests are let through.         *)
(*                                                                         *)
(* A token stands for its digest.  A configuration maps the positions of   *)
(* the variable's entries that are not blank to [operator, token]: the     *)
(* search for a presented token follows them.  A cookie carries its        *)
(* operator, its expiry and the token its signature is keyed with;         *)
(* `since`, the time it was signed, is a history field nothing below       *)
(* reads.  Time is in parts of a second, Second of them.                   *)
(***************************************************************************)
EXTENDS Integers, Sequences, FiniteSets, FiniteSetsExt

CONSTANTS
    Operators,      \* operator ids
    Tokens,         \* operator tokens
    LegacyOperator, \* the id AQUAOPS_OPERATOR_TOKEN speaks for
    Ttl,            \* SESSION_TTL_SECONDS, in parts of a second
    Second,         \* parts of a second
    None,           \* no operator, no token, no cookie
    Malformed,      \* an entry parse_tokens cannot read
    Refused         \* what a ValueError or a 401 leaves: no start, no entry

ASSUME OperatorAssumption ==
    /\ {None, Malformed, Refused} \cap (Operators \cup Tokens) = {}
    /\ LegacyOperator \in Operators
ASSUME TimeAssumption == Second \in Nat \ {0} /\ Ttl \in Nat \ {0} /\ Ttl % Second = 0

Entry == [operator : Operators, token : Tokens]
Cookie == [operator : Operators, expires : Nat, token : Tokens, since : Nat]

\* A fraction of a second is cut off: int(...).
WholeSeconds(t) == (t \div Second) * Second

-----------------------------------------------------------------------------
\* parse_tokens: blank entries are skipped; a bad one, or an operator named
\* twice, refuses the whole variable.
ParseTokens(entries) ==
    LET named == {i \in DOMAIN entries : entries[i] # None}
    IN IF \/ \E i \in named : entries[i] = Malformed
          \/ \E i, j \in named :
                i # j /\ entries[i] # Malformed /\ entries[j] # Malformed
                      /\ entries[i].operator = entries[j].operator
       THEN Refused
       ELSE [i \in named |-> entries[i]]

Names(tokens) == {tokens[i].operator : i \in DOMAIN tokens}

\* load_tokens: the legacy token speaks for `operator`, after all others, and
\* is not even parsed when the list names that operator.
LoadTokens(env) ==
    LET listed == ParseTokens(env.entries)
        legacy == ParseTokens([i \in {Len(env.entries) + 1} |->
                               IF env.legacy \in Tokens
                               THEN [operator |-> LegacyOperator, token |-> env.legacy]
                               ELSE env.legacy])
    IN IF listed = Refused THEN Refused
       ELSE IF LegacyOperator \in Names(listed) THEN listed
       ELSE IF legacy = Refused THEN Refused
       ELSE [i \in DOMAIN listed \cup DOMAIN legacy |->
             IF i \in DOMAIN listed THEN listed[i] ELSE legacy[i]]

Enabled(tokens) == DOMAIN tokens # {}

\* OperatorTokens.identify: every entry is compared, the last match stands.
Identify(tokens, presented) ==
    LET matches == {i \in DOMAIN tokens : tokens[i].token = presented}
    IN IF matches = {} THEN None ELSE tokens[Max(matches)].operator

TokensOf(tokens, operator) ==
    {tokens[i].token : i \in {i \in DOMAIN tokens : tokens[i].operator = operator}}

-----------------------------------------------------------------------------
\* sign_session.
SignSession(tokens, operator, now) ==
    [operator |-> operator, expires |-> WholeSeconds(now + Ttl),
     token |-> CHOOSE t \in TokensOf(tokens, operator) : TRUE, since |-> now]

\* Mutant: the expiry is not looked at.
ReadSessionForever(tokens, cookie, now) ==
    IF cookie # None /\ cookie.token \in TokensOf(tokens, cookie.operator)
    THEN cookie.operator ELSE None

\* read_session: the operator is still configured, with the token that keyed
\* the signature, and the session has not ended.
ReadSession(tokens, cookie, now) ==
    IF /\ cookie # None
       /\ cookie.token \in TokensOf(tokens, cookie.operator)
       /\ cookie.expires >= now
    THEN cookie.operator ELSE None

\* Whom the credentials of a request prove.  The API takes no cookie; on a
\* page the cookie stands in for a bearer token that is missing or wrong.
Proved(tokens, path, bearer, cookie, now) ==
    LET byToken == IF bearer = None THEN None ELSE Identify(tokens, bearer)
    IN IF byToken # None \/ path = "api" THEN byToken
       ELSE ReadSession(tokens, cookie, now)

\* OperatorAuthMiddleware: who the request is admitted as (None when
\* authentication is off), or Refused.
Caller(tokens, path, bearer, cookie, now) ==
    LET proved == Proved(tokens, path, bearer, cookie, now)
    IN IF ~Enabled(tokens) \/ path = "public" THEN None
       ELSE IF proved = None THEN Refused ELSE proved
=============================================================================
