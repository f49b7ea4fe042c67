--------------------------- MODULE Configuration ---------------------------
(***************************************************************************)
(* SecurityConfig and validateConfig: the configurations a service that    *)
(* validates its own at boot can be running with.                          *)
(*                                                                         *)
(* What may be absent is a set with one element at most.  -1 stands for    *)
(* every negative number and, where the code asks Number.isFinite or       *)
(* Number.isInteger, for what is not one.  A secret is its length.         *)
(***************************************************************************)
EXTENDS Integers

Numbers == Nat \cup {-1}

\* stores.*, each unset until a stage needs it.
Stores == {"session", "secrets", "nonce", "rateLimit"}

\* Operations are named in the two lists.
Signing(names) ==
    [window : Numbers, replaySafe : SUBSET names, nonceFor : SUBSET names]

Oidc ==
    [named : BOOLEAN,        \* issuer and clientId are not empty
     audience : BOOLEAN,     \* an element of it is not blank
     stateSecret : Nat, tolerance : SUBSET Numbers]

Limiters == {"perIp", "perPrincipal"}

\* Origins by what comparing them with a browser's Origin comes to.
Origins == {"bare", "spaced", "wildcard", "null", "malformed"}

\* idle is idleTtlSeconds, absolute session.absoluteTtlSeconds; allowReplay is
\* the signing phase's own allowReplayWithoutNonceStore.
SecurityConfig(names) ==
    [stores : SUBSET Stores, signing : SUBSET Signing(names), allowReplay : BOOLEAN,
     oidc : SUBSET Oidc,
     hsts : Numbers, idle : Numbers, absolute : SUBSET Numbers,
     origins : SUBSET Origins, salt : Nat, requireSalt : BOOLEAN,
     limits : SUBSET [for : Limiters, capacity : Numbers, refill : Numbers]]

-----------------------------------------------------------------------------

Year == 31536000
LongestWindow == 3600
LongestTolerance == 300
ShortestSecret == 32

\* The operations in force ask for the stores; ops are records of schemes and
\* readonly.  Neither list of signing is looked at.
StoresFit(ops, c) ==
    /\ (\E o \in ops : "oidc" \in o.schemes) => "session" \in c.stores
    /\ (\E o \in ops : "sigv4Hmac" \in o.schemes) => "secrets" \in c.stores
    /\ (\E o \in ops : "sigv4Hmac" \in o.schemes /\ ~o.readonly) => "nonce" \in c.stores

WindowFits(c) == \A s \in c.signing : s.window \in 1..LongestWindow

\* Without an audience the verifier would not look at `aud`.
OidcFits(o) ==
    /\ o.named /\ o.audience
    /\ o.stateSecret >= ShortestSecret

ToleranceFits(o) == \A t \in o.tolerance : t \in 0..LongestTolerance

HstsFits(c) == c.hsts >= Year

TtlsFit(c) ==
    /\ c.idle > 0
    /\ \A a \in c.absolute : a > 0 /\ c.idle <= a

\* "spaced" is only warned of, and matches no Origin.
OriginsFit(c) == c.origins \cap {"wildcard", "null", "malformed"} = {}

SaltFits(c) ==
    IF c.salt = 0 THEN ~c.requireSalt ELSE c.salt >= ShortestSecret

LimitsFit(c) == \A l \in c.limits : l.capacity > 0 /\ l.refill >= 0

\* A store without limits, or limits without a store: warned of, not refused.
LimiterDisabled(c) == (c.limits # {}) # ("rateLimit" \in c.stores)

\* validateConfig returns.
Accepted(ops, c) ==
    /\ StoresFit(ops, c) /\ WindowFits(c)
    /\ \A o \in c.oidc : OidcFits(o) /\ ToleranceFits(o)
    /\ HstsFits(c) /\ TtlsFit(c) /\ OriginsFit(c) /\ SaltFits(c) /\ LimitsFit(c)
=============================================================================
