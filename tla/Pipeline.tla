------------------------------ MODULE Pipeline ------------------------------
(***************************************************************************)
(* The request pipeline (security-core createSecurityPipeline) with the    *)
(* per-operation slot, authorize and the handler behind it, for several    *)
(* requests served by one process.                                         *)
(*                                                                         *)
(* Hono middleware nests: a stage either answers, and the stages outside   *)
(* it see that answer on the way out, or calls the next one.  The load     *)
(* shedder and the timer bracket everything after them.  When the timer    *)
(* wins the race the caller is answered, but the stages inside go on to    *)
(* their end and their answer is dropped.  Each awaited store may be slow, *)
(* hang or fail, and when it fails may have done what it was asked for.    *)
(***************************************************************************)
EXTENDS Configuration, FiniteSets, SequencesExt

CONSTANTS
    Requests,
    MaxInFlight    \* the shedder's bound

ASSUME PipelineAssumption == IsFiniteSet(Requests) /\ MaxInFlight \in Nat \ {0}

VARIABLES
    config,      \* what the service was built with; fixed
    req,         \* what each request asks and carries; fixed
    at,          \* the stage a request is in, "new", or "over"
    reply,       \* the status its caller was answered with, 0 before
    inFlight,    \* the shedder's count
    principal,   \* "none", "user" or "service"
    claimed,     \* signatures in the nonce store
    record,      \* the record acted on: is it the caller's tenant's, the caller's?
    judged,      \* the policy slot's memoized load, "unread" before it
    resource,    \* what the slot hands to the handler
    charged,     \* history: the buckets a request took a token from
    parsed,      \* history: requests whose body was buffered and parsed
    ran,         \* history: requests whose handler took effect
    unanswered   \* history: requests whose claim of a nonce got no answer

vars == <<config, req, at, reply, inFlight, principal, claimed, record, judged, resource,
          charged, parsed, ran, unanswered>>

\* The mounting order.
Stages == <<"cors", "shed", "headerGuards", "perIp", "bodyGuards", "authenticate",
            "verifySignature", "csrf", "perPrincipal", "policy", "policyAgain",
            "authorize", "handler">>

StageSet == ToSet(Stages)
Position(s) == CHOOSE i \in DOMAIN Stages : Stages[i] = s

\* Operations by what the stages ask of them ("none": no route matches).
Ops == {"none", "read", "write", "signed", "signedRead", "open", "logout"}
Schemes(op) == CASE op \in {"signed", "signedRead"} -> {"sigv4Hmac"}
                 [] op = "open" -> {"anonymous", "oidc"}
                 [] op = "none" -> {}
                 [] OTHER -> {"oidc"}
ReadOnly(op) == op \in {"read", "signedRead"}
Owned(op) == op \in {"read", "write"}
Registry == {[schemes |-> Schemes(op), readonly |-> ReadOnly(op)] : op \in Ops \ {"none"}}

\* Where they are routed: a segment is a literal, a parameter or, at the end,
\* a greedy parameter.
Parameters == {":", "*"}
Routes ==
    [read |-> <<"GET", "notes", ":">>, write |-> <<"PUT", "notes", "*">>,
     signed |-> <<"POST", "notes", "search">>, signedRead |-> <<"GET", "notes", "search">>,
     open |-> <<"GET", ":", "home">>, logout |-> <<"POST", "auth", "logout">>]

Urls ==
    {<<"GET", "notes", "n1">>, <<"GET", "notes", "home">>, <<"PUT", "notes", "n1", "x">>,
     <<"POST", "notes", "search">>, <<"GET", "notes", "search">>, <<"GET", "a", "home">>,
     <<"POST", "auth", "logout">>, <<"GET", "else">>}

\* compilePath: anchored at both ends.
Matches(route, url) ==
    /\ \A i \in DOMAIN route : i \in DOMAIN url /\ route[i] \in {url[i]} \cup Parameters
    /\ Len(url) > Len(route) => Last(route) = "*"

Matching(url) == {op \in DOMAIN Routes : Matches(Routes[op], url)}

Static(route) == Cardinality({i \in DOMAIN route : route[i] \notin Parameters})

\* At the first segment that is literal in one route only, it is in p.
StaticFirst(p, q) ==
    \E i \in DOMAIN p \cap DOMAIN q :
        /\ p[i] \notin Parameters /\ q[i] \in Parameters
        /\ \A j \in 1 .. i - 1 : (p[j] \in Parameters) <=> (q[j] \in Parameters)

\* resolveOp's order: more literals, then more segments, then the leftmost.
Outranks(p, q) ==
    \/ Static(p) > Static(q)
    \/ Static(p) = Static(q) /\ Len(p) > Len(q)
    \/ Static(p) = Static(q) /\ Len(p) = Len(q) /\ StaticFirst(p, q)

\* The operation whose guards the pipeline engages.
Resolved ==
    [url \in Urls |->
        IF Matching(url) = {} THEN "none"
        ELSE CHOOSE op \in Matching(url) :
                \A o \in Matching(url) \ {op} : Outranks(Routes[op], Routes[o])]

\* The operation whose handler the framework runs: its trie takes a literal
\* before a parameter at each segment.
Dispatched ==
    [url \in Urls |->
        IF Matching(url) = {} THEN "none"
        ELSE CHOOSE op \in Matching(url) :
                \A o \in Matching(url) \ {op} : StaticFirst(Routes[op], Routes[o])]

\* On these routes the two agree.
ASSUME RoutesAgree == Resolved \in [Urls -> Ops] /\ Dispatched = Resolved

\* "unsized": no usable Content-Length, and longer than the limit.
Bodies == {"none", "fits", "wrongType", "declaredLarge", "unsized", "tooDeep"}

Request ==
    [url : Urls, preflight : BOOLEAN, https : BOOLEAN, body : Bodies,
     cookie : {"none", "dead", "live"}, crossSite : BOOLEAN, token : BOOLEAN,
     signature : {"none", "bad", "s1", "s2"}, slot : {"all", "any"}]

\* What the stages take a request for, and what it is served as.
Op(r) == Resolved[req[r].url]
Served(r) == Dispatched[req[r].url]

\* Requests whose method carries no body, as the guards have it.
Bodyless(r) == Head(req[r].url) \in {"GET", "DELETE", "HEAD"}

\* A record by what is the caller's of it.
Records == {{"exists"} \cup S : S \in SUBSET {"tenant", "owner"}}
Gone == {}
Unread == {"unread"}

Statuses == {0, 200, 204, 400, 401, 403, 404, 413, 415, 429, 500, 503, 504}

-----------------------------------------------------------------------------

\* Inside the shedder's try: admitted and not yet answered.
Admitted(r) == at[r] \in StageSet /\ Position(at[r]) > Position("shed")
Holding(r) == Admitted(r) /\ reply[r] = 0

Pass(r) ==
    /\ at' = [at EXCEPT ![r] = Stages[Position(@) + 1]]
    /\ UNCHANGED <<reply, inFlight>>

\* Faulty variant for sensitivity runs: the shedder decrements after next()
\* returns and not in a finally, so an error keeps its slot.
FreedBySuccess(r, status) == IF Holding(r) /\ status # 500 THEN inFlight - 1 ELSE inFlight

\* The shedder's finally.
Freed(r, status) == IF Holding(r) THEN inFlight - 1 ELSE inFlight

\* A stage ends the request.  If the timer has answered, nobody sees it.
Answer(r, status) ==
    /\ at' = [at EXCEPT ![r] = "over"]
    /\ reply' = [reply EXCEPT ![r] = IF @ = 0 THEN status ELSE @]
    /\ inFlight' = Freed(r, status)

Asks == <<config, req, record>>
Effects == <<principal, claimed, judged, resource, charged, parsed, ran, unanswered>>

\* request-id, the logger, the sanitizer and the security headers only dress
\* the answer; assert-https is the first to refuse, and lets preflights by.
Arrive(r) ==
    /\ at[r] = "new"
    /\ IF req[r].https \/ req[r].preflight
       THEN at' = [at EXCEPT ![r] = Stages[1]] /\ UNCHANGED <<reply, inFlight>>
       ELSE Answer(r, 400)
    /\ UNCHANGED <<Asks, Effects>>

Cors(r) ==
    /\ at[r] = "cors"
    /\ IF req[r].preflight THEN Answer(r, 204) ELSE Pass(r)
    /\ UNCHANGED <<Asks, Effects>>

Full == inFlight >= MaxInFlight

Shed(r) ==
    /\ at[r] = "shed"
    /\ IF Full THEN Answer(r, 503)
       ELSE /\ at' = [at EXCEPT ![r] = Stages[Position("shed") + 1]]
            /\ inFlight' = inFlight + 1
            /\ UNCHANGED reply
    /\ UNCHANGED <<Asks, Effects>>

\* The stages the timer is mounted around.
Timed == {s \in StageSet : Position(s) > Position("shed")}

\* Faulty variant for sensitivity runs: the timer answers as the shedder does.
SaysBusy == 503

SaysTimeout == 504

Timeout(r) ==
    /\ at[r] \in Timed /\ reply[r] = 0
    /\ reply' = [reply EXCEPT ![r] = SaysTimeout]
    /\ inFlight' = inFlight - 1
    /\ UNCHANGED <<at, Asks, Effects>>

HeaderGuards(r) ==
    /\ at[r] = "headerGuards"
    /\ IF req[r].body = "declaredLarge" THEN Answer(r, 413)
       ELSE IF ~Bodyless(r) /\ req[r].body = "wrongType" THEN Answer(r, 415)
       ELSE Pass(r)
    /\ UNCHANGED <<Asks, Effects>>

\* A limiter is a pass-through unless it has a store and a bucket.
Limited(limiter) ==
    "rateLimit" \in config.stores /\ \E l \in config.limits : l.for = limiter

\* A bucket allows or denies (TokenBuckets says when), or takes the token and
\* the answer is lost.
Charge(r, limiter) ==
    IF ~Limited(limiter) THEN Pass(r) /\ UNCHANGED charged
    ELSE \/ /\ \A l \in config.limits : l.for = limiter => l.capacity > 0
            /\ charged' = [charged EXCEPT ![r] = @ \cup {limiter}]
            /\ Pass(r) \/ Answer(r, 500)
         \/ Answer(r, 429) /\ UNCHANGED charged

RateLimitPerIp(r) ==
    /\ at[r] = "perIp"
    /\ Charge(r, "perIp")
    /\ UNCHANGED <<Asks, principal, claimed, judged, resource, parsed, ran, unanswered>>

\* A body is read up to its cap, parsed, and walked to its depth.
BodyGuards(r) ==
    /\ at[r] = "bodyGuards"
    /\ IF Bodyless(r) \/ req[r].body = "none"
       THEN Pass(r) /\ UNCHANGED parsed
       ELSE /\ IF req[r].body \in {"unsized", "tooDeep"} THEN Answer(r, 413) ELSE Pass(r)
            /\ parsed' = parsed \cup {r}
    /\ UNCHANGED <<Asks, principal, claimed, judged, resource, charged, ran, unanswered>>

Unauthorized(r) == Answer(r, 401)

\* Refused for want of a session, unless the operation also admits anonymous
\* callers: then the request goes on as one.
Deny(r) == IF "anonymous" \in Schemes(Op(r)) THEN Pass(r) ELSE Unauthorized(r)

\* A logout without a session is done: the cookie is cleared.
DenyOrClear(r) == IF Op(r) = "logout" THEN Answer(r, 204) ELSE Deny(r)

\* A cookie session or nothing; a signed operation is the next stage's.
CookieAuthenticated(op) ==
    Schemes(op) \ {"anonymous"} # {} /\ "sigv4Hmac" \notin Schemes(op)

Authenticate(r) ==
    /\ at[r] = "authenticate"
    /\ IF ~CookieAuthenticated(Op(r)) THEN Pass(r) /\ UNCHANGED principal
       ELSE IF "session" \notin config.stores THEN Deny(r) /\ UNCHANGED principal
       ELSE IF req[r].cookie # "live" THEN DenyOrClear(r) /\ UNCHANGED principal
       ELSE Pass(r) /\ principal' = [principal EXCEPT ![r] = "user"]
    /\ UNCHANGED <<Asks, claimed, judged, resource, charged, parsed, ran, unanswered>>

Signed(op) == "sigv4Hmac" \in Schemes(op)

\* Replays are tracked by default for what is not read-only; the one list
\* exempts, the other forces.
Forced(op) == \E s \in config.signing : op \in s.nonceFor
Exempt(op) == \E s \in config.signing : op \in s.replaySafe
NeedsNonce(op) == (~ReadOnly(op) /\ ~Exempt(op)) \/ Forced(op)

\* What a request stamped with the time of its sending may be found to be: a
\* window of nothing admits what is checked within the second, one below
\* nothing admits nothing.
Late == {\E s \in config.signing : s.window <= 0, \E s \in config.signing : s.window < 0}

\* Served without replay defence only by an integrator's choice.
Unprotected(op) == config.allowReplay /\ ~Forced(op)

\* The key, the HMAC and the claim of the nonce, as SignedRequests has them.
Verified(r, late) ==
    LET op == Op(r)
    IN  /\ "secrets" \in config.stores /\ ~late
        /\ req[r].signature \notin {"none", "bad"}
        /\ NeedsNonce(op) =>
              IF "nonce" \in config.stores THEN req[r].signature \notin claimed
              ELSE Unprotected(op)

Claims(r) == NeedsNonce(Op(r)) /\ "nonce" \in config.stores

Serve(r) ==
    /\ Pass(r)
    /\ claimed' = IF Claims(r) THEN claimed \cup {req[r].signature} ELSE claimed
    /\ principal' = [principal EXCEPT ![r] = "service"]
    /\ UNCHANGED unanswered

\* The nonce is stored and the store's answer lost: the call throws, or the
\* store's client tries again and finds the nonce taken, by itself.
LoseClaim(r) ==
    /\ Claims(r)
    /\ claimed' = claimed \cup {req[r].signature}
    /\ unanswered' = unanswered \cup {r}
    /\ Answer(r, 500) \/ Unauthorized(r)
    /\ UNCHANGED principal

VerifySignature(r) ==
    /\ at[r] = "verifySignature"
    /\ IF ~Signed(Op(r)) THEN Pass(r) /\ UNCHANGED <<principal, claimed, unanswered>>
       ELSE \E late \in Late :
               IF Verified(r, late) THEN Serve(r) \/ LoseClaim(r)
               ELSE Unauthorized(r) /\ UNCHANGED <<principal, claimed, unanswered>>
    /\ UNCHANGED <<Asks, judged, resource, charged, parsed, ran>>

\* Only a cookie session can be ridden.
CsrfApplies(r) == principal[r] = "user" /\ ~ReadOnly(Op(r))

\* Faulty variant for sensitivity runs: operations that also admit anonymous
\* callers are waved through.
CsrfSkipsMixed(r) == CsrfApplies(r) /\ "anonymous" \notin Schemes(Op(r))

CsrfChecked(r) == CsrfApplies(r)

Csrf(r) ==
    /\ at[r] = "csrf"
    /\ IF CsrfChecked(r) /\ (req[r].crossSite \/ ~req[r].token)
       THEN Answer(r, 403) ELSE Pass(r)
    /\ UNCHANGED <<Asks, Effects>>

RateLimitPerPrincipal(r) ==
    /\ at[r] = "perPrincipal"
    /\ IF principal[r] = "none" THEN Pass(r) /\ UNCHANGED charged
       ELSE Charge(r, "perPrincipal")
    /\ UNCHANGED <<Asks, principal, claimed, judged, resource, parsed, ran, unanswered>>

\* Faulty variant for sensitivity runs: every policy of the slot loads the
\* record for itself.
LoadAgain(r) == record

\* The slot's load thunk: the first call's result for every later one.
Load(r) == IF judged[r] = Unread THEN record ELSE judged[r]

\* The slot's two policies, sameTenant and then isOwner.
Allows(stage, loaded) ==
    (IF stage = "policy" THEN "tenant" ELSE "owner") \in loaded

\* all() answers for the first policy that refuses; any() is content with the
\* first that allows, and refuses as the last one does.
Combine(r, loaded) ==
    LET allowed == Allows(at[r], loaded)
        refusal == IF loaded = Gone THEN 404 ELSE 403
    IN  CASE req[r].slot = "any" /\ allowed ->
               /\ at' = [at EXCEPT ![r] = "authorize"]
               /\ UNCHANGED <<reply, inFlight>>
          [] req[r].slot = "any" /\ ~allowed /\ at[r] = "policy" -> Pass(r)
          [] req[r].slot = "all" /\ allowed -> Pass(r)
          [] OTHER -> Answer(r, refusal)

\* requireResourcePolicy, one policy at a time: each awaits the load.
Policy(r) ==
    /\ at[r] \in {"policy", "policyAgain"}
    /\ IF Served(r) = "none" THEN Answer(r, 404) /\ UNCHANGED <<judged, resource>>
       ELSE IF ~Owned(Served(r)) THEN Pass(r) /\ UNCHANGED <<judged, resource>>
       ELSE IF principal[r] = "none" THEN Answer(r, 401) /\ UNCHANGED <<judged, resource>>
       ELSE LET loaded == Load(r)
            IN  /\ judged' = [judged EXCEPT ![r] = loaded]
                /\ resource' = [resource EXCEPT ![r] = loaded]
                /\ Combine(r, loaded)
    /\ UNCHANGED <<Asks, principal, claimed, charged, parsed, ran, unanswered>>

\* The generated hook, which operations open to anonymous callers lack.
Authorize(r) ==
    /\ at[r] = "authorize"
    /\ IF "anonymous" \in Schemes(Served(r)) THEN Pass(r)
       ELSE IF principal[r] = "none" THEN Answer(r, 401)
       ELSE Pass(r) \/ Answer(r, 403)
    /\ UNCHANGED <<Asks, Effects>>

\* The operation takes effect, and goes on: what it awaits may fail yet.
Handler(r) ==
    /\ at[r] = "handler" /\ r \notin ran
    /\ ran' = ran \cup {r}
    /\ UNCHANGED <<at, reply, inFlight, Asks, principal, claimed, judged, resource, charged,
                   parsed, unanswered>>

\* The handler returns, or throws, before it took effect or after: the route
\* answers a modeled error with its own status and any other with 500.
Respond(r) ==
    /\ at[r] = "handler"
    /\ \/ r \in ran /\ Answer(r, 200)
       \/ Answer(r, 404) \/ Answer(r, 500)
    /\ UNCHANGED <<Asks, Effects>>

\* A store or a policy throws: the sanitizer answers.
Throw(r) ==
    /\ at[r] \in {"perIp", "bodyGuards", "authenticate", "verifySignature",
                  "perPrincipal", "policy", "policyAgain"}
    /\ Answer(r, 500)
    /\ UNCHANGED <<Asks, Effects>>

\* Other requests give the record away or delete it.
Change(o) ==
    /\ record # o
    /\ record' = o
    /\ UNCHANGED <<config, req, at, reply, inFlight, Effects>>

-----------------------------------------------------------------------------

Step(r) ==
    \/ Arrive(r) \/ Cors(r) \/ Shed(r) \/ HeaderGuards(r) \/ RateLimitPerIp(r)
    \/ BodyGuards(r) \/ Authenticate(r) \/ VerifySignature(r) \/ Csrf(r)
    \/ RateLimitPerPrincipal(r) \/ Policy(r) \/ Authorize(r) \/ Handler(r)
    \/ Respond(r) \/ Throw(r)

Start ==
    /\ at = [r \in Requests |-> "new"]
    /\ reply = [r \in Requests |-> 0]
    /\ inFlight = 0
    /\ principal = [r \in Requests |-> "none"]
    /\ claimed = {}
    /\ record \in Records \cup {Gone}
    /\ judged = [r \in Requests |-> Unread]
    /\ resource = [r \in Requests |-> Unread]
    /\ charged = [r \in Requests |-> {}]
    /\ parsed = {} /\ ran = {} /\ unanswered = {}

Init == config \in SecurityConfig(Ops) /\ req \in [Requests -> Request] /\ Start

Next ==
    \/ \E r \in Requests : Step(r) \/ Timeout(r)
    \/ \E o \in Records \cup {Gone} : Change(o)

Spec == Init /\ [][Next]_vars

-----------------------------------------------------------------------------

TypeOK ==
    /\ config \in SecurityConfig(Ops)
    /\ req \in [Requests -> Request]
    /\ at \in [Requests -> StageSet \cup {"new", "over"}]
    /\ reply \in [Requests -> Statuses]
    /\ inFlight \in 0..MaxInFlight
    /\ principal \in [Requests -> {"none", "user", "service"}]
    /\ claimed \subseteq {"s1", "s2"}
    /\ record \in Records \cup {Gone}
    /\ judged \in [Requests -> Records \cup {Gone, Unread}]
    /\ resource \in [Requests -> Records \cup {Gone, Unread}]
    /\ charged \in [Requests -> SUBSET Limiters]
    /\ parsed \subseteq Requests /\ ran \subseteq Requests /\ unanswered \subseteq Requests

\* The shedder's count is the number of requests it admitted and has not seen
\* answered, whichever of a stage, an error or the timer answered them: no
\* slot leaks and none is freed twice, however late an answer comes.
SlotsAreExact == inFlight = Cardinality({r \in Requests : Holding(r)})

\* A handler that took effect was entitled to: its operation's scheme was
\* satisfied, a session's change came from its own site with its token, a
\* signature bought one run only unless the configuration gives that up, and
\* every limiter that is on was charged.
HandlerIsEntitled ==
    \A r \in ran :
        /\ req[r].https
        /\ Limited("perIp") => "perIp" \in charged[r]
        /\ "anonymous" \notin Schemes(Served(r)) =>
              /\ principal[r] # "none"
              /\ Limited("perPrincipal") => "perPrincipal" \in charged[r]
        /\ principal[r] = "user" /\ ~ReadOnly(Served(r)) => req[r].token /\ ~req[r].crossSite
        /\ \A q \in ran \ {r} :
              Signed(Served(r)) /\ NeedsNonce(Served(r)) /\ Served(q) = Served(r)
                    /\ ~(config.allowReplay /\ "nonce" \notin config.stores)
                => req[q].signature # req[r].signature

\* What a request itself can be refused as unauthenticated for: no live
\* session, or no good signature that is its own.
Unproven(r) ==
    IF Signed(Op(r))
    THEN \/ req[r].signature \in {"none", "bad"}
         \/ \E q \in Requests \ {r} :
                /\ principal[q] = "service" \/ q \in unanswered
                /\ req[q].signature = req[r].signature
    ELSE req[r].cookie # "live"

\* A configuration that validateConfig accepts has no outage of its own: a
\* caller refused as unauthenticated is (OPS-06).  There are two exceptions:
\* what the validator does not look at, an operation whose replays nonceForOps
\* tracks and no store can, and a request whose own claim went unanswered.
NoSilentOutage ==
    Accepted(Registry, config) =>
        \A r \in Requests :
            reply[r] = 401 =>
                \/ Unproven(r) \/ r \in unanswered
                \/ (Forced(Op(r)) /\ "nonce" \notin config.stores)

\* What the handler, or the timer in its stead, answers.
HandlersOwn == {200, 404, 500, 504}

\* A caller whom a guard refused was told the truth: the operation has not
\* taken effect and never will, and it is not for a configuration that could
\* have been refused at boot.  Of the rest nothing is said: a handler may fail
\* when it has written, and 500 and 504 leave the caller in the dark.
RefusalIsFinal ==
    /\ \A r \in ran : reply[r] \in {0} \cup HandlersOwn
    /\ NoSilentOutage

\* A body is buffered and parsed only for a request the address's bucket paid
\* for, whichever stage ends it (PIPELINE-MW-01), and a preflight takes
\* neither a token nor a slot.
NothingIsFree ==
    \A r \in Requests :
        /\ r \in parsed /\ Limited("perIp") => "perIp" \in charged[r]
        /\ req[r].preflight => charged[r] = {} /\ ~Admitted(r)

\* The record the handler is given satisfies the slot's policies together,
\* although each awaits and the record may change hands in between.
JudgedAsOne ==
    \A r \in Requests :
        (at[r] = "handler" /\ Owned(Served(r))) =>
            LET holds == resource[r] \cap {"tenant", "owner"}
            IN  IF req[r].slot = "all" THEN holds = {"tenant", "owner"} ELSE holds # {}

=============================================================================
