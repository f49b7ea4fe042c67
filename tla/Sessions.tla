------------------------------ MODULE Sessions ------------------------------
(***************************************************************************)
(* security-core's cookie sessions over each adapter's SessionStore: the   *)
(* authenticate phase (resolve, check the ceiling, slide the idle timeout),*)
(* the OIDC callback (issue, or rotate over the cookie's session) and the  *)
(* logout route.                                                           *)
(*                                                                         *)
(* Several requests are under way at once, each a sequence of store calls; *)
(* the in-memory store answers a call in one step, Redis, DynamoDB and KV  *)
(* make up to two requests of their own for one.  Time passes between any  *)
(* two steps.  A session id is minted, never reused; the record it names   *)
(* is written once, so what matters of it is its two deadlines.            *)
(***************************************************************************)
EXTENDS Integers

CONSTANTS
    Sids,         \* the session ids that can be minted; bounds the run
    Requests,     \* the requests that may overlap
    NoSid,        \* no cookie
    IdleTtl,      \* config.idleTtlSeconds
    AbsoluteTtl,  \* config.session.absoluteTtlSeconds
    MaxTime,      \* bounds the run
    MaxRev        \* bounds the run: the conditional writes of one row

ASSUME NoSidAssumption == NoSid \notin Sids
ASSUME TtlAssumption ==
    IdleTtl \in Nat \ {0} /\ AbsoluteTtl \in Nat \ {0}
    /\ MaxTime \in Nat /\ MaxRev \in Nat

VARIABLES
    backend,     \* the adapter; it never changes
    now,
    store,       \* the row under each session id
    minted,      \* the session ids generated so far
    pc, kind,    \* the next step of each request, and its route
    cookie,      \* the session id it presents
    fresh,       \* the session id it generated
    held,        \* the row it read last, or is about to write
    ttl,         \* the idle timeout it computed
    \* what the clients were told
    given,       \* ids set as a cookie
    revoked,     \* ids deleted by an answered logout or rotation
    refused      \* ids some request was refused for

requestVars == <<pc, kind, cookie, fresh, held, ttl>>
toldVars == <<given, revoked, refused>>
vars == <<backend, now, store, minted, requestVars, toldVars>>

Backends == {"memory", "redis", "dynamo", "kv"}
Kinds == {"access", "logout", "login"}
Labels == {"idle", "get", "evict", "check", "touch", "slide", "teardown", "serve",
           "mint", "set", "delete", "answer"}
Row == [present : BOOLEAN, until : Nat, cap : Nat, rev : Nat]
NoRow == [present |-> FALSE, until |-> 0, cap |-> 0, rev |-> 0]

Goto(r, l) == pc' = [pc EXCEPT ![r] = l]
Write(s, row) == store' = [store EXCEPT ![s] = row]
Drop(s) == Write(s, NoRow)

\* Faulty variant for sensitivity runs: the larger of the two.
ClampLarger(cap) == IF IdleTtl >= cap - now THEN IdleTtl ELSE cap - now

\* The idle timeout, never beyond the absolute ceiling.
ClampIdleToAbsolute(cap) ==
    IF cap <= now THEN 0 ELSE IF IdleTtl <= cap - now THEN IdleTtl ELSE cap - now

\* Redis drops a key at its PX deadline; elsewhere the row stays until it is
\* deleted or swept, and the reader compares the deadlines.
Present(s) == store[s].present /\ (backend = "redis" => now < store[s].until)

\* SessionStore.get answers a record.
Resolves(s) == Present(s) /\ now < store[s].until /\ now < store[s].cap

-----------------------------------------------------------------------------

\* A request arrives, with a cookie it was given.
Arrive(r) ==
    /\ pc[r] = "idle"
    /\ \E k \in Kinds, s \in given \cup {NoSid} :
          /\ k # "login" => s # NoSid
          /\ kind' = [kind EXCEPT ![r] = k]
          /\ cookie' = [cookie EXCEPT ![r] = s]
          /\ Goto(r, IF k = "login" THEN "mint" ELSE "get")
    /\ UNCHANGED <<backend, now, store, minted, fresh, held, ttl, toldVars>>

Finish(r) ==
    /\ Goto(r, "idle")
    /\ held' = [held EXCEPT ![r] = NoRow]
    /\ ttl' = [ttl EXCEPT ![r] = 0]
    /\ fresh' = [fresh EXCEPT ![r] = NoSid]
    /\ cookie' = [cookie EXCEPT ![r] = NoSid]
    /\ kind' = [kind EXCEPT ![r] = "access"]
    /\ UNCHANGED <<backend, now, minted>>

\* The session does not count.  A logout's answer is then a 204 that clears the
\* cookie and has deleted nothing: it is among the refused, not the revoked.
Refuse(r) ==
    /\ refused' = refused \cup {cookie[r]}
    /\ Finish(r)
    /\ UNCHANGED <<given, revoked>>

(* authenticate *)

\* SessionStore.get.  A lapsed row is evicted: at once in memory, by a second
\* request in Redis and KV, not at all in DynamoDB.
Get(r) ==
    /\ pc[r] = "get"
    /\ LET s == cookie[r] IN
       \/ /\ Resolves(s)
          /\ held' = [held EXCEPT ![r] = store[s]]
          /\ Goto(r, "check")
          /\ UNCHANGED <<backend, now, store, minted, kind, cookie, fresh, ttl, toldVars>>
       \/ /\ ~Resolves(s) /\ Present(s) /\ backend \in {"redis", "kv"}
          /\ Goto(r, "evict")
          /\ UNCHANGED <<backend, now, store, minted, kind, cookie, fresh, held, ttl, toldVars>>
       \/ /\ ~Resolves(s) /\ ~(Present(s) /\ backend \in {"redis", "kv"})
          /\ IF backend = "memory" THEN Drop(s) ELSE UNCHANGED store
          /\ Refuse(r)

Evict(r) ==
    /\ pc[r] = "evict"
    /\ Drop(cookie[r])
    /\ Refuse(r)

\* authenticate compares the ceiling itself, then clamps the idle timeout.
Check(r) ==
    /\ pc[r] = "check"
    /\ \/ /\ held[r].cap <= now
          /\ Refuse(r)
          /\ UNCHANGED store
       \/ /\ held[r].cap > now
          /\ ttl' = [ttl EXCEPT ![r] = ClampIdleToAbsolute(held[r].cap)]
          /\ held' = [held EXCEPT ![r] = NoRow]
          /\ Goto(r, "touch")
          /\ UNCHANGED <<backend, now, store, minted, kind, cookie, fresh, toldVars>>

\* On to the route's handler, with the record the request read.
ToHandler(r) ==
    /\ Goto(r, "serve")
    /\ held' = [held EXCEPT ![r] = NoRow]
    /\ ttl' = [ttl EXCEPT ![r] = 0]

\* SessionStore.touch: read the row; past the ceiling, tear it down; else
\* slide its idle deadline, at once in memory, by a second request elsewhere.
Touch(r) ==
    /\ pc[r] = "touch"
    /\ LET s == cookie[r]
           slid == [store[s] EXCEPT !.until = now + ttl[r]]
       IN
       \/ ~Present(s) /\ ToHandler(r) /\ UNCHANGED store
       \/ /\ Present(s) /\ store[s].cap <= now
          /\ \/ backend = "memory" /\ Drop(s) /\ ToHandler(r)
             \/ backend = "dynamo" /\ ToHandler(r) /\ UNCHANGED store
             \/ /\ backend \in {"redis", "kv"}
                /\ Goto(r, "teardown")
                /\ UNCHANGED <<store, held, ttl>>
       \/ /\ Present(s) /\ store[s].cap > now
          /\ \/ backend = "memory" /\ Write(s, slid) /\ ToHandler(r)
             \/ /\ backend # "memory"
                /\ held' = [held EXCEPT ![r] = slid]
                /\ Goto(r, "slide")
                /\ UNCHANGED <<store, ttl>>
    /\ UNCHANGED <<backend, now, minted, kind, cookie, fresh, toldVars>>

\* Faulty variants for sensitivity runs: a PEXPIRE that is a SET; a put that
\* is not conditional on the version.
SlideRedisPut(r) == Write(cookie[r], held[r]) /\ ToHandler(r)
SlideDynamoPut(r) == Write(cookie[r], [held[r] EXCEPT !.rev = @ + 1]) /\ ToHandler(r)

\* PEXPIRE: the timeout runs from here; a missing key is left alone.
SlideRedis(r) ==
    /\ IF Present(cookie[r])
       THEN store' = [store EXCEPT ![cookie[r]].until = now + ttl[r]]
       ELSE UNCHANGED store
    /\ ToHandler(r)

\* A put on condition that the version is the one read; else read again, up
\* to a number of attempts whose last failure is ignored.
SlideDynamo(r) ==
    LET s == cookie[r] IN
    \/ /\ store[s].present /\ store[s].rev = held[r].rev
       /\ store[s].rev < MaxRev
       /\ Write(s, [held[r] EXCEPT !.rev = @ + 1])
       /\ ToHandler(r)
    \/ /\ ~(store[s].present /\ store[s].rev = held[r].rev)
       /\ ToHandler(r) \/ (Goto(r, "touch") /\ UNCHANGED <<held, ttl>>)
       /\ UNCHANGED store

\* A plain put.
SlideKv(r) == Write(cookie[r], held[r]) /\ ToHandler(r)

Slide(r) ==
    /\ pc[r] = "slide"
    /\ \/ backend = "redis" /\ SlideRedis(r)
       \/ backend = "dynamo" /\ SlideDynamo(r)
       \/ backend = "kv" /\ SlideKv(r)
    /\ UNCHANGED <<backend, now, minted, kind, cookie, fresh, toldVars>>

Teardown(r) ==
    /\ pc[r] = "teardown"
    /\ Drop(cookie[r])
    /\ ToHandler(r)
    /\ UNCHANGED <<backend, now, minted, kind, cookie, fresh, toldVars>>

\* An operation's handler answers; logout's deletes the session.
Serve(r) ==
    /\ pc[r] = "serve"
    /\ UNCHANGED <<store, toldVars>>
    /\ \/ kind[r] = "access" /\ Finish(r)
       \/ /\ kind[r] = "logout"
          /\ Goto(r, "delete")
          /\ UNCHANGED <<backend, now, minted, kind, cookie, fresh, held, ttl>>

(* callbackHandler, issueSession, rotateSession *)

\* Faulty variant for sensitivity runs: a rotation deletes first.
MintDeleteFirst(r) ==
    /\ pc[r] = "mint"
    /\ \E s \in Sids \ minted :
          /\ minted' = minted \cup {s}
          /\ fresh' = [fresh EXCEPT ![r] = s]
    /\ held' = [held EXCEPT ![r] = [NoRow EXCEPT !.cap = now + AbsoluteTtl]]
    /\ ttl' = [ttl EXCEPT ![r] = ClampIdleToAbsolute(now + AbsoluteTtl)]
    /\ Goto(r, IF cookie[r] # NoSid THEN "delete" ELSE "set")
    /\ UNCHANGED <<backend, now, store, kind, cookie, toldVars>>

\* The verified login mints an id and a record ...
Mint(r) ==
    /\ pc[r] = "mint"
    /\ \E s \in Sids \ minted :
          /\ minted' = minted \cup {s}
          /\ fresh' = [fresh EXCEPT ![r] = s]
    /\ held' = [held EXCEPT ![r] = [NoRow EXCEPT !.cap = now + AbsoluteTtl]]
    /\ ttl' = [ttl EXCEPT ![r] = ClampIdleToAbsolute(now + AbsoluteTtl)]
    /\ Goto(r, "set")
    /\ UNCHANGED <<backend, now, store, kind, cookie, toldVars>>

\* ... SessionStore.set stores it; a rotation then deletes the old id.
Set(r) ==
    /\ pc[r] = "set"
    /\ Write(fresh[r], [present |-> TRUE, until |-> now + ttl[r], cap |-> held[r].cap, rev |-> 1])
    /\ Goto(r, IF cookie[r] # NoSid THEN "delete" ELSE "answer")
    /\ UNCHANGED <<backend, now, minted, kind, cookie, fresh, held, ttl, toldVars>>

\* SessionStore.delete, for a rotation or a logout.
Delete(r) ==
    /\ pc[r] = "delete"
    /\ Drop(cookie[r])
    /\ Goto(r, "answer")
    /\ UNCHANGED <<backend, now, minted, kind, cookie, fresh, held, ttl, toldVars>>

\* The answer sets the new cookie, or clears the old.
Answer(r) ==
    /\ pc[r] = "answer"
    /\ given' = given \cup ({fresh[r]} \ {NoSid})
    /\ revoked' = revoked \cup ({cookie[r]} \ {NoSid})
    /\ Finish(r)
    /\ UNCHANGED <<store, refused>>

(* The environment *)

\* A store request fails, a later phase refuses, or the process dies.
Fail(r) ==
    /\ pc[r] # "idle"
    /\ Finish(r)
    /\ UNCHANGED <<store, toldVars>>

\* DynamoDB's TTL and KV's expirationTtl remove a lapsed row some time later.
Sweep(s) ==
    /\ backend \in {"dynamo", "kv"}
    /\ store[s].present /\ store[s].until <= now
    /\ Drop(s)
    /\ UNCHANGED <<backend, now, minted, requestVars, toldVars>>

Tick ==
    /\ now < MaxTime
    /\ now' = now + 1
    /\ UNCHANGED <<backend, store, minted, requestVars, toldVars>>

Init ==
    /\ backend \in Backends
    /\ now = 0
    /\ store = [s \in Sids |-> NoRow]
    /\ minted = {}
    /\ pc = [r \in Requests |-> "idle"]
    /\ kind = [r \in Requests |-> "access"]
    /\ cookie = [r \in Requests |-> NoSid]
    /\ fresh = [r \in Requests |-> NoSid]
    /\ held = [r \in Requests |-> NoRow]
    /\ ttl = [r \in Requests |-> 0]
    /\ given = {} /\ revoked = {} /\ refused = {}

Step(r) ==
    \/ Arrive(r)
    \/ Get(r) \/ Evict(r) \/ Check(r) \/ Touch(r) \/ Slide(r) \/ Teardown(r) \/ Serve(r)
    \/ Mint(r) \/ Set(r) \/ Delete(r) \/ Answer(r)
    \/ Fail(r)

Next == Tick \/ (\E r \in Requests : Step(r)) \/ (\E s \in Sids : Sweep(s))

Spec == Init /\ [][Next]_vars

-----------------------------------------------------------------------------

TypeOK ==
    /\ backend \in Backends
    /\ now \in 0..MaxTime
    /\ store \in [Sids -> Row]
    /\ minted \subseteq Sids /\ given \subseteq minted
    /\ pc \in [Requests -> Labels]
    /\ kind \in [Requests -> Kinds]
    /\ cookie \in [Requests -> given \cup {NoSid}]
    /\ fresh \in [Requests -> (minted \ given) \cup {NoSid}]
    /\ held \in [Requests -> Row]
    /\ ttl \in [Requests -> 0..IdleTtl]
    /\ revoked \subseteq given /\ refused \subseteq given

\* Over the in-memory store, Redis and DynamoDB: once a logout or a rotation
\* has answered, the session it deleted resolves for nobody, whatever requests
\* were sliding its timeout meanwhile.
RevokedStaysDead == backend # "kv" => \A s \in revoked : ~Resolves(s)

\* What SessionStore.delete promises of every adapter.
RevokedImmediately == \A s \in revoked : ~Resolves(s)

\* Over the in-memory store and Redis: once a request was refused for a
\* session, later ones are too.
RefusedStaysDead == backend \in {"memory", "redis"} => \A s \in refused : ~Resolves(s)

\* A session nobody uses ends within the idle timeout, whenever its last
\* slide was computed and however late it landed.
IdleSessionsEnd == \A s \in Sids : Resolves(s) => store[s].until <= now + IdleTtl

Deadline(row) == IF row.until <= row.cap THEN row.until ELSE row.cap

\* Except over KV: concurrent requests never shorten a session's life by
\* sliding its timeout out of order.
SlidesForward ==
    [][ \A s \in Sids :
          (backend # "kv" /\ store[s].present /\ store'[s].present)
          => Deadline(store'[s]) >= Deadline(store[s]) ]_vars

\* A rotation never leaves the user without a session: when it deletes the
\* old one the new one is there, or has had its whole idle time.
NewBeforeOld ==
    [][ \A r \in Requests :
          (pc[r] = "delete" /\ pc'[r] = "answer" /\ kind[r] = "login")
          => \/ store[fresh[r]].present
             \/ held[r].cap - AbsoluteTtl + ttl[r] <= now ]_vars
=============================================================================
