-------------------------- MODULE Sessions_proofs --------------------------
(***************************************************************************)
(* Proofs about Sessions for any number of session ids and requests, any   *)
(* timeouts, and time that passes between any two steps.                   *)
(*                                                                         *)
(* The argument: no two logins share an id, and an id is stored once,      *)
(* before any client knows it (IdInv).  So a row that is gone can only     *)
(* come back through a slide, and the slide of each adapter but KV asks    *)
(* for the row it changes (GoneStaysGone).  A row that has lapsed cannot   *)
(* come back either where no slide reaches it: Redis has dropped it, and   *)
(* the in-memory store evicts it before it refuses (OverStays).  And what  *)
(* a request in flight is about to write never falls short of what is      *)
(* there (SlideInv).                                                       *)
(***************************************************************************)
EXTENDS Sessions, TLAPS

\* A request at one of these steps presents a cookie.
CookieSteps ==
    {"get", "evict", "check", "touch", "slide", "teardown", "serve", "delete"}

IdInv ==
    /\ \A r \in Requests : pc[r] \in CookieSteps => cookie[r] # NoSid
    /\ \A r \in Requests : pc[r] = "set" => fresh[r] # NoSid
    /\ \A r, q \in Requests : (r # q /\ fresh[r] # NoSid) => fresh[r] # fresh[q]

DeletedInv ==
    backend # "kv" =>
        /\ \A s \in revoked : ~store[s].present
        /\ \A r \in Requests :
              (pc[r] = "answer" /\ cookie[r] # NoSid) => ~store[cookie[r]].present

IdleInv ==
    /\ \A s \in Sids : store[s].until <= now + IdleTtl
    /\ \A r \in Requests : held[r].until <= now + IdleTtl

\* The session is over and no slide will bring it back.
Over(s) ==
    \/ ~store[s].present
    \/ store[s].cap <= now
    \/ backend = "redis" /\ store[s].until <= now

RefusedInv ==
    backend \in {"memory", "redis"} =>
        /\ \A s \in refused : Over(s)
        /\ \A r \in Requests :
              pc[r] = "check" => \/ ~store[cookie[r]].present
                                 \/ store[cookie[r]].cap = held[r].cap

IInv == TypeOK /\ IdInv /\ DeletedInv /\ IdleInv /\ RefusedInv

USE DEF Labels, Kinds, Backends

-----------------------------------------------------------------------------

\* The clamped timeout is a number of seconds, at most the idle timeout.
LEMMA ClampRange ==
    ASSUME now \in Nat, NEW cap \in Nat
    PROVE  ClampIdleToAbsolute(cap) \in 0..IdleTtl
BY TtlAssumption DEF ClampIdleToAbsolute

RequestsOK ==
    /\ backend \in Backends /\ now \in 0..MaxTime /\ minted \subseteq Sids
    /\ pc \in [Requests -> Labels]
    /\ kind \in [Requests -> Kinds]
    /\ cookie \in [Requests -> given \cup {NoSid}]
    /\ fresh \in [Requests -> (minted \ given) \cup {NoSid}]
    /\ held \in [Requests -> Row]
    /\ ttl \in [Requests -> 0..IdleTtl]

ToldOK ==
    /\ given \subseteq minted
    /\ revoked \subseteq given /\ refused \subseteq given

\* A request that ends keeps the types and the ids apart.
LEMMA FinishTyped ==
    ASSUME RequestsOK, IdInv, NEW r \in Requests, Finish(r), given' = given
    PROVE  RequestsOK' /\ IdInv'
BY TtlAssumption DEF RequestsOK, IdInv, Finish, Goto, Row, NoRow, CookieSteps

\* So does one that reaches its handler.
LEMMA HandlerTyped ==
    ASSUME RequestsOK, IdInv, NEW r \in Requests, ToHandler(r), pc[r] \in CookieSteps,
           UNCHANGED <<backend, now, minted, kind, cookie, fresh, given>>
    PROVE  RequestsOK' /\ IdInv'
BY TtlAssumption DEF RequestsOK, IdInv, ToHandler, Goto, Row, NoRow, CookieSteps

\* Writing a row keeps the store a store.
LEMMA WriteTyped ==
    ASSUME store \in [Sids -> Row], NEW s \in Sids, NEW row \in Row, Write(s, row)
    PROVE  store' \in [Sids -> Row]
BY DEF Write

LEMMA DropTyped ==
    ASSUME store \in [Sids -> Row], NEW s \in Sids, Drop(s)
    PROVE  store' \in [Sids -> Row]
<1>1. NoRow \in Row
  BY DEF NoRow, Row
<1> QED
  BY <1>1, WriteTyped DEF Drop

\* Every step keeps the types and the ids apart.
LEMMA NextTypeOK ==
    ASSUME TypeOK, IdInv, [Next]_vars
    PROVE  TypeOK' /\ IdInv'
<1> USE NoSidAssumption, TtlAssumption DEF RequestsOK, ToldOK, IdInv, CookieSteps,
       requestVars, toldVars, Goto
<1> SUFFICES RequestsOK' /\ store' \in [Sids -> Row] /\ ToldOK' /\ IdInv'
  BY DEF TypeOK
<1>a. RequestsOK /\ store \in [Sids -> Row] /\ ToldOK
  BY DEF TypeOK
<1>b. NoRow \in Row
  BY DEF NoRow, Row
<1> DEFINE Goal == RequestsOK' /\ store' \in [Sids -> Row] /\ ToldOK' /\ IdInv'
<1>0. CASE UNCHANGED vars
  BY <1>0, <1>a DEF vars
<1>1. ASSUME NEW r \in Requests, Arrive(r) PROVE Goal
  BY <1>1, <1>a DEF Arrive
<1>2. ASSUME NEW r \in Requests, Get(r) PROVE Goal
  <2>1. cookie[r] \in Sids /\ cookie[r] \in given
    BY <1>2, <1>a DEF Get
  <2>2. CASE Refuse(r) /\ (store' = store \/ Drop(cookie[r]))
    BY <2>1, <2>2, <1>a, FinishTyped, DropTyped DEF Refuse, Finish
  <2>3. CASE /\ held' = [held EXCEPT ![r] = store[cookie[r]]]
             /\ Goto(r, "check")
             /\ UNCHANGED <<backend, now, store, minted, kind, cookie, fresh, ttl, toldVars>>
    BY <2>1, <2>3, <1>2, <1>a DEF Get
  <2>4. CASE /\ Goto(r, "evict")
             /\ UNCHANGED <<backend, now, store, minted, kind, cookie, fresh, held, ttl,
                            toldVars>>
    BY <2>1, <2>4, <1>2, <1>a DEF Get
  <2> QED
    BY <1>2, <2>2, <2>3, <2>4 DEF Get
<1>3. ASSUME NEW r \in Requests, Evict(r) PROVE Goal
  <2>1. cookie[r] \in Sids /\ cookie[r] \in given
    BY <1>3, <1>a DEF Evict
  <2> QED
    BY <2>1, <1>3, <1>a, FinishTyped, DropTyped DEF Evict, Refuse, Finish
<1>4. ASSUME NEW r \in Requests, Check(r) PROVE Goal
  <2>1. cookie[r] \in given /\ held[r].cap \in Nat
    BY <1>4, <1>a DEF Check, Row
  <2>2. ClampIdleToAbsolute(held[r].cap) \in 0..IdleTtl
    BY <1>a, <2>1, ClampRange
  <2>3. CASE Refuse(r) /\ UNCHANGED store
    BY <2>1, <2>3, <1>a, FinishTyped DEF Refuse, Finish
  <2>4. CASE ~(Refuse(r) /\ UNCHANGED store)
    BY <1>4, <2>2, <2>4, <1>a, <1>b DEF Check
  <2> QED
    BY <2>3, <2>4
<1>5. ASSUME NEW r \in Requests, Touch(r) PROVE Goal
  <2>1. cookie[r] \in Sids
    BY <1>5, <1>a DEF Touch
  <2>2. [store[cookie[r]] EXCEPT !.until = now + ttl[r]] \in Row
    BY <2>1, <1>a DEF Row
  <2>3. ToldOK' /\ store' \in [Sids -> Row]
    BY <1>5, <2>1, <2>2, <1>a, WriteTyped, DropTyped DEF Touch
  <2>4. CASE ToHandler(r)
    BY <2>3, <2>4, <1>5, <1>a, HandlerTyped DEF Touch
  <2>5. CASE ~ToHandler(r)
    BY <2>2, <2>3, <2>5, <1>5, <1>a DEF Touch
  <2> QED
    BY <2>4, <2>5
<1>6. ASSUME NEW r \in Requests, Slide(r) PROVE Goal
  <2>1. cookie[r] \in Sids
    BY <1>6, <1>a DEF Slide
  <2>2. [store[cookie[r]] EXCEPT !.until = now + ttl[r]] \in Row
    BY <2>1, <1>a DEF Row
  <2>3. [held[r] EXCEPT !.rev = @ + 1] \in Row /\ held[r] \in Row
    BY <1>a DEF Row
  <2>4. ToldOK' /\ store' \in [Sids -> Row]
    <3>1. CASE SlideRedis(r)
      BY <3>1, <1>6, <2>1, <2>2, <1>a DEF Slide, SlideRedis
    <3>2. CASE SlideDynamo(r)
      BY <3>2, <1>6, <2>1, <2>3, <1>a, WriteTyped DEF Slide, SlideDynamo
    <3>3. CASE SlideKv(r)
      BY <3>3, <1>6, <2>1, <2>3, <1>a, WriteTyped DEF Slide, SlideKv
    <3> QED
      BY <1>6, <3>1, <3>2, <3>3 DEF Slide
  <2>5. CASE ToHandler(r)
    BY <2>4, <2>5, <1>6, <1>a, HandlerTyped DEF Slide
  <2>6. CASE ~ToHandler(r)
    BY <2>4, <2>6, <1>6, <1>a DEF Slide, SlideRedis, SlideDynamo, SlideKv
  <2> QED
    BY <2>5, <2>6
<1>7. ASSUME NEW r \in Requests, Teardown(r) PROVE Goal
  <2>1. cookie[r] \in Sids
    BY <1>7, <1>a DEF Teardown
  <2> QED
    BY <2>1, <1>7, <1>a, HandlerTyped, DropTyped DEF Teardown
<1>8. ASSUME NEW r \in Requests, Serve(r) PROVE Goal
  <2>1. CASE Finish(r)
    BY <2>1, <1>8, <1>a, FinishTyped DEF Serve, Finish
  <2>2. CASE ~Finish(r)
    BY <2>2, <1>8, <1>a DEF Serve
  <2> QED
    BY <2>1, <2>2
<1>9. ASSUME NEW r \in Requests, Mint(r) PROVE Goal
  <2>1. ClampIdleToAbsolute(now + AbsoluteTtl) \in 0..IdleTtl
    BY <1>a, ClampRange
  <2>2. [NoRow EXCEPT !.cap = now + AbsoluteTtl] \in Row
    BY <1>a, now + AbsoluteTtl \in Nat DEF NoRow, Row
  <2>3. PICK s \in Sids \ minted : minted' = minted \cup {s} /\ fresh' = [fresh EXCEPT ![r] = s]
    BY <1>9 DEF Mint
  <2>4. fresh' \in [Requests -> (minted' \ given') \cup {NoSid}]
    BY <1>9, <2>3, <1>a DEF Mint
  <2>5. \A p, q \in Requests : (p # q /\ fresh'[p] # NoSid) => fresh'[p] # fresh'[q]
    BY <2>3, <1>a
  <2>6. \A p \in Requests : pc'[p] = "set" => fresh'[p] # NoSid
    BY <1>9, <2>3, <1>a DEF Mint
  <2> QED
    BY <1>9, <2>1, <2>2, <2>3, <2>4, <2>5, <2>6, <1>a DEF Mint
<1>10. ASSUME NEW r \in Requests, Set(r) PROVE Goal
  <2>1. fresh[r] \in Sids
    BY <1>10, <1>a DEF Set
  <2>2. [present |-> TRUE, until |-> now + ttl[r], cap |-> held[r].cap, rev |-> 1] \in Row
    BY <1>a DEF Row
  <2> QED
    BY <1>10, <2>1, <2>2, <1>a, WriteTyped DEF Set
<1>11. ASSUME NEW r \in Requests, Delete(r) PROVE Goal
  <2>1. cookie[r] \in Sids
    BY <1>11, <1>a DEF Delete
  <2> QED
    BY <1>11, <2>1, <1>a, DropTyped DEF Delete
<1>12. ASSUME NEW r \in Requests, Answer(r) PROVE Goal
  BY <1>12, <1>a, <1>b DEF Answer, Finish
<1>13. ASSUME NEW r \in Requests, Fail(r) PROVE Goal
  BY <1>13, <1>a, FinishTyped DEF Fail, Finish
<1>14. ASSUME NEW s \in Sids, Sweep(s) PROVE Goal
  BY <1>14, <1>a, DropTyped DEF Sweep
<1>15. CASE Tick
  BY <1>15, <1>a DEF Tick
<1> QED
  BY <1>0, <1>1, <1>2, <1>3, <1>4, <1>5, <1>6, <1>7, <1>8, <1>9, <1>10,
     <1>11, <1>12, <1>13, <1>14, <1>15 DEF Next, Step

-----------------------------------------------------------------------------

\* What a step does to one row: nothing, drop it, slide it, or, for an id no
\* client knows yet, store it.
Slid(r, s) ==
    /\ cookie[r] = s /\ Present(s)
    /\ \/ /\ backend = "memory" /\ pc[r] = "touch" /\ now < store[s].cap
          /\ store'[s] = [store[s] EXCEPT !.until = now + ttl[r]]
       \/ /\ backend = "redis" /\ pc[r] = "slide"
          /\ store'[s] = [store[s] EXCEPT !.until = now + ttl[r]]
       \/ /\ backend = "dynamo" /\ pc[r] = "slide" /\ store[s].rev = held[r].rev
          /\ store'[s] = [held[r] EXCEPT !.rev = @ + 1]

StoredRow(r) ==
    [present |-> TRUE, until |-> now + ttl[r], cap |-> held[r].cap, rev |-> 1]

RowEffect(s) ==
    \/ store'[s] = store[s]
    \/ store'[s] = NoRow
    \/ \E r \in Requests : Slid(r, s)
    \/ backend = "kv" /\ \E r \in Requests :
          pc[r] = "slide" /\ cookie[r] = s /\ store'[s] = held[r]
    \/ \E r \in Requests :
          pc[r] = "set" /\ pc'[r] # "set" /\ fresh[r] = s /\ store'[s] = StoredRow(r)

LEMMA StepEffect ==
    ASSUME TypeOK, IdInv, [Next]_vars, NEW s \in Sids
    PROVE  RowEffect(s)
<1> USE DEF RowEffect, TypeOK, requestVars, toldVars
<1>0. CASE UNCHANGED vars
  BY <1>0 DEF vars
<1>1. ASSUME NEW r \in Requests, Arrive(r) PROVE RowEffect(s)
  BY <1>1 DEF Arrive
<1>2. ASSUME NEW r \in Requests, Get(r) PROVE RowEffect(s)
  BY <1>2 DEF Get, Drop, Write
<1>3. ASSUME NEW r \in Requests, Evict(r) PROVE RowEffect(s)
  BY <1>3 DEF Evict, Drop, Write
<1>4. ASSUME NEW r \in Requests, Check(r) PROVE RowEffect(s)
  BY <1>4 DEF Check
<1>5. ASSUME NEW r \in Requests, Touch(r) PROVE RowEffect(s)
  <2>1. CASE UNCHANGED store \/ Drop(cookie[r])
    BY <2>1 DEF Drop, Write
  <2>2. CASE /\ backend = "memory" /\ Present(cookie[r]) /\ now < store[cookie[r]].cap
             /\ Write(cookie[r], [store[cookie[r]] EXCEPT !.until = now + ttl[r]])
    <3>1. CASE s = cookie[r]
      BY <3>1, <2>2, <1>5 DEF Write, Slid, Touch
    <3>2. CASE s # cookie[r]
      BY <3>2, <2>2 DEF Write
    <3> QED
      BY <3>1, <3>2
  <2>3. now \in Nat /\ (store[cookie[r]].cap > now => now < store[cookie[r]].cap)
    BY TtlAssumption
  <2> QED
    BY <1>5, <2>1, <2>2, <2>3 DEF Touch
<1>6. ASSUME NEW r \in Requests, Slide(r) PROVE RowEffect(s)
  <2>1. CASE s # cookie[r] \/ UNCHANGED store
    BY <2>1, <1>6 DEF Slide, SlideRedis, SlideDynamo, SlideKv, Write
  <2>2. CASE s = cookie[r] /\ store' # store /\ backend = "redis" /\ SlideRedis(r)
    BY <2>2, <1>6 DEF Slide, SlideRedis, Slid
  <2>3. CASE s = cookie[r] /\ store' # store /\ backend = "dynamo" /\ SlideDynamo(r)
    BY <2>3, <1>6 DEF Slide, SlideDynamo, Slid, Write, Present
  <2>4. CASE s = cookie[r] /\ store' # store /\ backend = "kv" /\ SlideKv(r)
    BY <2>4, <1>6 DEF Slide, SlideKv, Write
  <2> QED
    BY <1>6, <2>1, <2>2, <2>3, <2>4 DEF Slide
<1>7. ASSUME NEW r \in Requests, Teardown(r) PROVE RowEffect(s)
  BY <1>7 DEF Teardown, Drop, Write
<1>8. ASSUME NEW r \in Requests, Serve(r) PROVE RowEffect(s)
  BY <1>8 DEF Serve
<1>9. ASSUME NEW r \in Requests, Mint(r) PROVE RowEffect(s)
  BY <1>9 DEF Mint
<1>10. ASSUME NEW r \in Requests, Set(r) PROVE RowEffect(s)
  BY <1>10 DEF Set, Write, StoredRow, Goto
<1>11. ASSUME NEW r \in Requests, Delete(r) PROVE RowEffect(s)
  BY <1>11 DEF Delete, Drop, Write
<1>12. ASSUME NEW r \in Requests, Answer(r) PROVE RowEffect(s)
  BY <1>12 DEF Answer
<1>13. ASSUME NEW r \in Requests, Fail(r) PROVE RowEffect(s)
  BY <1>13 DEF Fail
<1>14. ASSUME NEW q \in Sids, Sweep(q) PROVE RowEffect(s)
  BY <1>14 DEF Sweep, Drop, Write
<1>15. CASE Tick
  BY <1>15 DEF Tick
<1> QED
  BY <1>0, <1>1, <1>2, <1>3, <1>4, <1>5, <1>6, <1>7, <1>8, <1>9, <1>10,
     <1>11, <1>12, <1>13, <1>14, <1>15 DEF Next, Step

\* What a step does not touch, and whom it makes revoked.
AnswerEffect ==
    /\ backend' = backend /\ now' \in {now, now + 1}
    /\ \A s \in revoked' : \/ s \in revoked
                          \/ \E r \in Requests : pc[r] = "answer" /\ cookie[r] = s /\ s # NoSid
    /\ \A r \in Requests :
          (pc'[r] = "answer" /\ cookie'[r] # NoSid)
          => /\ cookie'[r] = cookie[r]
             /\ \/ pc[r] = "answer"
                \/ pc[r] = "delete" /\ store' = [store EXCEPT ![cookie[r]] = NoRow]

LEMMA StepAnswers ==
    ASSUME TypeOK, IdInv, [Next]_vars
    PROVE  AnswerEffect
<1> USE DEF AnswerEffect, TypeOK, IdInv, CookieSteps, requestVars, toldVars, Goto
<1>0. CASE UNCHANGED vars
  BY <1>0 DEF vars
<1>1. ASSUME NEW r \in Requests, Arrive(r) PROVE AnswerEffect
  BY <1>1 DEF Arrive
<1>2. ASSUME NEW r \in Requests, Get(r) PROVE AnswerEffect
  BY <1>2 DEF Get, Refuse, Finish
<1>3. ASSUME NEW r \in Requests, Evict(r) PROVE AnswerEffect
  BY <1>3 DEF Evict, Refuse, Finish
<1>4. ASSUME NEW r \in Requests, Check(r) PROVE AnswerEffect
  BY <1>4 DEF Check, Refuse, Finish
<1>5. ASSUME NEW r \in Requests, Touch(r) PROVE AnswerEffect
  BY <1>5 DEF Touch, ToHandler
<1>6. ASSUME NEW r \in Requests, Slide(r) PROVE AnswerEffect
  BY <1>6 DEF Slide, SlideRedis, SlideDynamo, SlideKv, ToHandler
<1>7. ASSUME NEW r \in Requests, Teardown(r) PROVE AnswerEffect
  BY <1>7 DEF Teardown, ToHandler
<1>8. ASSUME NEW r \in Requests, Serve(r) PROVE AnswerEffect
  BY <1>8 DEF Serve, Finish
<1>9. ASSUME NEW r \in Requests, Mint(r) PROVE AnswerEffect
  BY <1>9 DEF Mint
<1>10. ASSUME NEW r \in Requests, Set(r) PROVE AnswerEffect
  BY <1>10 DEF Set
<1>11. ASSUME NEW r \in Requests, Delete(r) PROVE AnswerEffect
  BY <1>11 DEF Delete, Drop, Write
<1>12. ASSUME NEW r \in Requests, Answer(r) PROVE AnswerEffect
  BY <1>12 DEF Answer, Finish
<1>13. ASSUME NEW r \in Requests, Fail(r) PROVE AnswerEffect
  BY <1>13 DEF Fail, Finish
<1>14. ASSUME NEW q \in Sids, Sweep(q) PROVE AnswerEffect
  BY <1>14 DEF Sweep
<1>15. CASE Tick
  BY <1>15 DEF Tick
<1> QED
  BY <1>0, <1>1, <1>2, <1>3, <1>4, <1>5, <1>6, <1>7, <1>8, <1>9, <1>10,
     <1>11, <1>12, <1>13, <1>14, <1>15 DEF Next, Step

\* Except over KV, the row of an id some client knows, once gone, stays gone.
LEMMA GoneStaysGone ==
    ASSUME TypeOK, IdInv, [Next]_vars, backend # "kv", NEW s \in given, ~store[s].present
    PROVE  ~store'[s].present
<1>1. s \in Sids /\ RowEffect(s)
  BY StepEffect DEF TypeOK
<1>2. \A r \in Requests : ~(pc[r] = "set" /\ fresh[r] = s)
  BY NoSidAssumption DEF TypeOK, IdInv
<1>3. \A r \in Requests : ~Slid(r, s)
  BY DEF Slid, Present
<1> QED
  BY <1>1, <1>2, <1>3 DEF RowEffect, NoRow

\* A deleted session stays deleted, before and after the answer.
LEMMA NextDeleted ==
    ASSUME TypeOK, IdInv, DeletedInv, [Next]_vars
    PROVE  DeletedInv'
<1> SUFFICES ASSUME backend' # "kv"
             PROVE  /\ \A s \in revoked' : ~store'[s].present
                    /\ \A r \in Requests : (pc'[r] = "answer" /\ cookie'[r] # NoSid)
                                            => ~store'[cookie'[r]].present
  BY DEF DeletedInv
<1>1. AnswerEffect /\ backend # "kv"
  BY StepAnswers DEF AnswerEffect
<1>2. ASSUME NEW s \in revoked' PROVE ~store'[s].present
  <2>1. ~store[s].present /\ s \in given
    BY <1>1, <1>2 DEF AnswerEffect, DeletedInv, TypeOK
  <2> QED
    BY <1>1, <2>1, GoneStaysGone
<1>3. ASSUME NEW r \in Requests, pc'[r] = "answer", cookie'[r] # NoSid
      PROVE  ~store'[cookie'[r]].present
  <2>1. cookie'[r] = cookie[r] /\ cookie[r] \in given /\ cookie[r] \in Sids
    BY <1>1, <1>3 DEF AnswerEffect, TypeOK
  <2>2. CASE pc[r] = "answer"
    BY <1>1, <1>3, <2>1, <2>2, GoneStaysGone DEF DeletedInv
  <2>3. CASE store' = [store EXCEPT ![cookie[r]] = NoRow]
    BY <2>1, <2>3 DEF TypeOK, NoRow
  <2> QED
    BY <1>1, <1>3, <2>2, <2>3 DEF AnswerEffect
<1> QED
  BY <1>2, <1>3

\* No deadline is ever further off than the idle timeout.
LEMMA NextIdle ==
    ASSUME TypeOK, IdInv, IdleInv, [Next]_vars
    PROVE  IdleInv'
<1> USE TtlAssumption
<1>1. now \in Nat /\ now' \in Nat /\ now <= now'
  BY StepAnswers DEF AnswerEffect, TypeOK
<1>2. ASSUME NEW s \in Sids PROVE store'[s].until <= now' + IdleTtl
  <2>1. RowEffect(s) /\ store[s] \in Row /\ store[s].until <= now + IdleTtl
    BY StepEffect DEF TypeOK, IdleInv
  <2>2. \A r \in Requests : /\ held[r] \in Row /\ held[r].until <= now + IdleTtl
                            /\ ttl[r] \in Nat /\ ttl[r] <= IdleTtl
    BY DEF TypeOK, IdleInv
  <2>3. CASE store'[s] = store[s] \/ store'[s] = NoRow
    BY <1>1, <2>1, <2>3 DEF NoRow, Row
  <2>4. ASSUME NEW r \in Requests, Slid(r, s) PROVE store'[s].until <= now' + IdleTtl
    BY <1>1, <2>1, <2>2, <2>4 DEF Slid, Row
  <2>5. ASSUME NEW r \in Requests, store'[s] = held[r]
        PROVE  store'[s].until <= now' + IdleTtl
    BY <1>1, <2>2, <2>5 DEF Row
  <2>6. ASSUME NEW r \in Requests, store'[s] = StoredRow(r)
        PROVE  store'[s].until <= now' + IdleTtl
    BY <1>1, <2>2, <2>6 DEF StoredRow
  <2> QED
    BY <2>1, <2>3, <2>4, <2>5, <2>6 DEF RowEffect
<1>3. ASSUME NEW p \in Requests PROVE held'[p].until <= now' + IdleTtl
  <2> USE DEF TypeOK, IdleInv, NoRow, Row, requestVars, toldVars
  <2>1. held[p] \in Row /\ held[p].until <= now + IdleTtl
    OBVIOUS
  <2>a. \A r \in Requests : pc[r] \in CookieSteps => cookie[r] \in Sids
    BY DEF IdInv
  <2>2. \/ held'[p] = held[p] \/ held'[p] = NoRow
        \/ \E s \in Sids : held'[p] = store[s]
        \/ held'[p].until = 0
        \/ held'[p].until = now + ttl[p]
    <3> DEFINE G == \/ held'[p] = held[p] \/ held'[p] = NoRow
                    \/ \E s \in Sids : held'[p] = store[s]
                    \/ held'[p].until = 0
                    \/ held'[p].until = now + ttl[p]
    <3>0. CASE UNCHANGED vars
      BY <3>0 DEF vars
    <3>1. ASSUME NEW r \in Requests, Arrive(r) PROVE G
      BY <3>1 DEF Arrive
    <3>2. ASSUME NEW r \in Requests, Get(r) PROVE G
      BY <3>2, <2>a DEF Get, Refuse, Finish, CookieSteps
    <3>3. ASSUME NEW r \in Requests, Evict(r) PROVE G
      BY <3>3 DEF Evict, Refuse, Finish
    <3>4. ASSUME NEW r \in Requests, Check(r) PROVE G
      BY <3>4 DEF Check, Refuse, Finish
    <3>5. ASSUME NEW r \in Requests, Touch(r) PROVE G
      BY <3>5, <2>a DEF Touch, ToHandler, CookieSteps
    <3>6. ASSUME NEW r \in Requests, Slide(r) PROVE G
      BY <3>6 DEF Slide, SlideRedis, SlideDynamo, SlideKv, ToHandler
    <3>7. ASSUME NEW r \in Requests, Teardown(r) PROVE G
      BY <3>7 DEF Teardown, ToHandler
    <3>8. ASSUME NEW r \in Requests, Serve(r) PROVE G
      BY <3>8 DEF Serve, Finish
    <3>9. ASSUME NEW r \in Requests, Mint(r) PROVE G
      BY <3>9 DEF Mint
    <3>10. ASSUME NEW r \in Requests, Set(r) PROVE G
      BY <3>10 DEF Set
    <3>11. ASSUME NEW r \in Requests, Delete(r) PROVE G
      BY <3>11 DEF Delete
    <3>12. ASSUME NEW r \in Requests, Answer(r) PROVE G
      BY <3>12 DEF Answer, Finish
    <3>13. ASSUME NEW r \in Requests, Fail(r) PROVE G
      BY <3>13 DEF Fail, Finish
    <3>14. ASSUME NEW q \in Sids, Sweep(q) PROVE G
      BY <3>14 DEF Sweep
    <3>15. CASE Tick
      BY <3>15 DEF Tick
    <3> QED
      BY <3>0, <3>1, <3>2, <3>3, <3>4, <3>5, <3>6, <3>7, <3>8, <3>9, <3>10,
     <3>11, <3>12, <3>13, <3>14, <3>15 DEF Next, Step
  <2>3. ttl[p] \in Nat /\ ttl[p] <= IdleTtl
    OBVIOUS
  <2> QED
    BY <1>1, <2>1, <2>2, <2>3
<1> QED
  BY <1>2, <1>3 DEF IdleInv

\* Over the in-memory store and Redis, a session that is over stays over.
LEMMA OverStays ==
    ASSUME TypeOK, IdInv, [Next]_vars, backend \in {"memory", "redis"},
           NEW s \in given, Over(s)
    PROVE  Over(s)'
<1> USE TtlAssumption
<1>1. /\ s \in Sids /\ RowEffect(s) /\ backend' = backend
      /\ now \in Nat /\ now' \in Nat /\ now <= now' /\ store[s] \in Row
  BY StepEffect, StepAnswers DEF AnswerEffect, TypeOK
<1>2. \A r \in Requests : ~(pc[r] = "set" /\ fresh[r] = s)
  BY NoSidAssumption DEF TypeOK, IdInv
<1>3. CASE store'[s] = store[s]
  BY <1>1, <1>3 DEF Over, Row
<1>4. CASE store'[s] = NoRow
  BY <1>4 DEF Over, NoRow
<1>5. ASSUME NEW r \in Requests, Slid(r, s) PROVE Over(s)'
  <2>1. store[s].cap <= now /\ backend = "redis"
    BY <1>1, <1>5 DEF Slid, Present, Over, Row
  <2>2. store'[s].cap = store[s].cap
    BY <1>1, <1>5, <2>1 DEF Slid, Row
  <2> QED
    BY <1>1, <2>1, <2>2 DEF Over, Row
<1> QED
  BY <1>1, <1>2, <1>3, <1>4, <1>5 DEF RowEffect

\* Over the same two, a row keeps its ceiling for as long as it is there.
LEMMA CapStays ==
    ASSUME TypeOK, IdInv, [Next]_vars, backend \in {"memory", "redis"},
           NEW s \in given
    PROVE  \/ ~store'[s].present
           \/ store[s].present /\ store'[s].cap = store[s].cap
<1>1. s \in Sids /\ RowEffect(s) /\ store[s] \in Row
  BY StepEffect DEF TypeOK
<1>2. \A r \in Requests : ~(pc[r] = "set" /\ fresh[r] = s)
  BY NoSidAssumption DEF TypeOK, IdInv
<1>3. CASE store'[s] = store[s]
  BY <1>1, <1>3 DEF Row
<1>4. CASE store'[s] = NoRow
  BY <1>4 DEF NoRow
<1>5. ASSUME NEW r \in Requests, Slid(r, s)
      PROVE  store[s].present /\ store'[s].cap = store[s].cap
  BY <1>1, <1>5 DEF Slid, Present, Row
<1> QED
  BY <1>1, <1>2, <1>3, <1>4, <1>5 DEF RowEffect

\* Whom a step refuses, and which request it makes compare the ceiling.
RefusalEffect ==
    /\ \A s \in refused' :
          \/ s \in refused
          \/ \E r \in Requests :
                /\ cookie[r] = s /\ s \in given
                /\ \/ pc[r] = "get" /\ ~Resolves(s) /\ backend = "memory" /\ store'[s] = NoRow
                   \/ pc[r] = "get" /\ ~Resolves(s) /\ backend # "memory"
                      /\ ~(Present(s) /\ backend \in {"redis", "kv"})
                   \/ store'[s] = NoRow
                   \/ pc[r] = "check" /\ held[r].cap <= now
    /\ \A r \in Requests :
          pc'[r] = "check"
          => /\ cookie'[r] = cookie[r] /\ cookie[r] \in given
             /\ \/ pc[r] = "check" /\ held'[r] = held[r]
                \/ store' = store /\ held'[r] = store[cookie[r]]

LEMMA StepRefuses ==
    ASSUME TypeOK, IdInv, [Next]_vars
    PROVE  RefusalEffect
<1> USE DEF RefusalEffect, TypeOK, IdInv, CookieSteps, requestVars, toldVars, Goto
<1>0. CASE UNCHANGED vars
  BY <1>0 DEF vars
<1>1. ASSUME NEW r \in Requests, Arrive(r) PROVE RefusalEffect
  BY <1>1 DEF Arrive
<1>2. ASSUME NEW r \in Requests, Get(r) PROVE RefusalEffect
  BY <1>2 DEF Get, Refuse, Finish, Drop, Write
<1>3. ASSUME NEW r \in Requests, Evict(r) PROVE RefusalEffect
  BY <1>3 DEF Evict, Refuse, Finish, Drop, Write
<1>4. ASSUME NEW r \in Requests, Check(r) PROVE RefusalEffect
  BY <1>4 DEF Check, Refuse, Finish
<1>5. ASSUME NEW r \in Requests, Touch(r) PROVE RefusalEffect
  BY <1>5 DEF Touch, ToHandler
<1>6. ASSUME NEW r \in Requests, Slide(r) PROVE RefusalEffect
  BY <1>6 DEF Slide, SlideRedis, SlideDynamo, SlideKv, ToHandler
<1>7. ASSUME NEW r \in Requests, Teardown(r) PROVE RefusalEffect
  BY <1>7 DEF Teardown, ToHandler
<1>8. ASSUME NEW r \in Requests, Serve(r) PROVE RefusalEffect
  BY <1>8 DEF Serve, Finish
<1>9. ASSUME NEW r \in Requests, Mint(r) PROVE RefusalEffect
  BY <1>9 DEF Mint
<1>10. ASSUME NEW r \in Requests, Set(r) PROVE RefusalEffect
  BY <1>10 DEF Set
<1>11. ASSUME NEW r \in Requests, Delete(r) PROVE RefusalEffect
  BY <1>11 DEF Delete
<1>12. ASSUME NEW r \in Requests, Answer(r) PROVE RefusalEffect
  BY <1>12 DEF Answer, Finish
<1>13. ASSUME NEW r \in Requests, Fail(r) PROVE RefusalEffect
  BY <1>13 DEF Fail, Finish
<1>14. ASSUME NEW q \in Sids, Sweep(q) PROVE RefusalEffect
  BY <1>14 DEF Sweep
<1>15. CASE Tick
  BY <1>15 DEF Tick
<1> QED
  BY <1>0, <1>1, <1>2, <1>3, <1>4, <1>5, <1>6, <1>7, <1>8, <1>9, <1>10,
     <1>11, <1>12, <1>13, <1>14, <1>15 DEF Next, Step

\* A session someone was refused is over.
LEMMA NextRefused ==
    ASSUME TypeOK, IdInv, RefusedInv, [Next]_vars
    PROVE  RefusedInv'
<1> SUFFICES ASSUME backend' \in {"memory", "redis"}
             PROVE  /\ \A s \in refused' : Over(s)'
                    /\ \A r \in Requests :
                          pc'[r] = "check" => \/ ~store'[cookie'[r]].present
                                              \/ store'[cookie'[r]].cap = held'[r].cap
  BY DEF RefusedInv
<1> USE TtlAssumption
<1>1. /\ backend \in {"memory", "redis"} /\ RefusalEffect
      /\ now \in Nat /\ now' \in Nat /\ now <= now'
  BY StepAnswers, StepRefuses DEF AnswerEffect, TypeOK
<1>2. ASSUME NEW s \in refused' PROVE Over(s)'
  <2>1. CASE s \in refused
    BY <1>1, <2>1, OverStays DEF RefusedInv, TypeOK
  <2>2. CASE store'[s] = NoRow
    BY <2>2 DEF Over, NoRow
  <2>3. ASSUME NEW r \in Requests, cookie[r] = s, s \in given, backend = "redis", ~Present(s)
        PROVE  Over(s)'
    <3>1. store[s] \in Row
      BY <2>3 DEF TypeOK
    <3>2. Over(s)
      BY <1>1, <2>3, <3>1 DEF Over, Present, Row
    <3> QED
      BY <1>1, <2>3, <3>2, OverStays
  <2>4. ASSUME NEW r \in Requests, cookie[r] = s, s \in given, pc[r] = "check", held[r].cap <= now
        PROVE  Over(s)'
    <3>1. Over(s)
      BY <1>1, <2>4 DEF Over, RefusedInv
    <3> QED
      BY <1>1, <2>4, <3>1, OverStays
  <2> QED
    BY <1>1, <1>2, <2>1, <2>2, <2>3, <2>4 DEF RefusalEffect
<1>3. ASSUME NEW r \in Requests, pc'[r] = "check"
      PROVE  \/ ~store'[cookie'[r]].present
             \/ store'[cookie'[r]].cap = held'[r].cap
  <2>1. cookie'[r] = cookie[r] /\ cookie[r] \in given
    BY <1>1, <1>3 DEF RefusalEffect
  <2>2. CASE pc[r] = "check" /\ held'[r] = held[r]
    BY <1>1, <2>1, <2>2, CapStays DEF RefusedInv
  <2>3. CASE store' = store /\ held'[r] = store[cookie[r]]
    BY <2>1, <2>3
  <2> QED
    BY <1>1, <1>3, <2>2, <2>3 DEF RefusalEffect
<1> QED
  BY <1>2, <1>3

-----------------------------------------------------------------------------

\* The strengthening of the properties below is an invariant.
THEOREM Invariance == Spec => []IInv
<1>1. Init => IInv
  <2> SUFFICES ASSUME Init PROVE IInv
    OBVIOUS
  <2> USE NoSidAssumption, TtlAssumption DEF Init, NoRow
  <2>1. TypeOK
    BY DEF TypeOK, Row
  <2>2. IdInv /\ DeletedInv /\ RefusedInv
    BY DEF IdInv, DeletedInv, RefusedInv, CookieSteps
  <2>3. IdleInv
    BY DEF IdleInv
  <2> QED
    BY <2>1, <2>2, <2>3 DEF IInv
<1>2. IInv /\ [Next]_vars => IInv'
  BY NextTypeOK, NextDeleted, NextIdle, NextRefused DEF IInv
<1> QED
  BY <1>1, <1>2, PTL DEF Spec

\* Rows, requests and what clients were told are always well formed.
THEOREM TypeCorrect == Spec => []TypeOK
<1>1. IInv => TypeOK
  BY DEF IInv
<1> QED
  BY <1>1, Invariance, PTL

\* Over the in-memory store, Redis and DynamoDB a session deleted by an
\* answered logout or rotation resolves for nobody, with any number of
\* requests in flight.
THEOREM RevocationIsFinal == Spec => []RevokedStaysDead
<1>1. IInv => RevokedStaysDead
  BY DEF IInv, DeletedInv, RevokedStaysDead, Resolves, Present
<1> QED
  BY <1>1, Invariance, PTL

\* Over the in-memory store and Redis a session some request was refused for
\* is refused to every later one.
THEOREM RefusalIsFinal == Spec => []RefusedStaysDead
<1>1. IInv => RefusedStaysDead
  <2> SUFFICES ASSUME IInv, backend \in {"memory", "redis"}, NEW s \in refused
               PROVE  ~Resolves(s)
    BY DEF RefusedStaysDead
  <2>1. Over(s) /\ store[s] \in Row /\ now \in Nat
    BY TtlAssumption DEF IInv, RefusedInv, TypeOK
  <2> QED
    BY <2>1 DEF Over, Resolves, Present, Row
<1> QED
  BY <1>1, Invariance, PTL

\* Over every adapter an unused session ends within the idle timeout.
THEOREM IdleSessionsExpire == Spec => []IdleSessionsEnd
<1>1. IInv => IdleSessionsEnd
  BY DEF IInv, IdleInv, IdleSessionsEnd
<1> QED
  BY <1>1, Invariance, PTL

-----------------------------------------------------------------------------

\* Except over KV, what a request holds for a session that is still there
\* moves its deadline forward: the timeout it computed, whenever that was, and
\* the row it read, as long as the version is the one it read.
SlideInv ==
    /\ \A s \in Sids \ minted : ~store[s].present
    /\ \A r \in Requests : pc[r] = "set" => ~store[fresh[r]].present
    /\ backend # "kv" => \A r \in Requests :
          /\ (pc[r] = "check" /\ store[cookie[r]].present)
             => held[r].cap = store[cookie[r]].cap
          /\ (pc[r] \in {"touch", "slide"} /\ store[cookie[r]].present)
             => ttl[r] = IdleTtl \/ store[cookie[r]].cap <= now + ttl[r]
          /\ (pc[r] = "slide" /\ backend = "dynamo" /\ store[cookie[r]].present)
             => /\ held[r].cap = store[cookie[r]].cap
                /\ held[r].rev <= store[cookie[r]].rev
                /\ held[r].rev = store[cookie[r]].rev
                   => Deadline(held[r]) >= Deadline(store[cookie[r]])

\* How a request gets to the steps SlideInv is about.
SlideEffect(r) ==
    /\ pc'[r] = "set" =>
          \/ pc[r] = "set" /\ fresh'[r] = fresh[r]
          \/ store' = store /\ fresh'[r] \in Sids \ minted
    /\ pc'[r] \in {"check", "touch", "slide"} =>
          cookie'[r] = cookie[r] /\ cookie[r] \in given
    /\ pc'[r] = "check" =>
          \/ pc[r] = "check" /\ held'[r] = held[r]
          \/ store' = store /\ held'[r] = store[cookie[r]]
    /\ pc'[r] \in {"touch", "slide"} =>
          \/ pc[r] \in {"touch", "slide"} /\ ttl'[r] = ttl[r]
          \/ /\ pc[r] = "check" /\ store' = store /\ now' = now
             /\ now < held[r].cap /\ ttl'[r] = ClampIdleToAbsolute(held[r].cap)
    /\ pc'[r] = "slide" =>
          \/ pc[r] = "slide" /\ held'[r] = held[r]
          \/ /\ pc[r] = "touch" /\ store' = store
             /\ store[cookie[r]].present
             /\ held'[r] = [store[cookie[r]] EXCEPT !.until = now + ttl[r]]

LEMMA StepSlides ==
    ASSUME TypeOK, IdInv, [Next]_vars, NEW p \in Requests
    PROVE  SlideEffect(p) /\ minted \subseteq minted'
<1> USE TtlAssumption DEF SlideEffect, TypeOK, IdInv, CookieSteps, requestVars, toldVars,
       Goto
<1>0. CASE UNCHANGED vars
  BY <1>0 DEF vars
<1>1. ASSUME NEW r \in Requests, Arrive(r) PROVE SlideEffect(p) /\ minted \subseteq minted'
  BY <1>1 DEF Arrive
<1>2. ASSUME NEW r \in Requests, Get(r) PROVE SlideEffect(p) /\ minted \subseteq minted'
  BY <1>2 DEF Get, Refuse, Finish
<1>3. ASSUME NEW r \in Requests, Evict(r) PROVE SlideEffect(p) /\ minted \subseteq minted'
  BY <1>3 DEF Evict, Refuse, Finish
<1>4. ASSUME NEW r \in Requests, Check(r) PROVE SlideEffect(p) /\ minted \subseteq minted'
  BY <1>4 DEF Check, Refuse, Finish
<1>5. ASSUME NEW r \in Requests, Touch(r) PROVE SlideEffect(p) /\ minted \subseteq minted'
  BY <1>5 DEF Touch, ToHandler, Present
<1>6. ASSUME NEW r \in Requests, Slide(r) PROVE SlideEffect(p) /\ minted \subseteq minted'
  BY <1>6 DEF Slide, SlideRedis, SlideDynamo, SlideKv, ToHandler
<1>7. ASSUME NEW r \in Requests, Teardown(r) PROVE SlideEffect(p) /\ minted \subseteq minted'
  BY <1>7 DEF Teardown, ToHandler
<1>8. ASSUME NEW r \in Requests, Serve(r) PROVE SlideEffect(p) /\ minted \subseteq minted'
  BY <1>8 DEF Serve, Finish
<1>9. ASSUME NEW r \in Requests, Mint(r) PROVE SlideEffect(p) /\ minted \subseteq minted'
  BY <1>9 DEF Mint
<1>10. ASSUME NEW r \in Requests, Set(r) PROVE SlideEffect(p) /\ minted \subseteq minted'
  BY <1>10 DEF Set
<1>11. ASSUME NEW r \in Requests, Delete(r) PROVE SlideEffect(p) /\ minted \subseteq minted'
  BY <1>11 DEF Delete
<1>12. ASSUME NEW r \in Requests, Answer(r) PROVE SlideEffect(p) /\ minted \subseteq minted'
  BY <1>12 DEF Answer, Finish
<1>13. ASSUME NEW r \in Requests, Fail(r) PROVE SlideEffect(p) /\ minted \subseteq minted'
  BY <1>13 DEF Fail, Finish
<1>14. ASSUME NEW q \in Sids, Sweep(q) PROVE SlideEffect(p) /\ minted \subseteq minted'
  BY <1>14 DEF Sweep
<1>15. CASE Tick
  BY <1>15 DEF Tick
<1> QED
  BY <1>0, <1>1, <1>2, <1>3, <1>4, <1>5, <1>6, <1>7, <1>8, <1>9, <1>10,
     <1>11, <1>12, <1>13, <1>14, <1>15 DEF Next, Step

\* Except over KV, a row that is still there after a step has its ceiling and
\* a version that counts the conditional writes.
LEMMA RowStays ==
    ASSUME TypeOK, IdInv, SlideInv, [Next]_vars, backend # "kv", NEW s \in given,
           store'[s].present
    PROVE  /\ store[s].present /\ store'[s].cap = store[s].cap
           /\ store[s].rev <= store'[s].rev
           /\ (backend = "dynamo" /\ store'[s] # store[s]) => store[s].rev < store'[s].rev
<1>1. s \in Sids /\ RowEffect(s) /\ store[s] \in Row
  BY StepEffect DEF TypeOK
<1>2. \A r \in Requests : ~(pc[r] = "set" /\ fresh[r] = s)
  BY NoSidAssumption DEF TypeOK, IdInv
<1>3. CASE store'[s] = store[s]
  BY <1>1, <1>3 DEF Row
<1>4. store'[s] # NoRow
  BY DEF NoRow
<1>5. ASSUME NEW r \in Requests, Slid(r, s), backend # "dynamo"
      PROVE  store[s].present /\ store'[s].cap = store[s].cap /\ store'[s].rev = store[s].rev
  BY <1>1, <1>5 DEF Slid, Present, Row
<1>6. ASSUME NEW r \in Requests, Slid(r, s), backend = "dynamo"
      PROVE  /\ store[s].present /\ store'[s].cap = store[s].cap
             /\ store'[s].rev = store[s].rev + 1
  <2>1. /\ cookie[r] = s /\ pc[r] = "slide" /\ store[s].present /\ held[r] \in Row
        /\ store[s].rev = held[r].rev /\ store'[s] = [held[r] EXCEPT !.rev = @ + 1]
    BY <1>6 DEF Slid, Present, TypeOK
  <2>2. held[r].cap = store[s].cap
    BY <1>6, <2>1 DEF SlideInv
  <2> QED
    BY <2>1, <2>2 DEF Row
<1>7. store[s].rev \in Nat
  BY <1>1 DEF Row
<1> QED
  BY <1>1, <1>2, <1>3, <1>4, <1>5, <1>6, <1>7 DEF RowEffect

\* The timeout a request computed reaches as far as any deadline: the idle
\* timeout from now, or the ceiling.
LEMMA SlideReaches ==
    ASSUME NEW row \in Row, NEW until \in Nat, NEW t \in Nat, now \in Nat,
           row.until <= now + IdleTtl, t = IdleTtl \/ row.cap <= now + t,
           until = now + t
    PROVE  Deadline([row EXCEPT !.until = until]) >= Deadline(row)
BY TtlAssumption DEF Deadline, Row

LEMMA NextSlide ==
    ASSUME TypeOK, IdInv, IdleInv, SlideInv, [Next]_vars
    PROVE  SlideInv'
<1> USE TtlAssumption
<1>1. /\ backend' = backend /\ minted \subseteq minted'
      /\ now \in Nat /\ now' \in Nat /\ now <= now'
  <2>1. CASE Requests = {}
    BY <2>1, StepAnswers DEF TypeOK, AnswerEffect, Next, Tick, Sweep, requestVars, vars
  <2>2. CASE Requests # {}
    BY <2>2, StepAnswers, StepSlides DEF TypeOK, AnswerEffect
  <2> QED
    BY <2>1, <2>2
<1>2. TypeOK' /\ IdInv'
  BY NextTypeOK
<1>3. ASSUME NEW s \in Sids \ minted' PROVE ~store'[s].present
  <2>1. RowEffect(s) /\ ~store[s].present /\ s \notin given
    BY <1>1, StepEffect DEF SlideInv, TypeOK
  <2>2. \A r \in Requests : fresh[r] # s /\ cookie[r] # s
    BY <1>1, <1>3, NoSidAssumption DEF TypeOK
  <2>3. \A r \in Requests : ~Slid(r, s)
    BY <2>2 DEF Slid
  <2>4. store'[s] = store[s] \/ store'[s] = NoRow
    BY <2>1, <2>2, <2>3 DEF RowEffect
  <2>5. ~NoRow.present
    BY DEF NoRow
  <2> QED
    BY <2>1, <2>4, <2>5
<1>4. ASSUME NEW r \in Requests, pc'[r] = "set" PROVE ~store'[fresh'[r]].present
  <2>1. CASE store' = store /\ fresh'[r] \in Sids \ minted
    BY <2>1 DEF SlideInv
  <2>2. CASE pc[r] = "set" /\ fresh'[r] = fresh[r]
    <3>1. /\ fresh[r] \in Sids /\ fresh[r] \notin given /\ ~store[fresh[r]].present
          /\ RowEffect(fresh[r])
      BY <2>2, StepEffect DEF SlideInv, TypeOK, IdInv
    <3>2. \A q \in Requests : ~Slid(q, fresh[r]) /\ cookie[q] # fresh[r]
      BY <3>1, NoSidAssumption DEF Slid, TypeOK
    <3>3. \A q \in Requests : (fresh[q] = fresh[r] /\ pc'[q] # "set") => FALSE
      BY <1>4, <3>1, NoSidAssumption DEF IdInv
    <3> QED
      BY <2>2, <3>1, <3>2, <3>3 DEF RowEffect, NoRow
  <2> QED
    BY <1>4, <2>1, <2>2, StepSlides DEF SlideEffect
<1>5. ASSUME backend # "kv", NEW r \in Requests, pc'[r] = "check", store'[cookie'[r]].present
      PROVE  held'[r].cap = store'[cookie'[r]].cap
  <2>1. /\ cookie'[r] = cookie[r] /\ store[cookie[r]].present
        /\ store'[cookie[r]].cap = store[cookie[r]].cap
    BY <1>5, StepSlides, RowStays DEF SlideEffect
  <2>2. \/ pc[r] = "check" /\ held'[r] = held[r]
        \/ store' = store /\ held'[r] = store[cookie[r]]
    BY <1>5, StepSlides DEF SlideEffect
  <2> QED
    BY <1>5, <2>1, <2>2 DEF SlideInv
<1>6. ASSUME backend # "kv", NEW r \in Requests, pc'[r] \in {"touch", "slide"},
             store'[cookie'[r]].present
      PROVE  ttl'[r] = IdleTtl \/ store'[cookie'[r]].cap <= now' + ttl'[r]
  <2> DEFINE s == cookie[r]
  <2>1. /\ cookie'[r] = s /\ s \in given /\ store[s].present
        /\ store'[s].cap = store[s].cap
    BY <1>6, StepSlides, RowStays DEF SlideEffect
  <2>2. store[s] \in Row /\ ttl[r] \in Nat /\ ttl'[r] \in Nat
    BY <1>2, <2>1 DEF TypeOK
  <2>3. CASE pc[r] \in {"touch", "slide"} /\ ttl'[r] = ttl[r]
    BY <1>1, <1>6, <2>1, <2>2, <2>3 DEF SlideInv, Row
  <2>4. CASE /\ pc[r] = "check" /\ store' = store /\ now' = now
             /\ now < held[r].cap /\ ttl'[r] = ClampIdleToAbsolute(held[r].cap)
    <3>1. held[r].cap = store[s].cap /\ store[s].cap \in Nat
      BY <1>6, <2>1, <2>2, <2>4 DEF SlideInv, Row
    <3> QED
      BY <1>1, <2>1, <2>4, <3>1 DEF ClampIdleToAbsolute
  <2> QED
    BY <1>6, <2>3, <2>4, StepSlides DEF SlideEffect
<1>7. ASSUME backend = "dynamo", NEW r \in Requests, pc'[r] = "slide",
             store'[cookie'[r]].present
      PROVE  /\ held'[r].cap = store'[cookie'[r]].cap
             /\ held'[r].rev <= store'[cookie'[r]].rev
             /\ held'[r].rev = store'[cookie'[r]].rev
                => Deadline(held'[r]) >= Deadline(store'[cookie'[r]])
  <2> DEFINE s == cookie[r]
  <2>1. /\ cookie'[r] = s /\ s \in given /\ store[s].present
        /\ store'[s].cap = store[s].cap /\ store[s].rev <= store'[s].rev
        /\ store'[s] # store[s] => store[s].rev < store'[s].rev
    BY <1>7, StepSlides, RowStays DEF SlideEffect
  <2>2. /\ store[s] \in Row /\ store'[s] \in Row /\ held[r] \in Row /\ ttl[r] \in Nat
    BY <1>2, <2>1 DEF TypeOK
  <2>3. CASE pc[r] = "slide" /\ held'[r] = held[r]
    <3>1. /\ held[r].cap = store[s].cap /\ held[r].rev <= store[s].rev
          /\ held[r].rev = store[s].rev => Deadline(held[r]) >= Deadline(store[s])
      BY <1>7, <2>1, <2>3 DEF SlideInv
    <3>2. held[r].rev = store'[s].rev => store'[s] = store[s]
      BY <2>1, <2>2, <3>1 DEF Row
    <3> QED
      BY <2>1, <2>2, <2>3, <3>1, <3>2 DEF Row
  <2>4. CASE /\ pc[r] = "touch" /\ store' = store
             /\ held'[r] = [store[s] EXCEPT !.until = now + ttl[r]]
    <3>1. held'[r].cap = store[s].cap /\ held'[r].rev = store[s].rev
      BY <2>2, <2>4 DEF Row
    <3>2. store[s].until <= now + IdleTtl /\ now + ttl[r] \in Nat
      BY <1>1, <2>1, <2>2 DEF IdleInv, TypeOK
    <3>3. ttl[r] = IdleTtl \/ store[s].cap <= now + ttl[r]
      BY <1>7, <2>1, <2>4 DEF SlideInv
    <3>4. Deadline(held'[r]) >= Deadline(store[s])
      BY <1>1, <2>2, <2>4, <3>2, <3>3, SlideReaches
    <3> QED
      BY <2>1, <2>2, <2>4, <3>1, <3>4 DEF Row
  <2> QED
    BY <1>7, <2>3, <2>4, StepSlides DEF SlideEffect
<1> QED
  BY <1>1, <1>3, <1>4, <1>5, <1>6, <1>7 DEF SlideInv

\* Except over KV a step never moves a deadline back.
LEMMA NextSlidesForward ==
    ASSUME TypeOK, IdInv, IdleInv, SlideInv, [Next]_vars,
           NEW s \in Sids, backend # "kv", store[s].present, store'[s].present
    PROVE  Deadline(store'[s]) >= Deadline(store[s])
<1> USE TtlAssumption
<1>1. RowEffect(s) /\ store[s] \in Row /\ store[s].until <= now + IdleTtl /\ now \in Nat
  BY StepEffect DEF TypeOK, IdleInv
<1>2. CASE store'[s] = store[s]
  BY <1>1, <1>2 DEF Deadline, Row
<1>3. store'[s] # NoRow
  BY DEF NoRow
<1>4. \A r \in Requests : ~(pc[r] = "set" /\ fresh[r] = s)
  BY DEF SlideInv
<1>5. ASSUME NEW r \in Requests, Slid(r, s), backend # "dynamo"
      PROVE  Deadline(store'[s]) >= Deadline(store[s])
  <2>1. /\ pc[r] \in {"touch", "slide"} /\ cookie[r] = s
        /\ store'[s] = [store[s] EXCEPT !.until = now + ttl[r]]
    BY <1>5 DEF Slid
  <2>2. ttl[r] \in Nat /\ now + ttl[r] \in Nat
    BY <1>1 DEF TypeOK
  <2>3. ttl[r] = IdleTtl \/ store[s].cap <= now + ttl[r]
    BY <2>1 DEF SlideInv
  <2> QED
    BY <1>1, <2>1, <2>2, <2>3, SlideReaches
<1>6. ASSUME NEW r \in Requests, Slid(r, s), backend = "dynamo"
      PROVE  Deadline(store'[s]) >= Deadline(store[s])
  <2>1. /\ pc[r] = "slide" /\ cookie[r] = s /\ store[s].rev = held[r].rev
        /\ store'[s] = [held[r] EXCEPT !.rev = @ + 1] /\ held[r] \in Row
    BY <1>6 DEF Slid, TypeOK
  <2>2. Deadline(held[r]) >= Deadline(store[s])
    BY <1>6, <2>1 DEF SlideInv
  <2>3. Deadline(store'[s]) = Deadline(held[r])
    BY <2>1 DEF Deadline, Row
  <2> QED
    BY <2>2, <2>3
<1> QED
  BY <1>1, <1>2, <1>3, <1>4, <1>5, <1>6 DEF RowEffect

\* Except over KV, concurrent requests never shorten a session's life.
THEOREM SlidesNeverBack == Spec => SlidesForward
<1>1. Init => SlideInv
  BY DEF Init, NoRow, SlideInv
<1>2. IInv /\ SlideInv /\ [Next]_vars => SlideInv'
  BY NextSlide DEF IInv
<1>3. Spec => []SlideInv
  BY <1>1, <1>2, Invariance, PTL DEF Spec
<1>4. IInv /\ SlideInv /\ [Next]_vars
        => [ \A s \in Sids :
               (backend # "kv" /\ store[s].present /\ store'[s].present)
               => Deadline(store'[s]) >= Deadline(store[s]) ]_vars
  BY NextSlidesForward DEF IInv
<1> QED
  BY <1>3, <1>4, Invariance, PTL DEF Spec, SlidesForward
=============================================================================
