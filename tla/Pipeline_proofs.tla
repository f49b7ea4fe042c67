-------------------------- MODULE Pipeline_proofs --------------------------
(***************************************************************************)
(* Proofs about Pipeline for any finite set of requests, any bound of the  *)
(* shedder, and every configuration, accepted or not.  And about the       *)
(* buckets its limiters charge, in every back-end, for any capacity, rate, *)
(* costs and drift of the callers' clocks.                                 *)
(*                                                                         *)
(* Requests: a stage ends a request, advances it, or admits it to the      *)
(* shedder (StepEnds), and each of the three keeps the count (SlotInv).    *)
(* What a guard asked for stays true of a request behind it, because what  *)
(* it asked about is written once, by an earlier stage (RequestInv).       *)
(* Requests meet in the nonce store only (Nonces), and that is why a       *)
(* refusal under an accepted configuration has its cause in the request or *)
(* in its copies (Refusals).                                               *)
(*                                                                         *)
(* Buckets: a bucket is a line, which clocks do not move.  Measured on it, *)
(* the bucket and all that callers have read of it and may still write are *)
(* worth what the ideal bucket holds: no less (Generous), and, while rows  *)
(* outlast a refill and no write is swapped or late, no more (Stingy).     *)
(***************************************************************************)
EXTENDS Pipeline, TokenBuckets, FiniteSetTheorems, TLAPS

\* The stages inside the shedder.
Inside ==
    {"headerGuards", "perIp", "bodyGuards", "authenticate", "verifySignature", "csrf",
     "perPrincipal", "policy", "policyAgain", "authorize", "handler"}

\* The mounting order, position by position.
LEMMA StagesAre ==
    /\ DOMAIN Stages = 1..13
    /\ Stages[1] = "cors" /\ Stages[2] = "shed" /\ Stages[3] = "headerGuards"
    /\ Stages[4] = "perIp" /\ Stages[5] = "bodyGuards" /\ Stages[6] = "authenticate"
    /\ Stages[7] = "verifySignature" /\ Stages[8] = "csrf" /\ Stages[9] = "perPrincipal"
    /\ Stages[10] = "policy" /\ Stages[11] = "policyAgain" /\ Stages[12] = "authorize"
    /\ Stages[13] = "handler"
BY DEF Stages

LEMMA StageSetIs == StageSet = {"cors", "shed"} \cup Inside
BY StagesAre, SMTT(60) DEF StageSet, ToSet, Inside

LEMMA PositionIs == \A i \in 1..13 : Position(Stages[i]) = i
<1> SUFFICES ASSUME NEW i \in 1..13 PROVE Position(Stages[i]) = i
  OBVIOUS
<1>1. \A j \in 1..13 : Stages[j] = Stages[i] => j = i
  BY StagesAre, SMTT(60)
<1> QED BY <1>1, StagesAre DEF Position

LEMMA Positions ==
    /\ Position("cors") = 1 /\ Position("shed") = 2 /\ Position("headerGuards") = 3
    /\ Position("perIp") = 4 /\ Position("bodyGuards") = 5 /\ Position("authenticate") = 6
    /\ Position("verifySignature") = 7 /\ Position("csrf") = 8
    /\ Position("perPrincipal") = 9 /\ Position("policy") = 10
    /\ Position("policyAgain") = 11 /\ Position("authorize") = 12
    /\ Position("handler") = 13
<1>1. \A i \in 1..13 : Position(Stages[i]) = i
  BY PositionIs
<1> QED BY <1>1, StagesAre

LEMMA NextStage ==
    /\ Stages[Position("cors") + 1] = "shed"
    /\ Stages[Position("shed") + 1] = "headerGuards"
    /\ Stages[Position("headerGuards") + 1] = "perIp"
    /\ Stages[Position("perIp") + 1] = "bodyGuards"
    /\ Stages[Position("bodyGuards") + 1] = "authenticate"
    /\ Stages[Position("authenticate") + 1] = "verifySignature"
    /\ Stages[Position("verifySignature") + 1] = "csrf"
    /\ Stages[Position("csrf") + 1] = "perPrincipal"
    /\ Stages[Position("perPrincipal") + 1] = "policy"
    /\ Stages[Position("policy") + 1] = "policyAgain"
    /\ Stages[Position("policyAgain") + 1] = "authorize"
    /\ Stages[Position("authorize") + 1] = "handler"
    /\ Stages[1] = "cors"
BY StagesAre, Positions

LEMMA InsideIs == \A s : s \in StageSet /\ Position(s) > Position("shed") <=> s \in Inside
BY StageSetIs, Positions DEF Inside

-----------------------------------------------------------------------------

\* TypeOK, but for the bound of the count.
Typing ==
    /\ config \in SecurityConfig(Ops)
    /\ req \in [Requests -> Request]
    /\ at \in [Requests -> StageSet \cup {"new", "over"}]
    /\ reply \in [Requests -> Statuses]
    /\ inFlight \in Nat
    /\ principal \in [Requests -> {"none", "user", "service"}]
    /\ claimed \subseteq {"s1", "s2"}
    /\ record \in Records \cup {Gone}
    /\ judged \in [Requests -> Records \cup {Gone, Unread}]
    /\ resource \in [Requests -> Records \cup {Gone, Unread}]
    /\ charged \in [Requests -> SUBSET Limiters]
    /\ parsed \subseteq Requests /\ ran \subseteq Requests /\ unanswered \subseteq Requests

\* What a step of a stage comes to: an answer, the next stage, a slot of the
\* shedder, or, in the handler, an effect.
Ends(r) ==
    /\ at[r] \in StageSet \cup {"new"}
    /\ \E status \in Statuses \ {0} : Answer(r, status)

Advances(r) ==
    /\ at[r] \in {"new", "cors"} \cup (Inside \ {"handler"})
    /\ \E s \in StageSet : /\ at' = [at EXCEPT ![r] = s]
                           /\ s \in Inside <=> at[r] \in Inside
    /\ UNCHANGED <<reply, inFlight>>

Admits(r) ==
    /\ at[r] = "shed" /\ ~Full
    /\ at' = [at EXCEPT ![r] = "headerGuards"]
    /\ inFlight' = inFlight + 1
    /\ UNCHANGED reply

Stays(r) == at[r] = "handler" /\ UNCHANGED <<at, reply, inFlight>>

LEMMA PassAdvances ==
    ASSUME NEW r \in Requests, Pass(r), at[r] \in {"cors"} \cup (Inside \ {"handler"})
    PROVE  Advances(r)
BY NextStage, StageSetIs DEF Pass, Advances, Inside

LEMMA StepEnds ==
    ASSUME Typing, NEW r \in Requests, Step(r)
    PROVE  Ends(r) \/ Advances(r) \/ Admits(r) \/ Stays(r)
<1> USE StageSetIs DEF Inside, Ends, Statuses
<1>1. ASSUME Arrive(r) PROVE Ends(r) \/ Advances(r)
  BY <1>1, NextStage DEF Arrive, Advances
<1>2. ASSUME Cors(r) PROVE Ends(r) \/ Advances(r)
  BY <1>2, PassAdvances DEF Cors
<1>3. ASSUME Shed(r) PROVE Ends(r) \/ Admits(r)
  BY <1>3, NextStage DEF Shed, Admits
<1>4. ASSUME HeaderGuards(r) PROVE Ends(r) \/ Advances(r)
  BY <1>4, PassAdvances DEF HeaderGuards
<1>5. ASSUME RateLimitPerIp(r) PROVE Ends(r) \/ Advances(r)
  BY <1>5, PassAdvances DEF RateLimitPerIp, Charge
<1>6. ASSUME BodyGuards(r) PROVE Ends(r) \/ Advances(r)
  BY <1>6, PassAdvances DEF BodyGuards
<1>7. ASSUME Authenticate(r) PROVE Ends(r) \/ Advances(r)
  BY <1>7, PassAdvances DEF Authenticate, Deny, DenyOrClear, Unauthorized
<1>8. ASSUME VerifySignature(r) PROVE Ends(r) \/ Advances(r)
  BY <1>8, PassAdvances DEF VerifySignature, Serve, LoseClaim, Unauthorized
<1>9. ASSUME Csrf(r) PROVE Ends(r) \/ Advances(r)
  BY <1>9, PassAdvances DEF Csrf
<1>10. ASSUME RateLimitPerPrincipal(r) PROVE Ends(r) \/ Advances(r)
  BY <1>10, PassAdvances DEF RateLimitPerPrincipal, Charge
<1>11. ASSUME Policy(r) PROVE Ends(r) \/ Advances(r)
  <2>1. ASSUME NEW loaded, Combine(r, loaded) PROVE Ends(r) \/ Advances(r)
    BY <1>11, <2>1, PassAdvances DEF Policy, Combine, Advances
  <2> QED
    BY <1>11, <2>1, PassAdvances DEF Policy
<1>12. ASSUME Authorize(r) PROVE Ends(r) \/ Advances(r)
  BY <1>12, PassAdvances DEF Authorize
<1>13. ASSUME Handler(r) PROVE Stays(r)
  BY <1>13 DEF Handler, Stays
<1>14. ASSUME Respond(r) PROVE Ends(r)
  BY <1>14 DEF Respond
<1>15. ASSUME Throw(r) PROVE Ends(r)
  BY <1>15 DEF Throw
<1> QED
  BY <1>1, <1>2, <1>3, <1>4, <1>5, <1>6, <1>7, <1>8, <1>9, <1>10, <1>11, <1>12,
     <1>13, <1>14, <1>15 DEF Step

-----------------------------------------------------------------------------

\* The requests that hold a slot.
Holders == {r \in Requests : Holding(r)}

SlotInv ==
    /\ inFlight = Cardinality(Holders)
    /\ inFlight <= MaxInFlight
    /\ \A r \in Requests : at[r] \in {"new", "cors", "shed"} => reply[r] = 0

LEMMA HoldersFinite == IsFiniteSet(Holders)
BY PipelineAssumption, FS_Subset DEF Holders

LEMMA HoldersAre ==
    /\ Holders = {r \in Requests : at[r] \in Inside /\ reply[r] = 0}
    /\ Holders' = {r \in Requests : at'[r] \in Inside /\ reply'[r] = 0}
BY InsideIs DEF Holders, Holding, Admitted

\* An answer frees the slot of the request that held one.
LEMMA OneLess ==
    ASSUME Typing, SlotInv, NEW r \in Requests, Holding(r), Holders' = Holders \ {r}
    PROVE  Cardinality(Holders') = inFlight - 1 /\ inFlight - 1 \in Nat
<1>1. r \in Holders
  BY DEF Holders
<1>2. Cardinality(Holders) \in Nat /\ Cardinality(Holders \ {r}) = Cardinality(Holders) - 1
      /\ Cardinality(Holders \ {r}) \in Nat
  BY <1>1, HoldersFinite, FS_RemoveElement, FS_CardinalityType
<1> QED
  BY <1>2 DEF SlotInv

LEMMA EndSlots ==
    ASSUME Typing, SlotInv, NEW r \in Requests, Ends(r)
    PROVE  SlotInv' /\ inFlight' \in Nat
<1> PICK status \in Statuses \ {0} : Answer(r, status)
  BY DEF Ends
<1>1. Holders' = Holders \ {r}
  BY StageSetIs, HoldersAre DEF Typing, Answer, Inside
<1>2. \A q \in Requests : at'[q] \in {"new", "cors", "shed"} => reply'[q] = 0
  BY DEF Typing, SlotInv, Answer
<1>3. CASE Holding(r)
  <2>1. inFlight' = inFlight - 1
    BY <1>3 DEF Answer, Freed
  <2>2. Cardinality(Holders') = inFlight - 1 /\ inFlight - 1 \in Nat
    BY <1>1, <1>3, OneLess
  <2>3. inFlight' <= MaxInFlight
    BY <2>1, PipelineAssumption DEF SlotInv, Typing
  <2> QED
    BY <1>2, <2>1, <2>2, <2>3 DEF SlotInv
<1>4. CASE ~Holding(r)
  <2>1. Holders' = Holders
    BY <1>1, <1>4 DEF Holders
  <2> QED
    BY <2>1, <1>2, <1>4 DEF SlotInv, Answer, Freed, Typing
<1> QED
  BY <1>3, <1>4

LEMMA AdvanceSlots ==
    ASSUME Typing, SlotInv, NEW r \in Requests, Advances(r)
    PROVE  SlotInv' /\ inFlight' \in Nat
<1>2. Holders' = Holders
  BY HoldersAre, StageSetIs DEF Typing, Advances, Inside
<1>3. \A q \in Requests : at'[q] \in {"new", "cors", "shed"} => reply'[q] = 0
  BY StageSetIs DEF Typing, SlotInv, Advances, Inside
<1> QED
  BY <1>2, <1>3 DEF SlotInv, Advances, Typing

LEMMA AdmitSlots ==
    ASSUME Typing, SlotInv, NEW r \in Requests, Admits(r)
    PROVE  SlotInv' /\ inFlight' \in Nat
<1>1. Holders' = Holders \cup {r} /\ r \notin Holders
  BY HoldersAre DEF Typing, SlotInv, Admits, Inside
<1>2. Cardinality(Holders') = Cardinality(Holders) + 1
  BY <1>1, HoldersFinite, FS_AddElement
<1>3. inFlight' = inFlight + 1 /\ inFlight + 1 \in Nat /\ inFlight + 1 <= MaxInFlight
  BY PipelineAssumption DEF Admits, Full, Typing
<1>4. \A q \in Requests : at'[q] \in {"new", "cors", "shed"} => reply'[q] = 0
  BY DEF Typing, SlotInv, Admits
<1> QED
  BY <1>2, <1>3, <1>4 DEF SlotInv

LEMMA StaySlots ==
    ASSUME Typing, SlotInv, NEW r \in Requests, Stays(r)
    PROVE  SlotInv' /\ inFlight' \in Nat
<1>1. Holders' = Holders
  BY HoldersAre DEF Stays
<1> QED
  BY <1>1 DEF SlotInv, Stays, Typing

LEMMA TimeoutSlots ==
    ASSUME Typing, SlotInv, NEW r \in Requests, Timeout(r)
    PROVE  SlotInv' /\ inFlight' \in Nat
<1>1. Holding(r) /\ Holders' = Holders \ {r}
  BY HoldersAre, InsideIs DEF Typing, Timeout, Timed, Holding, Admitted, SaysTimeout
<1>2. Cardinality(Holders') = inFlight - 1 /\ inFlight - 1 \in Nat
  BY <1>1, OneLess
<1>3. inFlight' = inFlight - 1 /\ inFlight - 1 <= MaxInFlight
  BY PipelineAssumption DEF Timeout, SlotInv, Typing
<1>4. \A q \in Requests : at'[q] \in {"new", "cors", "shed"} => reply'[q] = 0
  BY StageSetIs, InsideIs DEF Typing, SlotInv, Timeout, Timed, Inside
<1> QED
  BY <1>2, <1>3, <1>4 DEF SlotInv

\* Types of what each step writes besides the stage, the reply and the count.
LEMMA EffectsTyped ==
    ASSUME Typing, NEW r \in Requests, Step(r)
    PROVE  /\ principal' \in [Requests -> {"none", "user", "service"}]
           /\ claimed' \subseteq {"s1", "s2"}
           /\ judged' \in [Requests -> Records \cup {Gone, Unread}]
           /\ resource' \in [Requests -> Records \cup {Gone, Unread}]
           /\ charged' \in [Requests -> SUBSET Limiters]
           /\ parsed' \subseteq Requests /\ ran' \subseteq Requests /\ unanswered' \subseteq Requests
           /\ UNCHANGED <<config, req, record>>
<1> DEFINE Goal ==
           /\ principal' \in [Requests -> {"none", "user", "service"}]
           /\ claimed' \subseteq {"s1", "s2"}
           /\ judged' \in [Requests -> Records \cup {Gone, Unread}]
           /\ resource' \in [Requests -> Records \cup {Gone, Unread}]
           /\ charged' \in [Requests -> SUBSET Limiters]
           /\ parsed' \subseteq Requests /\ ran' \subseteq Requests /\ unanswered' \subseteq Requests
           /\ UNCHANGED <<config, req, record>>
<1> USE DEF Typing, Asks, Effects
<1>1. CASE Arrive(r) \/ Cors(r) \/ Shed(r) \/ HeaderGuards(r) \/ Csrf(r) \/ Authorize(r)
           \/ Respond(r) \/ Throw(r)
  BY <1>1 DEF Arrive, Cors, Shed, HeaderGuards, Csrf, Authorize, Respond, Throw
<1>2. CASE RateLimitPerIp(r) \/ RateLimitPerPrincipal(r)
  <2>1. \/ charged' = charged
        \/ \E l \in Limiters : charged' = [charged EXCEPT ![r] = @ \cup {l}]
    BY <1>2 DEF RateLimitPerIp, RateLimitPerPrincipal, Charge, Limiters
  <2>2. charged' \in [Requests -> SUBSET Limiters]
    BY <2>1
  <2> QED
    BY <1>2, <2>2 DEF RateLimitPerIp, RateLimitPerPrincipal
<1>3. CASE BodyGuards(r) \/ Handler(r)
  BY <1>3 DEF BodyGuards, Handler
<1>4. CASE Authenticate(r)
  BY <1>4 DEF Authenticate
<1>5. CASE VerifySignature(r)
  <2>1. \/ UNCHANGED <<principal, claimed, unanswered>>
        \/ /\ req[r].signature \notin {"none", "bad"}
           /\ claimed' = claimed \/ claimed' = claimed \cup {req[r].signature}
           /\ principal' = principal \/ principal' = [principal EXCEPT ![r] = "service"]
           /\ unanswered' = unanswered \/ unanswered' = unanswered \cup {r}
    BY <1>5 DEF VerifySignature, Verified, Serve, LoseClaim
  <2>2. req[r].signature \in {"none", "bad", "s1", "s2"}
    BY DEF Request
  <2> QED
    BY <1>5, <2>1, <2>2 DEF VerifySignature
<1>6. CASE Policy(r)
  <2>1. Load(r) \in Records \cup {Gone, Unread}
    BY DEF Load
  <2>2. \/ UNCHANGED <<judged, resource>>
        \/ /\ judged' = [judged EXCEPT ![r] = Load(r)]
           /\ resource' = [resource EXCEPT ![r] = Load(r)]
    BY <1>6 DEF Policy
  <2> QED
    BY <1>6, <2>1, <2>2 DEF Policy
<1> QED
  BY <1>1, <1>2, <1>3, <1>4, <1>5, <1>6 DEF Step

LEMMA ShapeTyped ==
    ASSUME Typing, NEW r \in Requests, Ends(r) \/ Advances(r) \/ Admits(r) \/ Stays(r)
    PROVE  /\ at' \in [Requests -> StageSet \cup {"new", "over"}]
           /\ reply' \in [Requests -> Statuses]
BY StageSetIs DEF Typing, Ends, Advances, Admits, Stays, Answer, Inside

\* Inductive by itself.
SlotsInv == Typing /\ SlotInv

LEMMA InitSlots == Init => SlotsInv
<1> SUFFICES ASSUME Init PROVE SlotsInv
  OBVIOUS
<1> USE DEF Init, Start
<1>1. Typing
  BY DEF Typing, Statuses, Limiters
<1>2. Holders = {}
  BY HoldersAre DEF Inside
<1>3. SlotInv
  BY <1>2, FS_EmptySet, PipelineAssumption DEF SlotInv
<1> QED
  BY <1>1, <1>3 DEF SlotsInv

LEMMA NextSlots == SlotsInv /\ [Next]_vars => SlotsInv'
<1> SUFFICES ASSUME Typing, SlotInv, [Next]_vars PROVE Typing' /\ SlotInv'
  BY DEF SlotsInv
<1>0. CASE UNCHANGED vars
  <2>1. Holders' = Holders
    BY <1>0, HoldersAre DEF vars
  <2> QED
    BY <1>0, <2>1 DEF vars, Typing, SlotInv
<1>1. ASSUME NEW r \in Requests, Step(r) PROVE Typing' /\ SlotInv'
  <2>1. Ends(r) \/ Advances(r) \/ Admits(r) \/ Stays(r)
    BY <1>1, StepEnds
  <2>2. SlotInv' /\ inFlight' \in Nat
    BY <2>1, EndSlots, AdvanceSlots, AdmitSlots, StaySlots
  <2>3. Typing'
    BY <1>1, <2>1, <2>2, EffectsTyped, ShapeTyped DEF Typing
  <2> QED
    BY <2>2, <2>3
<1>2. ASSUME NEW r \in Requests, Timeout(r) PROVE Typing' /\ SlotInv'
  <2>1. SlotInv' /\ inFlight' \in Nat
    BY <1>2, TimeoutSlots
  <2> QED
    BY <1>2, <2>1 DEF Timeout, Typing, Asks, Effects, Statuses, SaysTimeout
<1>3. ASSUME NEW o \in Records \cup {Gone}, Change(o) PROVE Typing' /\ SlotInv'
  <2>1. Holders' = Holders
    BY <1>3, HoldersAre DEF Change
  <2> QED
    BY <1>3, <2>1 DEF Change, Typing, SlotInv, Effects
<1> QED
  BY <1>0, <1>1, <1>2, <1>3 DEF Next

\* Every variable keeps its type, and the shedder its bound.
THEOREM TypeCorrect == Spec => []TypeOK
<1>1. SlotsInv => TypeOK
  BY PipelineAssumption DEF SlotsInv, Typing, SlotInv, TypeOK
<1> QED
  BY <1>1, InitSlots, NextSlots, PTL DEF Spec

\* No slot leaks and none is freed twice, whichever of a stage, an error or
\* the timer answers.
THEOREM SlotsStayExact == Spec => []SlotsAreExact
<1>1. SlotsInv => SlotsAreExact
  BY DEF SlotsInv, SlotInv, SlotsAreExact, Holders
<1> QED
  BY <1>1, InitSlots, NextSlots, PTL DEF Spec

-----------------------------------------------------------------------------

\* The stages behind a guard; a request whose handler ran has passed them all.
AfterCors == Inside \cup {"shed"}
AfterPerIp == Inside \ {"headerGuards", "perIp"}
AfterAuthenticate == AfterPerIp \ {"bodyGuards", "authenticate"}
AfterSignature == AfterAuthenticate \ {"verifySignature"}
AfterCsrf == AfterSignature \ {"csrf"}
AfterPrincipal == AfterCsrf \ {"perPrincipal"}
Behind == {"policyAgain", "authorize", "handler"}

Passed(r, S) == at[r] \in S \/ r \in ran

\* A caller is told nothing, or of the timeout, before the end.
Told(r) ==
    /\ at[r] \in StageSet \cup {"new"} => reply[r] \in {0, 504}
    /\ r \in ran => at[r] \in {"handler", "over"} /\ reply[r] \in {0} \cup HandlersOwn

\* Transport and tokens.
Paid(r) ==
    /\ at[r] = "cors" => req[r].https \/ req[r].preflight
    /\ Passed(r, AfterCors) => req[r].https /\ ~req[r].preflight
    /\ Passed(r, AfterPerIp) /\ Limited("perIp") => "perIp" \in charged[r]
    /\ Passed(r, AfterPrincipal) /\ principal[r] # "none" /\ Limited("perPrincipal")
          => "perPrincipal" \in charged[r]

\* Who the request is, and what that took.
Proven(r) ==
    /\ at[r] \notin AfterAuthenticate \cup {"over"} => principal[r] = "none"
    /\ at[r] = "verifySignature" => principal[r] # "service"
    /\ principal[r] = "user" => CookieAuthenticated(Op(r))
    /\ principal[r] = "service" => Signed(Op(r))
    /\ Passed(r, AfterAuthenticate) /\ CookieAuthenticated(Op(r))
          /\ "anonymous" \notin Schemes(Op(r)) => principal[r] = "user"
    /\ Passed(r, AfterSignature) /\ Signed(Op(r)) => principal[r] = "service"

\* What csrf asks.
OwnSite(r) ==
    Passed(r, AfterCsrf) /\ principal[r] = "user" /\ ~ReadOnly(Op(r))
        => req[r].token /\ ~req[r].crossSite

\* What the slot and the hook ask of the caller.
Granted(r) ==
    /\ at[r] \in Behind => Served(r) # "none"
    /\ Passed(r, {"handler"}) /\ "anonymous" \notin Schemes(Served(r)) => principal[r] # "none"

Satisfied(r) ==
    LET holds == resource[r] \cap {"tenant", "owner"}
    IN  IF req[r].slot = "all" THEN holds = {"tenant", "owner"} ELSE holds # {}

\* What the slot has judged so far.
Judged(r) ==
    Owned(Served(r)) =>
        /\ at[r] = "policyAgain" /\ req[r].slot = "all" => "tenant" \in judged[r]
        /\ at[r] \in {"authorize", "handler"} => Satisfied(r)

\* Services whose nonce is tracked have signatures of their own.
Nonces ==
    /\ \A r \in Requests :
          principal[r] = "service" /\ NeedsNonce(Op(r)) =>
             IF "nonce" \in config.stores THEN req[r].signature \in claimed
             ELSE Unprotected(Op(r))
    /\ \A s \in claimed : \E q \in Requests :
          (principal[q] = "service" \/ q \in unanswered) /\ req[q].signature = s
    /\ \A q, r \in Requests :
          /\ q # r /\ "nonce" \in config.stores
          /\ principal[r] = "service" /\ NeedsNonce(Op(r))
          /\ principal[q] = "service" /\ NeedsNonce(Op(q))
          => req[q].signature # req[r].signature

\* NoSilentOutage, which is inductive relative to the rest.
Refusals ==
    Accepted(Registry, config) =>
        \A r \in Requests :
            reply[r] = 401 =>
                \/ Unproven(r) \/ r \in unanswered
                \/ (Forced(Op(r)) /\ "nonce" \notin config.stores)

RequestInv(r) == Told(r) /\ Paid(r) /\ Proven(r) /\ OwnSite(r) /\ Granted(r) /\ Judged(r)

\* A step of one request leaves the others where they are.
LEMMA OthersStay ==
    ASSUME Typing, NEW r \in Requests, Step(r), NEW q \in Requests, q # r
    PROVE  /\ at'[q] = at[q] /\ reply'[q] = reply[q] /\ principal'[q] = principal[q]
           /\ charged'[q] = charged[q] /\ judged'[q] = judged[q]
           /\ resource'[q] = resource[q] /\ (q \in ran' <=> q \in ran)
           /\ (q \in parsed' <=> q \in parsed) /\ (q \in unanswered' <=> q \in unanswered)
           /\ UNCHANGED <<config, req>>
<1> USE DEF Typing, Asks, Effects
<1>1. UNCHANGED <<config, req>>
  BY EffectsTyped
<1>2. at'[q] = at[q] /\ reply'[q] = reply[q]
  BY StepEnds DEF Ends, Advances, Admits, Stays, Answer
<1>3. CASE Arrive(r) \/ Cors(r) \/ Shed(r) \/ HeaderGuards(r) \/ Csrf(r) \/ Authorize(r)
           \/ Respond(r) \/ Throw(r)
  BY <1>1, <1>2, <1>3 DEF Arrive, Cors, Shed, HeaderGuards, Csrf, Authorize, Respond, Throw
<1>4. CASE RateLimitPerIp(r) \/ RateLimitPerPrincipal(r)
  BY <1>1, <1>2, <1>4 DEF RateLimitPerIp, RateLimitPerPrincipal, Charge
<1>5. CASE BodyGuards(r) \/ Handler(r) \/ Authenticate(r) \/ VerifySignature(r)
  BY <1>1, <1>2, <1>5 DEF BodyGuards, Handler, Authenticate, VerifySignature, Serve, LoseClaim
<1>6. CASE Policy(r)
  BY <1>1, <1>2, <1>6 DEF Policy
<1> QED
  BY <1>3, <1>4, <1>5, <1>6 DEF Step

LEMMA OthersKeep ==
    ASSUME Typing, NEW r \in Requests, Step(r), NEW q \in Requests, q # r, RequestInv(q)
    PROVE  RequestInv(q)'
BY OthersStay DEF RequestInv, Told, Paid, Proven, OwnSite, Granted, Judged, Satisfied,
                  Passed, Limited, Op, Served

\* A request that ends keeps what was said of it.
LEMMA EndKeeps ==
    ASSUME Typing, NEW r \in Requests, Ends(r), RequestInv(r),
           UNCHANGED <<config, req, principal, ran>>, charged[r] \subseteq charged'[r],
           at[r] # "handler"
    PROVE  RequestInv(r)'
BY StageSetIs DEF Typing, Ends, Answer, RequestInv, Told, Paid, Proven, OwnSite,
  Granted, Judged,
      Passed, Limited, Op, Served, AfterCors, AfterPerIp, AfterAuthenticate,
      AfterSignature, AfterCsrf, AfterPrincipal, Behind, Inside

LEMMA ChargeGrows ==
    ASSUME Typing, NEW r \in Requests, NEW limiter, Charge(r, limiter)
    PROVE  charged[r] \subseteq charged'[r]
BY DEF Charge, Typing

\* A limiter that is on and lets a request by has taken a token.
LEMMA ChargePaid ==
    ASSUME Typing, NEW r \in Requests, NEW limiter \in Limiters,
           Charge(r, limiter), at'[r] # "over"
    PROVE  /\ Limited(limiter) => limiter \in charged'[r]
           /\ charged[r] \subseteq charged'[r]
<1>1. ~Answer(r, 429) /\ ~Answer(r, 500)
  BY DEF Answer, Typing
<1>2. \/ ~Limited(limiter) /\ charged' = charged
      \/ charged' = [charged EXCEPT ![r] = @ \cup {limiter}]
  BY <1>1 DEF Charge
<1> QED
  BY <1>2 DEF Typing

\* What was said of a request holds of it after each of its own steps.
LEMMA StepKeeps ==
    ASSUME Typing, SlotInv, NEW r \in Requests, Step(r), RequestInv(r)
    PROVE  RequestInv(r)'
<1> USE StageSetIs, NextStage DEF Typing, RequestInv, Told, Paid, Proven, OwnSite,
  Granted, Judged,
      Passed, Limited, Op, Served, AfterCors, AfterPerIp, AfterAuthenticate,
      AfterSignature, AfterCsrf, AfterPrincipal, Behind, Inside, Asks, Effects
<1>1. CASE Arrive(r)
  <2>1. CASE Answer(r, 400)
    BY <1>1, <2>1, EndKeeps DEF Arrive, Ends, Statuses
  <2> QED
    BY <1>1, <2>1 DEF Arrive, SlotInv
<1>2. CASE Cors(r)
  <2>1. CASE Answer(r, 204)
    BY <1>2, <2>1, EndKeeps DEF Cors, Ends, Statuses
  <2> QED
    BY <1>2, <2>1 DEF Cors, Pass
<1>3. CASE Shed(r)
  <2>1. CASE Answer(r, 503)
    BY <1>3, <2>1, EndKeeps DEF Shed, Ends, Statuses
  <2> QED
    BY <1>3, <2>1 DEF Shed
<1>4. CASE HeaderGuards(r)
  <2>1. CASE Pass(r)
    BY <1>4, <2>1 DEF HeaderGuards, Pass
  <2> QED
    BY <1>4, <2>1, EndKeeps DEF HeaderGuards, Ends, Statuses
<1>5. CASE RateLimitPerIp(r)
  <2>1. CASE Pass(r)
    <3>1. /\ at[r] = "perIp" /\ at'[r] = "bodyGuards" /\ reply'[r] = reply[r]
          /\ Limited("perIp") => "perIp" \in charged'[r]
          /\ charged[r] \subseteq charged'[r]
          /\ UNCHANGED <<config, req, principal, judged, resource, ran>>
      <4>1. Charge(r, "perIp") /\ "perIp" \in Limiters /\ at[r] = "perIp"
        BY <1>5 DEF RateLimitPerIp, Limiters
      <4>2. at'[r] = "bodyGuards"
        BY <2>1, <4>1 DEF Pass
      <4>3. /\ Limited("perIp") => "perIp" \in charged'[r]
            /\ charged[r] \subseteq charged'[r]
        BY <4>1, <4>2, ChargePaid
      <4> QED
        BY <1>5, <2>1, <4>1, <4>2, <4>3 DEF RateLimitPerIp, Pass
    <3> QED
      BY <3>1
  <2>2. CASE ~Pass(r)
    <3>1. Ends(r)
      BY <1>5, <2>2 DEF RateLimitPerIp, Ends, Statuses, Charge
    <3>2. charged[r] \subseteq charged'[r] /\ UNCHANGED <<config, req, principal, ran>>
      BY <1>5, ChargeGrows DEF RateLimitPerIp
    <3> QED
      BY <1>5, <3>1, <3>2, EndKeeps DEF RateLimitPerIp
  <2> QED
    BY <2>1, <2>2
<1>6. CASE BodyGuards(r)
  <2>1. CASE Pass(r)
    BY <1>6, <2>1 DEF BodyGuards, Pass
  <2> QED
    BY <1>6, <2>1, EndKeeps DEF BodyGuards, Ends, Statuses
<1>7. CASE Authenticate(r)
  <2>1. CASE Pass(r)
    <3>1. /\ at[r] = "authenticate" /\ at'[r] = "verifySignature" /\ reply'[r] = reply[r]
          /\ UNCHANGED <<config, req, charged, judged, resource, ran>>
      BY <1>7, <2>1 DEF Authenticate, Pass
    <3>2. \/ /\ principal'[r] = "none"
             /\ CookieAuthenticated(Op(r)) => "anonymous" \in Schemes(Op(r))
          \/ principal'[r] = "user" /\ CookieAuthenticated(Op(r))
      <4>1. principal[r] = "none"
        BY <3>1
      <4> HIDE DEF Op
      <4> QED
        BY <1>7, <2>1, <4>1, <3>1 DEF Authenticate, DenyOrClear, Deny, Unauthorized, Answer
    <3> QED
      BY <3>1, <3>2
  <2> QED
    BY <1>7, <2>1, EndKeeps DEF Authenticate, Ends, Statuses, DenyOrClear, Deny,
      Unauthorized
<1>8. CASE VerifySignature(r)
  <2>1. CASE Pass(r)
    <3>1. /\ at[r] = "verifySignature" /\ at'[r] = "csrf" /\ reply'[r] = reply[r]
          /\ UNCHANGED <<config, req, charged, judged, resource, ran>>
      BY <1>8, <2>1 DEF VerifySignature, Pass
    <3>2. \/ principal'[r] = principal[r] /\ ~Signed(Op(r))
          \/ principal'[r] = "service" /\ Signed(Op(r))
      BY <1>8, <2>1, <3>1 DEF VerifySignature, Serve, LoseClaim, Unauthorized, Answer
    <3>3. CookieAuthenticated(Op(r)) => ~Signed(Op(r))
      BY DEF CookieAuthenticated, Signed
    <3> QED
      BY <3>1, <3>2, <3>3
  <2> QED
    BY <1>8, <2>1, EndKeeps DEF VerifySignature, Serve, LoseClaim, Ends, Statuses, Unauthorized
<1>9. CASE Csrf(r)
  <2>1. CASE Pass(r)
    <3>1. /\ at[r] = "csrf" /\ at'[r] = "perPrincipal" /\ reply'[r] = reply[r]
          /\ UNCHANGED <<config, req, principal, charged, judged, resource, ran>>
      BY <1>9, <2>1 DEF Csrf, Pass
    <3>2. principal[r] = "user" /\ ~ReadOnly(Op(r)) => req[r].token /\ ~req[r].crossSite
      BY <1>9, <2>1, <3>1 DEF Csrf, Answer, CsrfChecked, CsrfApplies
    <3> QED
      BY <3>1, <3>2
  <2> QED
    BY <1>9, <2>1, EndKeeps DEF Csrf, Ends, Statuses
<1>10. CASE RateLimitPerPrincipal(r)
  <2>1. CASE Pass(r)
    <3>1. /\ at[r] = "perPrincipal" /\ at'[r] = "policy" /\ reply'[r] = reply[r]
          /\ principal[r] # "none" /\ Limited("perPrincipal") => "perPrincipal" \in charged'[r]
          /\ charged[r] \subseteq charged'[r]
          /\ UNCHANGED <<config, req, principal, judged, resource, ran>>
      <4>1. at[r] = "perPrincipal" /\ at'[r] = "policy" /\ "perPrincipal" \in Limiters
        BY <1>10, <2>1 DEF RateLimitPerPrincipal, Pass, Limiters
      <4>2. /\ principal[r] # "none" /\ Limited("perPrincipal") => "perPrincipal" \in charged'[r]
            /\ charged[r] \subseteq charged'[r]
        <5>1. CASE principal[r] = "none"
          BY <1>10, <5>1 DEF RateLimitPerPrincipal
        <5>2. CASE principal[r] # "none"
          BY <1>10, <4>1, <5>2, ChargePaid DEF RateLimitPerPrincipal
        <5> QED
          BY <5>1, <5>2
      <4> QED
        BY <1>10, <2>1, <4>1, <4>2 DEF RateLimitPerPrincipal, Pass
    <3> QED
      BY <3>1
  <2>2. CASE ~Pass(r)
    <3>1. Ends(r)
      BY <1>10, <2>2 DEF RateLimitPerPrincipal, Ends, Statuses, Charge
    <3>2. charged[r] \subseteq charged'[r] /\ UNCHANGED <<config, req, principal, ran>>
      BY <1>10, ChargeGrows DEF RateLimitPerPrincipal
    <3> QED
      BY <1>10, <3>1, <3>2, EndKeeps DEF RateLimitPerPrincipal
  <2> QED
    BY <2>1, <2>2
<1>11. CASE Policy(r)
  <2>1. CASE Ends(r)
    BY <1>11, <2>1, EndKeeps DEF Policy
  <2>2. CASE ~Ends(r)
    <3>1. \A status \in Statuses \ {0} : ~Answer(r, status)
      BY <1>11, <2>2 DEF Policy, Ends
    <3>2. Served(r) # "none" /\ (Owned(Served(r)) => principal[r] # "none")
      BY <1>11, <3>1 DEF Policy, Statuses
    <3>3. /\ UNCHANGED <<config, req, principal, charged, ran>>
          /\ at[r] \in {"policy", "policyAgain"}
      BY <1>11 DEF Policy
    <3>4. CASE ~Owned(Served(r))
      <4>1. Pass(r)
        BY <1>11, <3>2, <3>4 DEF Policy
      <4>2. at'[r] \in Behind \ {"handler"} /\ reply'[r] = reply[r]
        BY <3>3, <4>1 DEF Pass
      <4> QED
        BY <3>2, <3>3, <3>4, <4>2
    <3>5. CASE Owned(Served(r))
      <4> DEFINE loaded == Load(r)
      <4>1. Combine(r, loaded) /\ judged'[r] = loaded /\ resource'[r] = loaded
        BY <1>11, <3>2, <3>5 DEF Policy
      <4>2. at[r] = "policyAgain" /\ req[r].slot = "all" => "tenant" \in loaded
        BY <3>5 DEF Load, Unread
      <4>3. req[r].slot \in {"all", "any"}
        BY DEF Request
      <4> HIDE DEF loaded
      <4>4. CASE req[r].slot = "any"
        <5>1. \/ Allows(at[r], loaded) /\ at'[r] = "authorize" /\ reply'[r] = reply[r]
              \/ at[r] = "policy" /\ at'[r] = "policyAgain" /\ reply'[r] = reply[r]
          BY <3>1, <3>3, <4>1, <4>4 DEF Combine, Pass, Statuses
        <5> QED
          BY <3>2, <3>3, <4>1, <4>4, <5>1 DEF Allows, Satisfied
      <4>5. CASE req[r].slot = "all"
        <5>1. Allows(at[r], loaded) /\ Pass(r)
          BY <3>1, <3>3, <4>1, <4>5 DEF Combine, Statuses
        <5>2. /\ reply'[r] = reply[r]
              /\ at[r] = "policy" => at'[r] = "policyAgain"
              /\ at[r] = "policyAgain" => at'[r] = "authorize"
          BY <3>3, <5>1 DEF Pass
        <5> QED
          BY <3>2, <3>3, <4>1, <4>2, <4>5, <5>1, <5>2 DEF Allows, Satisfied
      <4> QED
        BY <4>3, <4>4, <4>5
    <3> QED
      BY <3>4, <3>5
  <2> QED
    BY <2>1, <2>2
<1>12. CASE Authorize(r)
  <2>1. CASE Pass(r)
    <3>1. /\ at[r] = "authorize" /\ at'[r] = "handler" /\ reply'[r] = reply[r]
          /\ UNCHANGED <<config, req, principal, charged, judged, resource, ran>>
      BY <1>12, <2>1 DEF Authorize, Pass
    <3>2. "anonymous" \notin Schemes(Served(r)) => principal[r] # "none"
      <4>1. ~Answer(r, 401)
        BY <3>1 DEF Answer
      <4> HIDE DEF Served
      <4> QED
        BY <1>12, <4>1 DEF Authorize
    <3>3. Served(r)' = Served(r) /\ Op(r)' = Op(r)
      BY <3>1
    <3>4. Granted(r)'
      BY <3>1, <3>2, <3>3
    <3>5. Judged(r)'
      BY <3>1, <3>3 DEF Satisfied
    <3>6. Told(r)' /\ Paid(r)'
      BY <3>1
    <3>7. Proven(r)' /\ OwnSite(r)'
      BY <3>1, <3>3
    <3> QED
      BY <3>4, <3>5, <3>6, <3>7
  <2> QED
    BY <1>12, <2>1, EndKeeps DEF Authorize, Ends, Statuses
<1>13. CASE Handler(r)
  <2>1. /\ at[r] = "handler" /\ at'[r] = at[r] /\ reply'[r] = reply[r]
        /\ UNCHANGED <<config, req, principal, charged, judged, resource>>
    BY <1>13 DEF Handler
  <2>2. Told(r)'
    BY <2>1 DEF HandlersOwn
  <2>3. Paid(r)' /\ OwnSite(r)'
    BY <2>1
  <2>4. Proven(r)' /\ Granted(r)' /\ Judged(r)'
    BY <2>1 DEF Satisfied
  <2> QED
    BY <2>2, <2>3, <2>4
<1>14. CASE Respond(r)
  <2>1. /\ at[r] = "handler" /\ at'[r] = "over"
        /\ reply'[r] \in {reply[r]} \cup HandlersOwn
        /\ UNCHANGED <<config, req, principal, charged, judged, resource, ran>>
    BY <1>14 DEF Respond, Answer, HandlersOwn
  <2>2. Told(r)'
    BY <2>1 DEF HandlersOwn
  <2>3. Paid(r)' /\ OwnSite(r)'
    BY <2>1
  <2>4. Proven(r)' /\ Granted(r)' /\ Judged(r)'
    BY <2>1
  <2> QED
    BY <2>2, <2>3, <2>4
<1>15. CASE Throw(r)
    BY <1>15, EndKeeps DEF Throw, Ends, Statuses
<1> QED
  BY <1>1, <1>2, <1>3, <1>4, <1>5, <1>6, <1>7, <1>8, <1>9, <1>10, <1>11, <1>12,
     <1>13, <1>14, <1>15 DEF Step

-----------------------------------------------------------------------------

\* An operation that is matched is one of the registry's.
LEMMA OpIs ==
    ASSUME Typing, NEW r \in Requests
    PROVE  Op(r) \in Ops /\ Served(r) = Op(r)
BY RoutesAgree DEF Typing, Request, Op, Served

\* What an accepted configuration gives the guards of an operation.
LEMMA AcceptedServes ==
    ASSUME Accepted(Registry, config), NEW op \in Ops
    PROVE  /\ CookieAuthenticated(op) => "session" \in config.stores
           /\ Signed(op) => "secrets" \in config.stores
           /\ Signed(op) /\ ~ReadOnly(op) => "nonce" \in config.stores
           /\ \A late \in Late : ~late
<1>1. \A o \in Registry : /\ "oidc" \in o.schemes => "session" \in config.stores
                          /\ "sigv4Hmac" \in o.schemes => "secrets" \in config.stores
                          /\ "sigv4Hmac" \in o.schemes /\ ~o.readonly
                                => "nonce" \in config.stores
  BY DEF Accepted, StoresFit
<1>2. op # "none" => [schemes |-> Schemes(op), readonly |-> ReadOnly(op)] \in Registry
  BY DEF Registry
<1>3. op = "none" => ~CookieAuthenticated(op) /\ ~Signed(op)
  BY DEF CookieAuthenticated, Signed, Schemes
<1>4. CookieAuthenticated(op) => "oidc" \in Schemes(op)
  BY DEF CookieAuthenticated, Schemes, Ops
<1>5. \A s \in config.signing : s.window \in 1..LongestWindow
  BY DEF Accepted, WindowFits
<1>6. \A late \in Late : ~late
  <2>1. /\ ~(\E s \in config.signing : s.window <= 0)
        /\ ~(\E s \in config.signing : s.window < 0)
    <3>1. \A w \in 1..LongestWindow : ~(w <= 0) /\ ~(w < 0)
      BY DEF LongestWindow
    <3> QED
      BY <1>5, <3>1, Zenon
  <2> QED
    BY <2>1, Zenon DEF Late
<1> QED
  BY <1>1, <1>2, <1>3, <1>4, <1>6 DEF Signed

\* Nobody but verifySignature makes a service or claims a nonce.
LEMMA ServicesStay ==
    ASSUME Typing, NEW r \in Requests, Step(r), Proven(r), ~VerifySignature(r)
    PROVE  /\ claimed' = claimed /\ unanswered' = unanswered
           /\ \A q \in Requests : principal'[q] = "service" <=> principal[q] = "service"
<1> USE DEF Typing, Asks, Effects
<1>1. CASE Arrive(r) \/ Cors(r) \/ Shed(r) \/ HeaderGuards(r) \/ Csrf(r) \/ Authorize(r)
           \/ Respond(r) \/ Throw(r) \/ Policy(r)
  BY <1>1 DEF Arrive, Cors, Shed, HeaderGuards, Csrf, Authorize, Respond, Throw, Policy
<1>2. CASE RateLimitPerIp(r) \/ RateLimitPerPrincipal(r) \/ BodyGuards(r) \/ Handler(r)
  BY <1>2 DEF RateLimitPerIp, RateLimitPerPrincipal, BodyGuards, Handler
<1>3. CASE Authenticate(r)
  <2>1. principal[r] = "none"
    BY <1>3, StageSetIs DEF Authenticate, Proven, AfterAuthenticate, AfterPerIp, Inside
  <2>2. /\ claimed' = claimed /\ unanswered' = unanswered
        /\ principal' = principal \/ principal' = [principal EXCEPT ![r] = "user"]
    BY <1>3 DEF Authenticate
  <2> QED
    BY <2>1, <2>2
<1> QED
  BY <1>1, <1>2, <1>3 DEF Step

\* Services stay services, and a claim that went unanswered has.
KnownStay ==
    /\ \A q \in Requests : principal[q] = "service" => principal'[q] = "service"
    /\ unanswered \subseteq unanswered'

LEMMA VerifyNonces ==
    ASSUME Typing, Nonces, NEW r \in Requests, VerifySignature(r), Proven(r)
    PROVE  Nonces' /\ KnownStay
<1> USE DEF Typing, Asks
<1>1. principal[r] # "service" /\ UNCHANGED <<config, req>>
  BY DEF VerifySignature, Proven
<1>2. \A q \in Requests : NeedsNonce(Op(q))' = NeedsNonce(Op(q))
                          /\ Unprotected(Op(q))' = Unprotected(Op(q))
  BY <1>1 DEF NeedsNonce, Forced, Exempt, Unprotected, Op
<1>3. CASE UNCHANGED <<principal, claimed, unanswered>>
  BY <1>1, <1>2, <1>3 DEF Nonces, KnownStay
<1>4. CASE LoseClaim(r)
  <2>1. /\ claimed' = claimed \cup {req[r].signature}
        /\ unanswered' = unanswered \cup {r} /\ principal' = principal
    BY <1>4 DEF LoseClaim
  <2>2. \A s \in claimed' : s \in claimed \/ s = req[r].signature
    BY <2>1
  <2>3. \A s \in claimed' : \E q \in Requests :
            (principal'[q] = "service" \/ q \in unanswered') /\ req[q].signature = s
    BY <2>1, <2>2 DEF Nonces
  <2> QED
    BY <1>1, <1>2, <2>1, <2>3 DEF Nonces, KnownStay
<1>5. ASSUME NEW late \in Late, Verified(r, late), Serve(r)
      PROVE  Nonces' /\ KnownStay
  <2>2. /\ claimed' = IF Claims(r) THEN claimed \cup {req[r].signature} ELSE claimed
        /\ principal' = [principal EXCEPT ![r] = "service"]
        /\ unanswered' = unanswered
    BY <1>5 DEF Serve
  <2>4. \A q \in Requests : principal'[q] = "service" <=> q = r \/ principal[q] = "service"
    BY <2>2
  <2>5. NeedsNonce(Op(r)) =>
           IF "nonce" \in config.stores
           THEN req[r].signature \notin claimed /\ claimed' = claimed \cup {req[r].signature}
           ELSE Unprotected(Op(r))
    BY <1>5, <2>2 DEF Verified, Claims
  <2>6. \A s \in claimed' : s \in claimed \/ s = req[r].signature
    BY <2>2
  <2>7. claimed \subseteq claimed'
    BY <2>2
  <2>8. \A q \in Requests :
            principal'[q] = "service" /\ NeedsNonce(Op(q)) =>
               IF "nonce" \in config.stores THEN req[q].signature \in claimed'
               ELSE Unprotected(Op(q))
    BY <2>4, <2>5, <2>7 DEF Nonces
  <2>9. \A s \in claimed' : \E q \in Requests :
            (principal'[q] = "service" \/ q \in unanswered') /\ req[q].signature = s
    BY <2>2, <2>4, <2>6 DEF Nonces
  <2>10. \A q, p \in Requests :
            /\ q # p /\ "nonce" \in config.stores
            /\ principal'[p] = "service" /\ NeedsNonce(Op(p))
            /\ principal'[q] = "service" /\ NeedsNonce(Op(q))
            => req[q].signature # req[p].signature
    BY <2>4, <2>5 DEF Nonces
  <2> QED
    BY <1>1, <1>2, <2>2, <2>4, <2>8, <2>9, <2>10 DEF Nonces, KnownStay
<1> QED
  BY <1>3, <1>4, <1>5 DEF VerifySignature

LEMMA StepNonces ==
    ASSUME Typing, Nonces, NEW r \in Requests, Step(r), Proven(r)
    PROVE  Nonces' /\ KnownStay
<1>1. CASE VerifySignature(r)
  BY <1>1, VerifyNonces
<1>2. CASE ~VerifySignature(r)
  BY <1>2, ServicesStay, EffectsTyped DEF Nonces, NeedsNonce, Forced, Exempt,
    Unprotected, Op, KnownStay
<1> QED
  BY <1>1, <1>2

\* Once unproven, a request stays so.
LEMMA UnprovenStays ==
    ASSUME Typing, NEW r \in Requests, Unproven(r), UNCHANGED <<config, req>>, KnownStay
    PROVE  Unproven(r)'
BY DEF Unproven, Op, KnownStay

\* Whoever is refused as unauthenticated under an accepted configuration has
\* not proven itself.
LEMMA RefusedForCause ==
    ASSUME Typing, Nonces, NEW r \in Requests, RequestInv(r), Step(r),
           reply[r] = 0, reply'[r] = 401, Accepted(Registry, config)
    PROVE  \/ Unproven(r) \/ r \in unanswered'
           \/ (Forced(Op(r)) /\ "nonce" \notin config.stores)
<1>op. Op(r) \in Ops /\ Served(r) = Op(r)
  BY OpIs
<1>st. /\ CookieAuthenticated(Op(r)) => "session" \in config.stores
       /\ Signed(Op(r)) => "secrets" \in config.stores
       /\ Signed(Op(r)) /\ ~ReadOnly(Op(r)) => "nonce" \in config.stores
       /\ \A late \in Late : ~late
  BY <1>op, AcceptedServes
<1>pass. ~Pass(r) /\ ~UNCHANGED reply /\ \A status \in Statuses \ {0, 401} : ~Answer(r, status)
  BY DEF Pass, Answer, Typing, Statuses
<1>ck. CookieAuthenticated(Op(r)) => ~Signed(Op(r))
  BY DEF CookieAuthenticated, Signed
<1>no. ASSUME principal[r] = "none", at[r] \in AfterSignature PROVE Op(r) \in {"open", "none"}
  <2>1. ~Signed(Op(r)) /\ (CookieAuthenticated(Op(r)) => "anonymous" \in Schemes(Op(r)))
    BY <1>no, StageSetIs DEF RequestInv, Proven, Passed, AfterSignature,
      AfterAuthenticate, AfterPerIp, Inside
  <2> QED
    BY <2>1, <1>op DEF Signed, CookieAuthenticated, Schemes, Ops
<1>1. CASE Arrive(r) \/ Cors(r) \/ Shed(r) \/ HeaderGuards(r) \/ Csrf(r) \/ Handler(r)
           \/ Respond(r) \/ Throw(r)
  BY <1>1, <1>pass DEF Arrive, Cors, Shed, HeaderGuards, Csrf, Handler, Respond, Throw, Statuses
<1>2. CASE RateLimitPerIp(r) \/ RateLimitPerPrincipal(r) \/ BodyGuards(r)
  BY <1>2, <1>pass DEF RateLimitPerIp, RateLimitPerPrincipal, Charge, BodyGuards, Statuses
<1>3. CASE Authenticate(r)
  <2>1. CookieAuthenticated(Op(r))
    BY <1>3, <1>pass DEF Authenticate
  <2>2. req[r].cookie # "live"
    BY <1>3, <1>pass, <1>st, <2>1 DEF Authenticate
  <2> QED
    BY <2>1, <2>2, <1>ck DEF Unproven
<1>4a. CASE VerifySignature(r) /\ r \in unanswered'
  BY <1>4a
<1>4. CASE VerifySignature(r) /\ r \notin unanswered'
  <2>1. Signed(Op(r))
    BY <1>4, <1>pass DEF VerifySignature
  <2>2. PICK late \in Late : ~Verified(r, late)
    <3>1. ~Serve(r) /\ ~LoseClaim(r)
      BY <1>4, <1>pass DEF Serve, LoseClaim
    <3> QED
      BY <1>4, <2>1, <3>1 DEF VerifySignature
  <2>3. principal[r] # "service"
    BY <1>4 DEF VerifySignature, RequestInv, Proven
  <2>4. CASE req[r].signature \in {"none", "bad"}
    BY <2>1, <2>4 DEF Unproven
  <2>5. CASE req[r].signature \notin {"none", "bad"}
    <3>1. NeedsNonce(Op(r))
      BY <1>st, <2>1, <2>2, <2>5 DEF Verified
    <3>2. CASE "nonce" \in config.stores
      <4>1. req[r].signature \in claimed
        BY <1>st, <2>1, <2>2, <2>5, <3>1, <3>2 DEF Verified
      <4>2. PICK q \in Requests : /\ principal[q] = "service" \/ q \in unanswered
                                  /\ req[q].signature = req[r].signature
        BY <4>1 DEF Nonces
      <4>3. r \notin unanswered
        BY <1>4, StepNonces DEF RequestInv, KnownStay
      <4> QED
        BY <2>1, <2>3, <4>2, <4>3 DEF Unproven
    <3>3. CASE "nonce" \notin config.stores
      BY <1>st, <2>1, <3>1, <3>3 DEF NeedsNonce
    <3> QED
      BY <3>2, <3>3
  <2> QED
    BY <2>4, <2>5
<1>5. CASE Policy(r)
  <2>1. Served(r) # "none" /\ Owned(Served(r))
    BY <1>5, <1>pass DEF Policy, Statuses
  <2>2. principal[r] = "none"
    <3>1. \A loaded : ~Combine(r, loaded)
      BY <1>pass DEF Combine, Statuses
    <3> QED
      BY <1>5, <2>1, <3>1 DEF Policy
  <2>3. at[r] \in AfterSignature
    BY <1>5 DEF Policy, AfterSignature, AfterAuthenticate, AfterPerIp, Inside
  <2> QED
    BY <1>op, <1>no, <2>1, <2>2, <2>3 DEF Owned
<1>6. CASE Authorize(r)
  <2>1. "anonymous" \notin Schemes(Served(r)) /\ principal[r] = "none"
    BY <1>6, <1>pass DEF Authorize, Statuses
  <2>2. at[r] \in AfterSignature /\ at[r] \in Behind
    BY <1>6 DEF Authorize, AfterSignature, AfterAuthenticate, AfterPerIp, Inside, Behind
  <2>3. Served(r) # "none"
    BY <2>2 DEF RequestInv, Granted
  <2> QED
    BY <1>op, <1>no, <2>1, <2>2, <2>3 DEF Schemes
<1> QED
  BY <1>1, <1>2, <1>3, <1>4a, <1>4, <1>5, <1>6 DEF Step

-----------------------------------------------------------------------------

\* The bodies' and preflights' share of NothingIsFree.
FreeInv ==
    \A r \in Requests :
        /\ r \in parsed /\ Limited("perIp") => "perIp" \in charged[r]
        /\ req[r].preflight => charged[r] = {}

IInv ==
    /\ Typing /\ SlotInv
    /\ \A r \in Requests : RequestInv(r)
    /\ Nonces /\ Refusals /\ FreeInv

LEMMA StepFree ==
    ASSUME Typing, FreeInv, NEW r \in Requests, Step(r), RequestInv(r)
    PROVE  FreeInv'
<1> USE DEF Typing, Asks, Effects
<1>1. UNCHANGED <<config, req>>
  BY EffectsTyped
<1>2. \A l : Limited(l)' = Limited(l)
  BY <1>1 DEF Limited
<1>3. CASE UNCHANGED <<charged, parsed>>
  BY <1>1, <1>2, <1>3 DEF FreeInv
<1>4. CASE RateLimitPerIp(r) \/ RateLimitPerPrincipal(r)
  <2>1. at[r] \in AfterCors
    BY <1>4 DEF RateLimitPerIp, RateLimitPerPrincipal, AfterCors, Inside
  <2>2. ~req[r].preflight
    BY <2>1 DEF RequestInv, Paid, Passed
  <2>3. parsed' = parsed
    BY <1>4 DEF RateLimitPerIp, RateLimitPerPrincipal
  <2>4. charged' = charged \/ \E l : charged' = [charged EXCEPT ![r] = @ \cup {l}]
    BY <1>4 DEF RateLimitPerIp, RateLimitPerPrincipal, Charge
  <2> QED
    BY <1>1, <1>2, <2>2, <2>3, <2>4 DEF FreeInv
<1>5. CASE BodyGuards(r)
  <2>1. Limited("perIp") => "perIp" \in charged[r]
    BY <1>5 DEF BodyGuards, RequestInv, Paid, Passed, AfterPerIp, Inside
  <2> QED
    BY <1>1, <1>2, <1>5, <2>1 DEF BodyGuards, FreeInv
<1> QED
  BY <1>3, <1>4, <1>5 DEF Step, Arrive, Cors, Shed, HeaderGuards, Authenticate,
     VerifySignature, Serve, LoseClaim, Csrf, Policy, Authorize, Handler, Respond, Throw

LEMMA StepRefusals ==
    ASSUME Typing, Nonces, Refusals, NEW r \in Requests, Step(r), RequestInv(r)
    PROVE  Refusals'
<1>1. UNCHANGED <<config, req>>
  BY EffectsTyped
<1>2. KnownStay
  BY StepNonces DEF RequestInv
<1>3. \A q \in Requests : q # r => reply'[q] = reply[q]
  BY OthersStay
<1>4. reply'[r] = reply[r] \/ reply[r] = 0
  BY StepEnds DEF Ends, Advances, Admits, Stays, Answer, Typing
<1>5. SUFFICES ASSUME Accepted(Registry, config), NEW q \in Requests, reply'[q] = 401
               PROVE  \/ Unproven(q)' \/ q \in unanswered'
                      \/ (Forced(Op(q)) /\ "nonce" \notin config.stores)'
  BY <1>1 DEF Refusals
<1>6. \/ Unproven(q) \/ q \in unanswered'
      \/ (Forced(Op(q)) /\ "nonce" \notin config.stores)
  <2>1. CASE reply'[q] = reply[q]
    BY <1>2, <1>5, <2>1 DEF Refusals, KnownStay
  <2>2. CASE q = r /\ reply[r] = 0
    BY <1>5, <2>2, RefusedForCause
  <2> QED
    BY <1>3, <1>4, <2>1, <2>2
<1>7. CASE Unproven(q)
  BY <1>1, <1>2, <1>7, UnprovenStays
<1>8. CASE Forced(Op(q)) /\ "nonce" \notin config.stores
  BY <1>1, <1>8 DEF Forced, Op
<1> QED
  BY <1>6, <1>7, <1>8

LEMMA InitInv == Init => IInv
<1> SUFFICES ASSUME Init PROVE IInv
  OBVIOUS
<1>1. Typing /\ SlotInv
  BY InitSlots DEF SlotsInv
<1>2. ASSUME NEW r \in Requests PROVE RequestInv(r)
  BY StageSetIs DEF Init, Start, RequestInv, Told, Paid, Proven, OwnSite, Granted,
    Judged, Passed,
     AfterCors, AfterPerIp, AfterAuthenticate, AfterSignature, AfterCsrf, AfterPrincipal,
     Behind, Inside
<1>3. Nonces /\ Refusals /\ FreeInv
  BY DEF Init, Start, Nonces, Refusals, FreeInv
<1> QED
  BY <1>1, <1>2, <1>3 DEF IInv

LEMMA NextInv == IInv /\ [Next]_vars => IInv'
<1> SUFFICES ASSUME IInv, [Next]_vars PROVE IInv'
  OBVIOUS
<1>1. (Typing /\ SlotInv)'
  BY NextSlots DEF IInv, SlotsInv
<1>2. ASSUME NEW r \in Requests, Step(r) PROVE IInv'
  <2>1. ASSUME NEW q \in Requests PROVE RequestInv(q)'
    BY <1>2, OthersKeep, StepKeeps DEF IInv
  <2>2. Nonces'
    BY <1>2, StepNonces DEF IInv, RequestInv
  <2>3. Refusals' /\ FreeInv'
    BY <1>2, StepRefusals, StepFree DEF IInv
  <2> QED
    BY <1>1, <2>1, <2>2, <2>3 DEF IInv
<1>3. ASSUME NEW r \in Requests, Timeout(r) PROVE IInv'
  <2>1. /\ UNCHANGED <<config, req, at, principal, claimed, charged, parsed, ran, judged, resource,
                       unanswered>>
        /\ reply' = [reply EXCEPT ![r] = 504] /\ at[r] \in StageSet
    BY <1>3 DEF Timeout, Asks, Effects, Timed, SaysTimeout
  <2>2. ASSUME NEW q \in Requests PROVE RequestInv(q)'
    BY <2>1, StageSetIs DEF IInv, Typing, RequestInv, Told, HandlersOwn, Paid, Proven, OwnSite,
      Granted, Judged, Satisfied,
       Passed, Limited, Op, Served, Inside
  <2>3. Nonces' /\ FreeInv'
    BY <2>1 DEF IInv, Nonces, FreeInv, NeedsNonce, Forced, Exempt, Unprotected, Op, Limited
  <2>4. Refusals'
    BY <2>1 DEF IInv, Typing, Refusals, Unproven, Forced, Op
  <2> QED
    BY <1>1, <2>2, <2>3, <2>4 DEF IInv
<1>4. CASE UNCHANGED vars \/ \E o \in Records \cup {Gone} : Change(o)
  <2>1. UNCHANGED <<config, req, at, reply, principal, claimed, charged, parsed, ran, judged,
                    resource, unanswered>>
    BY <1>4 DEF vars, Change, Effects
  <2>2. ASSUME NEW q \in Requests PROVE RequestInv(q)'
    BY <2>1 DEF IInv, RequestInv, Told, Paid, Proven, OwnSite, Granted, Judged, Satisfied,
       Passed, Limited, Op, Served
  <2>3. Nonces' /\ FreeInv'
    BY <2>1 DEF IInv, Nonces, FreeInv, NeedsNonce, Forced, Exempt, Unprotected, Op, Limited
  <2>4. Refusals'
    BY <2>1 DEF IInv, Refusals, Unproven, Forced, Op
  <2> QED
    BY <1>1, <2>2, <2>3, <2>4 DEF IInv
<1> QED
  BY <1>2, <1>3, <1>4 DEF Next

\* The conjunction is an invariant of the pipeline.
THEOREM Invariance == Spec => []IInv
BY InitInv, NextInv, PTL DEF Spec

\* No handler takes effect before its guards, and no signature twice.
THEOREM HandlersAreEntitled == Spec => []HandlerIsEntitled
<1>1. IInv => HandlerIsEntitled
  <2> SUFFICES ASSUME IInv, NEW r \in ran
               PROVE  /\ req[r].https
                      /\ Limited("perIp") => "perIp" \in charged[r]
                      /\ "anonymous" \notin Schemes(Served(r)) =>
                            /\ principal[r] # "none"
                            /\ Limited("perPrincipal") => "perPrincipal" \in charged[r]
                      /\ principal[r] = "user" /\ ~ReadOnly(Served(r))
                            => req[r].token /\ ~req[r].crossSite
                      /\ \A q \in ran \ {r} :
                            Signed(Served(r)) /\ NeedsNonce(Served(r)) /\ Served(q) = Served(r)
                                  /\ ~(config.allowReplay /\ "nonce" \notin config.stores)
                              => req[q].signature # req[r].signature
    BY DEF HandlerIsEntitled
  <2>1. ran \subseteq Requests /\ \A q \in ran : RequestInv(q) /\ Served(q) = Op(q)
    BY OpIs DEF IInv, Typing
  <2>2. req[r].https /\ (Limited("perIp") => "perIp" \in charged[r])
    BY <2>1 DEF RequestInv, Paid, Passed
  <2>3. "anonymous" \notin Schemes(Served(r)) =>
           principal[r] # "none" /\ (Limited("perPrincipal") => "perPrincipal" \in charged[r])
    BY <2>1 DEF RequestInv, Paid, Granted, Passed
  <2>4. principal[r] = "user" /\ ~ReadOnly(Served(r)) => req[r].token /\ ~req[r].crossSite
    BY <2>1 DEF RequestInv, OwnSite, Passed
  <2>5. ASSUME NEW q \in ran \ {r}, Signed(Served(r)), NeedsNonce(Served(r)), Served(q) = Served(r),
               ~(config.allowReplay /\ "nonce" \notin config.stores)
        PROVE  req[q].signature # req[r].signature
    <3>1. principal[r] = "service" /\ principal[q] = "service"
      BY <2>1, <2>5 DEF RequestInv, Proven, Passed
    <3>2. "nonce" \in config.stores
      BY <2>1, <2>5, <3>1 DEF IInv, Nonces, Unprotected
    <3> QED
      BY <2>1, <2>5, <3>1, <3>2 DEF IInv, Nonces
  <2> QED
    BY <2>2, <2>3, <2>4, <2>5
<1> QED
  BY <1>1, Invariance, PTL

\* What a guard refused has no effect, now or later, and validateConfig's
\* acceptance leaves no outage, whatever else is in the configuration.
THEOREM RefusalsAreFinal == Spec => []RefusalIsFinal
<1>1. IInv => RefusalIsFinal
  BY DEF IInv, RefusalIsFinal, NoSilentOutage, Refusals, RequestInv, Told, Typing
<1> QED
  BY <1>1, Invariance, PTL

\* The slot's policies judge one record, whatever becomes of it meanwhile.
THEOREM JudgedTogether == Spec => []JudgedAsOne
<1>1. IInv => JudgedAsOne
  BY DEF IInv, JudgedAsOne, RequestInv, Judged, Satisfied
<1> QED
  BY <1>1, Invariance, PTL

\* No body is parsed before its address has paid, and a preflight costs
\* nothing.
THEOREM NoneIsFree == Spec => []NothingIsFree
<1>1. IInv => NothingIsFree
  BY InsideIs DEF IInv, NothingIsFree, FreeInv, RequestInv, Paid, Passed, Admitted,
    AfterCors
<1> QED
  BY <1>1, Invariance, PTL

-----------------------------------------------------------------------------
\* Arithmetic

\* AtMost is the lesser, AtLeast the greater of two.
LEMMA Lesser == \A x, y \in Int : AtMost(x, y) = IF x <= y THEN x ELSE y
BY DEF AtMost, Min

LEMMA Greater == \A x, y \in Int : AtLeast(x, y) = IF x >= y THEN x ELSE y
BY DEF AtLeast, Max

\* A rate is positive and keeps the order.
LEMMA Scaled ==
    ASSUME NEW q \in Nat \ {0}, NEW x \in Int, NEW y \in Int
    PROVE  /\ q * x \in Int
           /\ q * (x + y) = q * x + q * y
           /\ q * (x - y) = q * x - q * y
           /\ x <= y => q * x <= q * y
OBVIOUS

\* What is rounded up suffices, and no more than that.
LEMMA RoundedUp ==
    ASSUME NEW x \in Int, NEW q \in Nat \ {0}
    PROVE  /\ CeilDiv(x, q) \in Int
           /\ q * CeilDiv(x, q) >= x
           /\ \A y \in Int : x <= q * y => CeilDiv(x, q) <= y
<1> DEFINE z == x + q - 1
           d == z \div q
<1>1. z \in Int /\ d \in Int
  OBVIOUS
<1>2. q * d <= z /\ z < q * d + q
  <2>1. z = q * d + (z % q) /\ z % q \in 0 .. q - 1
    OBVIOUS
  <2> QED
    BY <2>1, <1>1
<1>3. ASSUME NEW y \in Int, x <= q * y, y < d
      PROVE  FALSE
  <2>1. q * (y + 1) <= q * d
    BY <1>1, <1>3, Scaled
  <2>2. q * (y + 1) = q * y + q
    BY <1>3
  <2>3. q * y \in Int /\ q * d \in Int
    BY <1>1, <1>3
  <2> QED
    BY <1>2, <1>3, <2>1, <2>2, <2>3
<1> QED
  BY <1>1, <1>2, <1>3 DEF CeilDiv

\* Clocks cut to seconds lose less than one.
LEMMA WholeSeconds ==
    ASSUME NEW t \in Int, NEW q \in Nat \ {0}
    PROVE  /\ q * (t \div q) \in Int
           /\ q * (t \div q) >= t - q + 1
<1>1. t = q * (t \div q) + (t % q) /\ t % q \in 0 .. q - 1
  OBVIOUS
<1> QED
  BY <1>1

-----------------------------------------------------------------------------
\* A bucket's line: what it would hold at t if it could hold any amount, and
\* owe it.

\* By how much a caller's clock may be off.
Off == IF backend = "dynamo" THEN MaxDrift ELSE 0

Line(b, t) == b.tokens + Rate * (t - b.at)

\* The bucket is worth i at t, fast clocks apart.
Generous(b, t, i) ==
    Present(b) => b.at <= t + Off /\ Line(b, t) >= i - Rate * Off

\* It is worth no more than i, slow clocks apart.
Stingy(b, t, i) ==
    i >= Capacity \/ (Present(b) /\ i >= Line(b, t) - Rate * Off)

\* The parameters.
LEMMA Amounts ==
    /\ Capacity \in Nat \ {0} /\ Rate \in Nat \ {0} /\ Second \in Nat \ {0}
    /\ MaxElapsed \in Nat \ {0} /\ MaxCasRetries \in Nat \ {0}
    /\ TtlFloor \in Nat /\ MaxDrift \in Nat /\ MaxVersion \in Nat /\ Horizon \in Nat
    /\ \A n \in Costs : n \in Nat /\ 0 < n /\ n <= Capacity
    /\ Off \in Nat
BY BucketAssumption DEF Off

LEMMA NoBucketIs == NoBucket \in Rows /\ ~Present(NoBucket)
BY Amounts DEF NoBucket, Rows, Present

LEMMA LineMoves ==
    ASSUME NEW b \in Rows, NEW t \in Int, NEW u \in Int
    PROVE  /\ Line(b, t) \in Int
           /\ Line(b, u) = Line(b, t) + Rate * (u - t)
           /\ t <= u => Line(b, t) <= Line(b, u)
<1>1. b.at \in Int /\ b.tokens \in Int
  BY DEF Rows
<1>2. Rate * (u - b.at) = Rate * (t - b.at) + Rate * (u - t)
  <2>1. u - b.at = (t - b.at) + (u - t)
    BY <1>1
  <2> QED
    BY <1>1, <2>1, Scaled, Amounts
<1>3. Rate * (t - b.at) \in Int /\ Rate * (u - t) \in Int
  BY <1>1, Scaled, Amounts
<1>4. t <= u => Rate * (u - t) >= 0
  BY Amounts
<1> QED
  BY <1>1, <1>2, <1>3, <1>4 DEF Line

\* The clock a refill uses: not before the bucket's, not after the caller's or
\* the bucket's, and cut only where the bucket is full.
LEMMA Clamped ==
    ASSUME NEW b \in Rows, NEW k \in Int,
           Present(b) /\ backend \notin Clamps => k >= b.at
    PROVE  /\ ClampNow(b, k) \in Int
           /\ ~Present(b) => ClampNow(b, k) = k
           /\ Present(b) => /\ ClampNow(b, k) >= b.at
                            /\ ClampNow(b, k) <= k \/ ClampNow(b, k) <= b.at
                            /\ ClampNow(b, k) >= k \/ ClampNow(b, k) = b.at + MaxElapsed
<1>1. b.at \in Int /\ b.at + MaxElapsed \in Int /\ MaxElapsed \in Nat
  BY Amounts DEF Rows
<1>2. AtLeast(k, b.at) = (IF k >= b.at THEN k ELSE b.at) /\ AtLeast(k, b.at) \in Int
  BY <1>1, Greater
<1>3. AtMost(AtLeast(k, b.at), b.at + MaxElapsed)
        = IF AtLeast(k, b.at) <= b.at + MaxElapsed THEN AtLeast(k, b.at) ELSE b.at + MaxElapsed
  BY <1>1, <1>2, Lesser
<1> QED
  BY <1>1, <1>2, <1>3 DEF ClampNow

\* What a refill finds.
LEMMA Refilled ==
    ASSUME NEW b \in Rows, NEW u \in Int
    PROVE  /\ Refill(b, u) \in 0 .. Capacity
           /\ ~Present(b) => Refill(b, u) = Capacity
           /\ Present(b) /\ u >= b.at =>
                 \/ Refill(b, u) = Line(b, u) /\ Line(b, u) <= Capacity
                 \/ Refill(b, u) = Capacity /\ Line(b, u) >= Capacity
<1>1. b.at \in Int /\ b.tokens \in 0 .. Capacity /\ Capacity \in Nat /\ Line(b, u) \in Int
  BY LineMoves, Amounts DEF Rows
<1>2. AtMost(Capacity, b.tokens + Rate * (u - b.at))
        = IF Capacity <= Line(b, u) THEN Capacity ELSE Line(b, u)
  BY <1>1, Lesser DEF Line
<1>3. u >= b.at => Rate * (u - b.at) >= 0
  BY <1>1, Amounts
<1>4. u = b.at => Line(b, u) = b.tokens
  BY <1>1, Amounts DEF Line
<1>5. Rate * (u - b.at) \in Int
  BY <1>1, Scaled, Amounts
<1>6. u >= b.at => Line(b, u) >= b.tokens
  BY <1>1, <1>3, <1>5 DEF Line
<1> QED
  BY <1>1, <1>2, <1>4, <1>6 DEF Refill

LEMMA SpentIs ==
    ASSUME NEW b \in Rows, NEW u \in Int, NEW n \in Nat
    PROVE  /\ Spent(b, u, n) \in Nat
           /\ Left(b, u, n) = Refill(b, u) - Spent(b, u, n)
           /\ Left(b, u, n) \in 0 .. Capacity
<1>1. Refill(b, u) \in 0 .. Capacity /\ Capacity \in Nat
  BY Refilled, Amounts
<1> QED
  BY <1>1 DEF Spent, Left, Enough

-----------------------------------------------------------------------------
\* A row that is written.  It was computed at t, by a clock that says k, from
\* the row b for a request for n.

Clocked(b, t, k) ==
    /\ k <= t + Off
    /\ backend # "dynamo" => k = t
    /\ Present(b) => b.at <= t + Off

LEMMA ClockIs ==
    ASSUME NEW b \in Rows, NEW t \in Int, NEW k \in Int, Clocked(b, t, k), backend \in Backends
    PROVE  LET u == ClampNow(b, k) IN
           /\ u \in Int /\ u <= t + Off
           /\ Present(b) => u >= b.at
           /\ u >= k \/ (Present(b) /\ u = b.at + MaxElapsed)
<1>1. Present(b) /\ backend \notin Clamps => k >= b.at
  BY DEF Clocked, Off, Clamps, Backends
<1>2. b.at \in Int
  BY DEF Rows
<1> QED
  BY <1>1, <1>2, Clamped, Amounts DEF Clocked

LEMMA NewFields ==
    ASSUME NEW b \in Rows, NEW k \in Int, NEW n \in Nat, NEW v, ClampNow(b, k) \in Int
    PROVE  /\ After(b, k, n, v).at = ClampNow(b, k)
           /\ After(b, k, n, v).ver = v
           /\ After(b, k, n, v).tokens \in 0 .. Capacity
BY SpentIs DEF After

\* Its line at t: what was found there, less what was spent, by the clock used.
LEMMA NewLine ==
    ASSUME NEW b \in Rows, NEW t \in Int, NEW k \in Int, NEW n \in Nat, NEW v \in Int,
           Clocked(b, t, k), backend \in Backends
    PROVE  LET u == ClampNow(b, k)
               a == After(b, k, n, v)
           IN  /\ a.at = u /\ a.ver = v /\ a.tokens \in 0 .. Capacity
               /\ a.tokens = Refill(b, u) - Spent(b, u, n)
               /\ Line(a, t) = Refill(b, u) + Rate * (t - u) - Spent(b, u, n)
               /\ Rate * (t - u) \in Int /\ Rate * (t - u) >= -(Rate * Off)
               /\ u >= t - Off => Rate * (t - u) <= Rate * Off
               /\ Present(b) => Line(b, u) + Rate * (t - u) = Line(b, t)
<1> DEFINE u == ClampNow(b, k)
           a == After(b, k, n, v)
<1>1. u \in Int /\ u <= t + Off /\ Off \in Nat
  BY ClockIs, Amounts
<1>2. a.at = u /\ a.ver = v /\ a.tokens = Left(b, u, n)
  BY DEF After
<1>3. a.tokens \in 0 .. Capacity /\ a.tokens = Refill(b, u) - Spent(b, u, n)
  BY <1>1, <1>2, SpentIs
<1>4. Rate * (t - u) \in Int /\ Rate * Off \in Int /\ Rate * (-Off) = -(Rate * Off)
  BY <1>1, Amounts, Scaled
<1>5. Rate * (t - u) >= -(Rate * Off)
  BY <1>1, <1>4, Amounts, Scaled
<1>6. u >= t - Off => Rate * (t - u) <= Rate * Off
  BY <1>1, Amounts, Scaled
<1>7. Line(b, u) + Rate * (t - u) = Line(b, t)
  BY <1>1, LineMoves
<1>8. Refill(b, u) \in Int /\ Spent(b, u, n) \in Int /\ Capacity \in Nat
  BY <1>1, SpentIs, Refilled, Amounts
<1>9. Line(a, t) = Refill(b, u) + Rate * (t - u) - Spent(b, u, n)
  BY <1>2, <1>3, <1>4, <1>8 DEF Line
<1> HIDE DEF u, a
<1> QED
  BY <1>1, <1>2, <1>3, <1>4, <1>5, <1>6, <1>7, <1>9 DEF u, a

\* A generous row makes a generous row.
LEMMA GenerousWrite ==
    ASSUME NEW b \in Rows, NEW t \in Int, NEW k \in Int, NEW n \in Nat, NEW v \in Int, NEW i \in Int,
           Clocked(b, t, k), backend \in Backends,
           i <= Capacity, Generous(b, t, i)
    PROVE  Generous(After(b, k, n, v), t, i - Spent(b, ClampNow(b, k), n))
<1> DEFINE u == ClampNow(b, k)
           a == After(b, k, n, v)
           s == Spent(b, u, n)
           r == Refill(b, u)
           x == Rate * (t - u)
<1>1. u \in Int /\ u <= t + Off /\ (Present(b) => u >= b.at)
  BY ClockIs
<1>2. /\ a.at = u /\ Line(a, t) = r + x - s
      /\ x \in Int /\ x >= -(Rate * Off)
      /\ Present(b) => Line(b, u) + x = Line(b, t)
  BY NewLine
<1>3. /\ r \in 0 .. Capacity /\ Capacity \in Nat
      /\ ~Present(b) => r = Capacity
      /\ Present(b) => \/ r = Line(b, u)
                       \/ r = Capacity
  BY <1>1, Refilled, Amounts
<1>4. s \in Nat /\ Rate * Off \in Int /\ Line(b, u) \in Int /\ Line(b, t) \in Int
  BY <1>1, SpentIs, LineMoves, Amounts, Scaled
<1>5. Present(b) => Line(b, t) >= i - Rate * Off
  BY DEF Generous
<1> HIDE DEF u, a, s, r, x
<1>6. r + x >= i - Rate * Off
  BY <1>2, <1>3, <1>4, <1>5
<1>7. Line(a, t) >= (i - s) - Rate * Off
  BY <1>2, <1>3, <1>4, <1>6
<1> QED
  BY <1>1, <1>2, <1>7 DEF Generous, u, a, s

\* A stingy one a stingy one, unless its clock was cut.
LEMMA StingyWrite ==
    ASSUME NEW b \in Rows, NEW t \in Int, NEW k \in Int, NEW n \in Nat, NEW v \in Nat \ {0}, NEW i \in Int,
           Clocked(b, t, k), backend \in Backends,
           t - Off <= k, ClampNow(b, k) >= k, Stingy(b, t, i)
    PROVE  Stingy(After(b, k, n, v), t, i - Spent(b, ClampNow(b, k), n))
<1> DEFINE u == ClampNow(b, k)
           a == After(b, k, n, v)
           s == Spent(b, u, n)
           r == Refill(b, u)
           x == Rate * (t - u)
<1>1. u \in Int /\ u >= t - Off /\ (Present(b) => u >= b.at)
  BY ClockIs, Amounts
<1>2. /\ Line(a, t) = r + x - s /\ a.ver = v
      /\ x \in Int /\ x <= Rate * Off
      /\ Present(b) => Line(b, u) + x = Line(b, t)
  BY <1>1, NewLine
<1>3. /\ r \in 0 .. Capacity /\ Capacity \in Nat
      /\ Present(b) => r <= Line(b, u)
  <2>1. Line(b, u) \in Int
    BY <1>1, LineMoves
  <2> QED
    BY <2>1, <1>1, Refilled, Amounts
<1>4. s \in Nat /\ Rate * Off \in Int /\ Line(b, u) \in Int /\ Line(b, t) \in Int
  BY <1>1, SpentIs, LineMoves, Amounts, Scaled
<1>5. i >= Capacity \/ (Present(b) /\ i >= Line(b, t) - Rate * Off)
  BY DEF Stingy
<1> HIDE DEF u, a, s, r, x
<1>6. i >= r + x - Rate * Off
  BY <1>2, <1>3, <1>4, <1>5
<1>7. i - s >= Line(a, t) - Rate * Off
  BY <1>2, <1>3, <1>4, <1>6
<1>8. Present(a)
  BY <1>2 DEF Present
<1> QED
  BY <1>7, <1>8 DEF Stingy, u, a, s

\* Time is worth the same to the bucket and to the ideal one.
LEMMA GenerousLater ==
    ASSUME NEW b \in Rows, NEW t \in Int, NEW u \in Int, NEW i \in Int, NEW j \in Int,
           t <= u, j <= i + Rate * (u - t), Generous(b, t, i)
    PROVE  Generous(b, u, j)
<1>1. Line(b, u) = Line(b, t) + Rate * (u - t) /\ Line(b, t) \in Int
  BY LineMoves
<1>2. Rate * (u - t) \in Int /\ Rate * Off \in Int /\ b.at \in Int /\ Off \in Nat
  BY Amounts, Scaled DEF Rows
<1> QED
  BY <1>1, <1>2 DEF Generous

LEMMA StingyLater ==
    ASSUME NEW b \in Rows, NEW t \in Int, NEW u \in Int, NEW i \in Int,
           t <= u, Stingy(b, t, i)
    PROVE  Stingy(b, u, AtMost(Capacity, i + Rate * (u - t)))
<1>1. Line(b, u) = Line(b, t) + Rate * (u - t) /\ Line(b, t) \in Int
  BY LineMoves
<1>2. Rate * (u - t) \in Int /\ Rate * (u - t) >= 0 /\ Rate * Off \in Int /\ Capacity \in Nat
  BY Amounts, Scaled
<1> DEFINE j == AtMost(Capacity, i + Rate * (u - t))
<1>3. j \in Int /\ (j = Capacity \/ j = i + Rate * (u - t)) /\ (i >= Capacity => j = Capacity)
  BY <1>2, Lesser
<1> HIDE DEF j
<1> QED
  BY <1>1, <1>2, <1>3 DEF Stingy, j

-----------------------------------------------------------------------------
\* Expiry.  A row that may be dropped is full, slow clocks included.

\* A DynamoDB row lives for a refill, a second and the clocks' differences;
\* Redis cuts no refill before the row has expired.
RowsOutlast == Rate * (TtlFloor + 1 - Second - 3 * MaxDrift) >= Capacity
RefillsInTime == Rate * (MaxElapsed - Second) >= Capacity

Lasts(b) == Present(b) =>
    /\ backend # "memory" => Line(b, b.exp) >= Capacity + Rate * Off
    /\ backend = "redis" => b.exp <= b.at + MaxElapsed

LEMMA FullIn ==
    ASSUME NEW m \in 0 .. Capacity
    PROVE  SecondsToFull(m) \in Int /\ Rate * SecondsToFull(m) >= Capacity - m
<1>1. Rate * Second \in Nat \ {0} /\ Capacity - m \in Int /\ Capacity \in Nat
  BY Amounts
<1> DEFINE d == CeilDiv(Capacity - m, Rate * Second)
<1>2. d \in Int /\ (Rate * Second) * d >= Capacity - m
  BY <1>1, RoundedUp
<1> HIDE DEF d
<1>3. (Rate * Second) * d = Rate * (Second * d)
  BY <1>2, Amounts
<1>4. Second * d \in Int
  BY <1>2, Amounts
<1> QED
  BY <1>2, <1>3, <1>4 DEF SecondsToFull, d

LEMMA ExpiryIs ==
    ASSUME NEW m \in 0 .. Capacity, NEW k \in Int, backend \in Backends
    PROVE  /\ Expiry(m, k) \in Int
           /\ backend = "redis" =>
                 /\ Rate * (Expiry(m, k) - k) >= Capacity
                 /\ RefillsInTime => Expiry(m, k) - k <= MaxElapsed
           /\ backend = "durable" => Rate * (Expiry(m, k) - k) >= Capacity - m
           /\ backend = "dynamo" => Expiry(m, k) >= k - Second + 1 + TtlFloor
<1>1. /\ CeilDiv(Capacity, Rate) \in Int /\ Rate * CeilDiv(Capacity, Rate) >= Capacity
      /\ RefillsInTime => CeilDiv(Capacity, Rate) <= MaxElapsed - Second
  BY RoundedUp, Amounts DEF RefillsInTime
<1>2. SecondsToFull(m) \in Int /\ Rate * SecondsToFull(m) >= Capacity - m
  BY FullIn
<1>3. Second * (k \div Second) \in Int /\ Second * (k \div Second) >= k - Second + 1
  BY WholeSeconds, Amounts
<1>4. /\ AtLeast(Second, SecondsToFull(m)) \in Int
      /\ AtLeast(Second, SecondsToFull(m)) >= SecondsToFull(m)
      /\ AtLeast(TtlFloor, SecondsToFull(m)) \in Int
      /\ AtLeast(TtlFloor, SecondsToFull(m)) >= TtlFloor
  BY <1>2, Greater, Amounts
<1> DEFINE e == Expiry(m, k)
<1>5. CASE backend = "memory"
  BY <1>5, Amounts DEF Expiry
<1>6. CASE backend = "redis"
  <2>1. e = k + CeilDiv(Capacity, Rate) + Second
    BY <1>6 DEF Expiry
  <2>2. e - k = CeilDiv(Capacity, Rate) + Second
    BY <2>1, <1>1, Amounts
  <2>3. e - k >= CeilDiv(Capacity, Rate) /\ e \in Int /\ e - k \in Int
    BY <2>1, <2>2, <1>1, Amounts
  <2>4. Rate * (e - k) >= Rate * CeilDiv(Capacity, Rate)
    BY <2>3, <1>1, Scaled, Amounts
  <2>5. Rate * (e - k) \in Int /\ Rate * CeilDiv(Capacity, Rate) \in Int /\ Capacity \in Int
    BY <2>3, <1>1, Scaled, Amounts
  <2> HIDE DEF e
  <2>6. Rate * (e - k) >= Capacity
    BY <2>4, <2>5, <1>1
  <2>7. RefillsInTime => e - k <= MaxElapsed
    BY <2>2, <2>3, <1>1, Amounts
  <2> QED
    BY <1>6, <2>3, <2>6, <2>7 DEF e
<1>7. CASE backend = "durable"
  <2>1. e = k + AtLeast(Second, SecondsToFull(m))
    BY <1>7 DEF Expiry
  <2>2. e \in Int /\ e - k \in Int /\ e - k >= SecondsToFull(m)
    BY <2>1, <1>2, <1>4
  <2>3. Rate * (e - k) >= Rate * SecondsToFull(m)
    BY <2>2, <1>2, Scaled, Amounts
  <2>4. Rate * (e - k) \in Int /\ Rate * SecondsToFull(m) \in Int /\ Capacity - m \in Int
    BY <2>2, <1>2, Scaled, Amounts
  <2> HIDE DEF e
  <2>5. Rate * (e - k) >= Capacity - m
    BY <2>3, <2>4, <1>2
  <2> QED
    BY <1>7, <2>2, <2>5 DEF e
<1>8. CASE backend = "dynamo"
  <2>1. e = Second * (k \div Second) + AtLeast(TtlFloor, SecondsToFull(m))
    BY <1>8 DEF Expiry
  <2>2. e \in Int /\ e >= k - Second + 1 + TtlFloor
    BY <2>1, <1>3, <1>4, Amounts
  <2> QED
    BY <1>8, <2>2
<1> QED
  BY <1>5, <1>6, <1>7, <1>8 DEF Backends

LEMMA RowWritten ==
    ASSUME NEW b \in Rows, NEW t \in Int, NEW k \in Int, NEW n \in Nat, NEW v \in 0 .. MaxVersion + 1,
           Clocked(b, t, k), backend \in Backends
    PROVE  After(b, k, n, v) \in Rows
<1> DEFINE a == After(b, k, n, v)
<1>0. ClampNow(b, k) \in Int
  BY ClockIs
<1>1. a.tokens \in 0 .. Capacity
  BY <1>0, NewFields
<1>2. a = [tokens |-> a.tokens, at |-> ClampNow(b, k), exp |-> Expiry(a.tokens, k), ver |-> v]
  BY DEF After
<1>3. Expiry(a.tokens, k) \in Int
  BY <1>1, ExpiryIs
<1> HIDE DEF a
<1> QED
  BY <1>0, <1>1, <1>2, <1>3 DEF Rows, a

LEMMA LastingWrite ==
    ASSUME NEW b \in Rows, NEW t \in Int, NEW k \in Int, NEW n \in Nat, NEW v \in Int,
           Clocked(b, t, k), backend \in Backends,
           t - Off <= k, ClampNow(b, k) >= k,
           RowsOutlast, RefillsInTime
    PROVE  Lasts(After(b, k, n, v))
<1> DEFINE u == ClampNow(b, k)
           a == After(b, k, n, v)
           m == a.tokens
<1>1. u \in Int /\ u <= t + Off /\ u >= k
  BY ClockIs
<1>2. a.at = u /\ m \in 0 .. Capacity /\ Capacity \in Nat
  <2>1. a.at = u /\ a.tokens \in 0 .. Capacity
    BY <1>1, NewFields
  <2> QED
    BY <2>1, Amounts
<1> DEFINE e == Expiry(m, k)
<1>3. a.exp = e /\ e \in Int
  BY <1>2, ExpiryIs DEF After
<1>4. Line(a, a.exp) = m + Rate * (e - u)
  BY <1>2, <1>3 DEF Line
<1>5. Rate * (e - u) \in Int
  BY <1>1, <1>3, Scaled, Amounts
<1>6. backend # "dynamo" => u = k /\ Off = 0 /\ Rate * Off = 0
  BY <1>1, Amounts DEF Clocked, Off
<1>7. backend = "redis" => Rate * (e - k) >= Capacity /\ e - k <= MaxElapsed
  BY <1>2, ExpiryIs
<1>8. backend = "durable" => Rate * (e - k) >= Capacity - m
  BY <1>2, ExpiryIs
<1>9. backend = "dynamo" => Rate * (e - u) >= Capacity + Rate * Off
  <2> SUFFICES ASSUME backend = "dynamo" PROVE Rate * (e - u) >= Capacity + Rate * Off
    OBVIOUS
  <2>1. e >= k - Second + 1 + TtlFloor /\ Off = MaxDrift
    BY <1>2, ExpiryIs DEF Off
  <2>2. e - u >= (TtlFloor + 1 - Second - 3 * MaxDrift) + MaxDrift
    BY <2>1, <1>1, <1>3, Amounts
  <2> DEFINE w == TtlFloor + 1 - Second - 3 * MaxDrift
  <2>3. w \in Int /\ MaxDrift \in Int /\ e - u \in Int
    BY <1>1, <1>3, Amounts
  <2>4. Rate * w >= Capacity
    BY DEF RowsOutlast
  <2>5. Rate * w \in Int /\ Rate * MaxDrift \in Int
    BY <2>3, Scaled, Amounts
  <2> HIDE DEF w
  <2>6. Rate * (e - u) >= Rate * (w + MaxDrift) /\ Rate * (w + MaxDrift) = Rate * w + Rate * MaxDrift
    <3>1. e - u >= w + MaxDrift
      BY <2>2 DEF w
    <3> QED
      BY <3>1, <2>3, Scaled, Amounts
  <2> QED
    BY <1>2, <1>5, <2>1, <2>4, <2>5, <2>6
<1> HIDE DEF u, a, e
<1>10. backend # "memory" => m + Rate * (e - u) >= Capacity + Rate * Off
  BY <1>2, <1>5, <1>6, <1>7, <1>8, <1>9, Amounts, Scaled DEF Backends
<1>11. backend = "redis" => e <= u + MaxElapsed
  BY <1>1, <1>3, <1>6, <1>7, Amounts
<1> QED
  BY <1>2, <1>3, <1>4, <1>10, <1>11 DEF Lasts, a

-----------------------------------------------------------------------------
\* Answers.

\* Of a bucket that is there, whatever it holds, what was asked for is there
\* once an empty one would have it.
LEMMA HintTimed ==
    ASSUME NEW h \in Hints
    PROVE  /\ InTime(h) \in Int
           /\ h.lost => Rate * (InTime(h) - h.due) >= h.cost
<1>1. h.due \in Int /\ h.cost \in Int /\ Rate * Second \in Nat \ {0}
  BY Amounts DEF Hints
<1> DEFINE d == CeilDiv(h.cost, Rate * Second)
<1>2. d \in Int /\ (Rate * Second) * d >= h.cost
  BY <1>1, RoundedUp
<1>3. InTime(h) = h.due + (IF h.lost THEN Second * d ELSE 0)
  BY DEF InTime
<1> HIDE DEF d
<1>4. (Rate * Second) * d = Rate * (Second * d) /\ Second * d \in Int
  BY <1>2, Amounts
<1>5. h.lost => InTime(h) - h.due = Second * d
  BY <1>1, <1>3, <1>4
<1> DEFINE w == InTime(h)
<1> HIDE DEF w
<1>6. w \in Int
  BY <1>1, <1>3, <1>4 DEF w
<1>7. h.lost => Rate * (w - h.due) >= h.cost
  BY <1>1, <1>2, <1>4, <1>5 DEF w
<1> QED
  BY <1>6, <1>7 DEF w

LEMMA RetryIs ==
    ASSUME NEW b \in Rows, NEW u \in Int, NEW n \in Nat
    PROVE  /\ RetryAfter(b, u, n) \in Int
           /\ Rate * RetryAfter(b, u, n) >= n - Refill(b, u)
<1> DEFINE m == n - Refill(b, u)
           d == CeilDiv(m, Rate * Second)
<1>1. m \in Int /\ Rate * Second \in Nat \ {0}
  <2>1. Refill(b, u) \in 0 .. Capacity
    BY Refilled
  <2> QED
    BY <2>1, Amounts
<1> HIDE DEF m
<1>2. d \in Int /\ (Rate * Second) * d >= m
  BY <1>1, RoundedUp
<1> HIDE DEF d
<1>3. (Rate * Second) * d = Rate * (Second * d) /\ Second * d \in Int
  BY <1>2, Amounts
<1>4. CASE Enough(b, u, n)
  <2>1. RetryAfter(b, u, n) = 0 /\ m <= 0
    BY <1>1, <1>4, Refilled DEF RetryAfter, Enough, m
  <2> QED
    BY <2>1, Amounts DEF m
<1>5. CASE ~Enough(b, u, n)
  <2>1. RetryAfter(b, u, n) = Second * d
    BY <1>5 DEF RetryAfter, m, d
  <2> QED
    BY <2>1, <1>2, <1>3 DEF m
<1> QED
  BY <1>4, <1>5

\* An answer and the row that is written with it.
LEMMA Answered ==
    ASSUME NEW b \in Rows, NEW t \in Int, NEW k \in Int, NEW n \in 0 .. Capacity,
           NEW v \in 1 .. MaxVersion + 1, NEW i \in Int,
           Clocked(b, t, k), backend \in Backends, now \in Int, t <= now,
           i <= Capacity, Generous(b, t, i),
           Reply(b, k, n, i, now - t)
    PROVE  LET a == After(b, k, n, v) IN
           /\ a \in Rows
           /\ ideal' \in Int /\ ideal' <= Capacity
           /\ hint' \in Hints
           /\ Generous(a, now, ideal')
           /\ hint' # NoHint => /\ hint'.cost <= Capacity
                                /\ Line(a, InTime(hint') + Off) >= hint'.cost
           /\ (Stingy(b, t, i) /\ t - Off <= k /\ ClampNow(b, k) >= k)
                 => Stingy(a, now, ideal')
<1> DEFINE u == ClampNow(b, k)
           a == After(b, k, n, v)
           j == i - Spent(b, u, n)
<1>1. u \in Int /\ u <= t + Off
  BY ClockIs
<1>2. n \in Nat /\ n <= Capacity /\ v \in Nat \ {0} /\ v \in 0 .. MaxVersion + 1 /\ v \in Int
  BY Amounts
<1>3. a \in Rows
  BY <1>2, RowWritten
<1>4. j \in Int
  <2>1. Spent(b, u, n) \in Nat
    BY <1>1, <1>2, SpentIs
  <2> QED
    BY <2>1
<1>5. ideal' = AtMost(Capacity, j + Rate * (now - t))
  BY DEF Reply
<1>6. now - t \in Int /\ Rate * (now - t) \in Int /\ Capacity \in Int
  BY Amounts, Scaled
<1>7. ideal' \in Int /\ ideal' <= Capacity /\ ideal' <= j + Rate * (now - t)
  BY <1>4, <1>5, <1>6, Lesser
<1>8. Generous(a, t, j)
  BY <1>2, GenerousWrite
<1>9. Generous(a, now, ideal')
  BY <1>3, <1>4, <1>7, <1>8, GenerousLater
<1>10. (Stingy(b, t, i) /\ t - Off <= k /\ u >= k) => Stingy(a, now, ideal')
  <2> SUFFICES ASSUME Stingy(b, t, i), t - Off <= k, u >= k
               PROVE  Stingy(a, now, ideal')
    OBVIOUS
  <2>1. Stingy(a, t, j)
    BY <1>2, StingyWrite
  <2> QED
    BY <2>1, <1>3, <1>4, <1>5, StingyLater
<1>11. CASE Enough(b, u, n)
  <2>1. hint' = NoHint
    BY <1>11 DEF Reply
  <2>2. NoHint \in Hints
    BY DEF NoHint, Hints
  <2> HIDE DEF u, a, j
  <2> QED
    BY <2>1, <2>2, <1>3, <1>7, <1>9, <1>10 DEF u, a
<1>12. CASE ~Enough(b, u, n)
  <2> DEFINE w == RetryAfter(b, u, n)
             due == now + w
  <2>1. hint' = [due |-> due, cost |-> n, lost |-> FALSE]
    BY <1>12 DEF Reply
  <2>2. w \in Int /\ Rate * w >= n - Refill(b, u)
    BY <1>1, <1>2, RetryIs
  <2>3. a.at = u /\ a.tokens = Refill(b, u) /\ Refill(b, u) \in 0 .. Capacity /\ Spent(b, u, n) = 0
    <3>1. a.at = u /\ a.tokens = Left(b, u, n)
      BY DEF After
    <3>2. Left(b, u, n) = Refill(b, u) - 0 /\ Spent(b, u, n) = 0
      BY <1>12 DEF Left, Spent
    <3>3. Refill(b, u) \in 0 .. Capacity
      BY <1>1, Refilled
    <3> QED
      BY <3>1, <3>2, <3>3, Amounts
  <2>4. Off \in Nat /\ due \in Int /\ due + Off \in Int /\ (due + Off) - u >= w
    BY <2>2, <1>1, Amounts
  <2>5. Rate * ((due + Off) - u) >= Rate * w /\ Rate * w \in Int /\ Rate * ((due + Off) - u) \in Int
    BY <2>2, <2>4, <1>1, Scaled, Amounts
  <2>6. Line(a, due + Off) = Refill(b, u) + Rate * ((due + Off) - u)
    BY <2>3 DEF Line
  <2> HIDE DEF u, a, w, due, j
  <2>7. Line(a, due + Off) >= n
    BY <2>2, <2>3, <2>5, <2>6, <1>2, Amounts
  <2>8. hint' \in Hints /\ hint'.cost = n /\ InTime(hint') = due
    BY <2>1, <2>4, <1>2 DEF Hints, InTime
  <2> QED
    BY <2>7, <2>8, <1>2, <1>3, <1>7, <1>9, <1>10 DEF u, a
<1> QED
  BY <1>11, <1>12

-----------------------------------------------------------------------------
\* Typing, and that no bucket is short.

Pending(c) == call[c] = "writing" =>
    /\ backend = "dynamo"
    /\ idealRead[c] <= Capacity
    /\ Generous(held[c], readAt[c], idealRead[c])

Lost(h) == h.lost /\ h.due = now /\ h.cost <= Capacity

HintInv == hint # NoHint =>
    /\ hint.cost <= Capacity
    /\ Present(bucket) => Line(bucket, InTime(hint) + Off) >= hint.cost

ShortInv ==
    /\ BucketTypeOK
    /\ \A c \in Callers : backend # "dynamo" => drift[c] = 0
    /\ Generous(bucket, now, ideal)
    /\ \A c \in Callers : Pending(c)
    /\ HintInv

LEMMA InitShort == BucketInit => ShortInv
<1> SUFFICES ASSUME BucketInit PROVE ShortInv
  OBVIOUS
<1>1. NoBucket \in Rows /\ ~Present(NoBucket)
  BY NoBucketIs
<1>2. BucketTypeOK
  <2>1. 0 \in 0 .. Horizon /\ 0 \in 0 .. 0 /\ 0 \in 0 .. MaxCasRetries - 1 /\ 0 \in Int
    BY Amounts
  <2>2. NoHint \in Hints
    BY DEF NoHint, Hints
  <2>3. Capacity \in Int /\ Capacity <= Capacity
    BY Amounts
  <2> QED
    BY <1>1, <2>1, <2>2, <2>3 DEF BucketInit, BucketTypeOK
<1>3. Generous(bucket, now, ideal) /\ HintInv
  BY <1>1 DEF BucketInit, Generous, HintInv
<1>4. \A c \in Callers : Pending(c)
  BY DEF BucketInit, Pending
<1> QED
  BY <1>2, <1>3, <1>4 DEF BucketInit, ShortInv

\* What a call sees.
LEMMA SeenIs ==
    ASSUME ShortInv
    PROVE  /\ Seen \in Rows /\ Seen \in {bucket, NoBucket}
           /\ Generous(Seen, now, ideal)
           /\ Present(Seen) => Seen = bucket /\ Present(bucket) /\ ~Expired(bucket)
           /\ backend # "dynamo" => Clocked(Seen, now, now)
<1>1. bucket \in Rows /\ NoBucket \in Rows /\ ~Present(NoBucket) /\ now \in Int
  BY NoBucketIs DEF ShortInv, BucketTypeOK
<1>2. Seen \in {bucket, NoBucket} /\ (Seen = NoBucket \/ (Seen = bucket /\ Present(bucket) /\ ~Expired(bucket)))
  BY DEF Seen
<1>3. Generous(Seen, now, ideal)
  BY <1>1, <1>2 DEF ShortInv, Generous
<1>4. backend # "dynamo" => Clocked(Seen, now, now)
  BY <1>1, <1>3, Amounts DEF Clocked, Generous, Off
<1> QED
  BY <1>1, <1>2, <1>3, <1>4

LEMMA ConsumeTold ==
    ASSUME ShortInv, NEW c \in Callers, NEW n \in Costs, backend \in Serial,
           bucket' = After(Seen, now, n, 1), Reply(Seen, now, n, ideal, 0)
    PROVE  /\ bucket' \in Rows
           /\ ideal' \in Int /\ ideal' <= Capacity
           /\ hint' \in Hints
           /\ Generous(bucket', now, ideal')
           /\ hint' # NoHint => /\ hint'.cost <= Capacity
                                /\ Line(bucket', InTime(hint') + Off) >= hint'.cost
           /\ (Stingy(Seen, now, ideal) /\ ClampNow(Seen, now) >= now)
                 => Stingy(bucket', now, ideal')
<1>1. /\ now \in Int /\ ideal \in Int /\ ideal <= Capacity /\ backend \in Backends
      /\ backend # "dynamo"
  BY DEF ShortInv, BucketTypeOK, Serial
<1>2. /\ Seen \in Rows /\ Generous(Seen, now, ideal) /\ Clocked(Seen, now, now)
  BY <1>1, SeenIs
<1>3. n \in 0 .. Capacity /\ 1 \in 1 .. MaxVersion + 1 /\ now <= now /\ now - Off <= now
  BY <1>1, Amounts
<1>4. Reply(Seen, now, n, ideal, now - now)
  BY <1>1
<1> QED
  BY <1>1, <1>2, <1>3, <1>4, Answered

LEMMA WriteTold ==
    ASSUME ShortInv, NEW c \in Callers, Write(c)
    PROVE  /\ bucket' \in Rows
           /\ ideal' \in Int /\ ideal' <= Capacity
           /\ hint' \in Hints
           /\ Generous(bucket', now, ideal')
           /\ hint' # NoHint => /\ hint'.cost <= Capacity
                                /\ Line(bucket', InTime(hint') + Off) >= hint'.cost
           /\ (/\ Stingy(held[c], readAt[c], idealRead[c])
               /\ ClampNow(held[c], Clock(c, readAt[c])) >= Clock(c, readAt[c]))
                 => Stingy(bucket', now, ideal')
           /\ Clocked(held[c], readAt[c], Clock(c, readAt[c]))
           /\ Clock(c, readAt[c]) \in Int /\ readAt[c] - Off <= Clock(c, readAt[c])
<1> DEFINE t == readAt[c]
           k == Clock(c, t)
<1>1. /\ now \in Int /\ backend \in Backends /\ t \in Int /\ t <= now
      /\ held[c] \in Rows /\ idealRead[c] \in Int
      /\ drift[c] \in -MaxDrift .. MaxDrift /\ cost[c] \in 0 .. Capacity
  BY Amounts DEF ShortInv, BucketTypeOK
<1>2. /\ backend = "dynamo" /\ idealRead[c] <= Capacity
      /\ Generous(held[c], t, idealRead[c])
  BY DEF ShortInv, Pending, Write
<1>3. k \in Int /\ k <= t + Off /\ t - Off <= k
  BY <1>1, <1>2, Amounts DEF Clock, Off
<1>4. Clocked(held[c], t, k)
  BY <1>2, <1>3 DEF Clocked, Generous
<1>5. held[c].ver + 1 \in 1 .. MaxVersion + 1
  BY <1>1, Amounts DEF Rows, Write
<1>6. /\ bucket' = After(held[c], k, cost[c], held[c].ver + 1)
      /\ Reply(held[c], k, cost[c], idealRead[c], now - t)
  BY DEF Write
<1> HIDE DEF t, k
<1> QED
  BY <1>1, <1>2, <1>3, <1>4, <1>5, <1>6, Answered DEF t, k

\* The values of a bucket, the ideal one and a hint may be told apart from
\* their times: what is said of them is said again of the primed ones.
LEMMA Restated ==
    ASSUME backend' = backend, now' = now,
           bucket' \in Rows, Generous(bucket', now, ideal'),
           hint' # NoHint => /\ hint'.cost <= Capacity
                             /\ Line(bucket', InTime(hint') + Off) >= hint'.cost
    PROVE  Generous(bucket, now, ideal)' /\ HintInv'
BY DEF Generous, HintInv, InTime, Off, Line, Present

\* A caller that is left alone stays as it is; time does not matter to it, and
\* what others spend does it no good.
LEMMA PendingStays ==
    ASSUME ShortInv, NEW c \in Callers,
           backend' = backend, call'[c] = call[c], held'[c] = held[c], readAt'[c] = readAt[c],
           call[c] = "writing" => idealRead'[c] \in Int /\ idealRead'[c] <= idealRead[c]
    PROVE  Pending(c)'
<1> SUFFICES ASSUME call[c] = "writing"
             PROVE  /\ backend = "dynamo" /\ idealRead'[c] <= Capacity
                    /\ Generous(held[c], readAt[c], idealRead'[c])
  BY DEF Pending, Generous, Off, Line, Present
<1>1. /\ backend = "dynamo" /\ idealRead[c] <= Capacity /\ Generous(held[c], readAt[c], idealRead[c])
      /\ held[c] \in Rows /\ readAt[c] \in Int /\ idealRead[c] \in Int
  BY Amounts DEF ShortInv, Pending, BucketTypeOK
<1>2. readAt[c] <= readAt[c] /\ Rate * (readAt[c] - readAt[c]) = 0
  BY <1>1, Amounts
<1>3. idealRead'[c] <= idealRead[c] + Rate * (readAt[c] - readAt[c])
  BY <1>1, <1>2
<1>4. Generous(held[c], readAt[c], idealRead'[c])
  BY <1>1, <1>2, <1>3, GenerousLater
<1> QED
  BY <1>1, <1>4, Amounts

LEMMA ConsumeShort ==
    ASSUME ShortInv, NEW c \in Callers, ConsumeAtOnce(c)
    PROVE  ShortInv'
<1> PICK n \in Costs : bucket' = After(Seen, now, n, 1) /\ Reply(Seen, now, n, ideal, 0)
  BY DEF ConsumeAtOnce
<1>1. /\ bucket' \in Rows
      /\ ideal' \in Int /\ ideal' <= Capacity
      /\ hint' \in Hints
      /\ Generous(bucket', now, ideal')
      /\ hint' # NoHint => /\ hint'.cost <= Capacity
                           /\ Line(bucket', InTime(hint') + Off) >= hint'.cost
  BY ConsumeTold DEF ConsumeAtOnce
<1>2. UNCHANGED <<now, backend, drift, call, cost, held, readAt, tries, idealRead,
                  overtaken, swapped, lagging>>
  BY DEF ConsumeAtOnce
<1>3. BucketTypeOK'
  BY <1>1, <1>2 DEF ShortInv, BucketTypeOK
<1>4. Generous(bucket, now, ideal)' /\ HintInv'
  BY <1>1, <1>2, Restated
<1>5. \A d \in Callers : Pending(d)'
  <2> SUFFICES ASSUME NEW d \in Callers PROVE Pending(d)'
    OBVIOUS
  <2>1. idealRead[d] \in Int
    BY DEF ShortInv, BucketTypeOK
  <2> QED
    BY <2>1, <1>2, PendingStays
<1> QED
  BY <1>2, <1>3, <1>4, <1>5 DEF ShortInv

LEMMA ReadShort ==
    ASSUME ShortInv, NEW c \in Callers, Read(c)
    PROVE  ShortInv'
<1>1. /\ UNCHANGED <<now, backend, drift, bucket, tries, ideal, hint, overtaken, swapped, lagging>>
      /\ backend = "dynamo"
      /\ call' = [call EXCEPT ![c] = "writing"]
      /\ held' = [held EXCEPT ![c] = bucket]
      /\ readAt' = [readAt EXCEPT ![c] = now]
      /\ idealRead' = [idealRead EXCEPT ![c] = ideal]
      /\ cost' \in [Callers -> Costs \cup {0}]
  BY DEF Read, ShortInv, BucketTypeOK
<1>2. now \in 0 .. now
  BY DEF ShortInv, BucketTypeOK
<1>3. BucketTypeOK'
  BY <1>1, <1>2 DEF ShortInv, BucketTypeOK
<1>4. Generous(bucket, now, ideal)' /\ HintInv'
  BY <1>1 DEF ShortInv, Generous, HintInv, InTime, Off, Line, Present
<1>5. ASSUME NEW d \in Callers
      PROVE  Pending(d)'
  <2>1. CASE d = c
    <3>1. held'[c] = bucket /\ readAt'[c] = now /\ idealRead'[c] = ideal /\ backend' = backend
      BY <1>1 DEF ShortInv, BucketTypeOK
    <3> QED
      BY <2>1, <3>1, <1>1 DEF Pending, ShortInv, BucketTypeOK, Generous, Off, Line, Present
  <2>2. CASE d # c
    <3>1. /\ call'[d] = call[d] /\ held'[d] = held[d] /\ readAt'[d] = readAt[d]
          /\ idealRead'[d] = idealRead[d] /\ idealRead[d] \in Int
      BY <2>2, <1>1 DEF ShortInv, BucketTypeOK
    <3> QED
      BY <3>1, <1>1, PendingStays
  <2> QED
    BY <2>1, <2>2
<1> QED
  BY <1>1, <1>3, <1>4, <1>5 DEF ShortInv

\* Who is paid for by n more.
LEMMA Debited ==
    ASSUME ShortInv, NEW c \in Callers, NEW n \in Nat, Debit(c, n)
    PROVE  /\ idealRead' \in [Callers -> Int]
           /\ \A d \in Callers \ {c} : call[d] = "writing" =>
                 idealRead'[d] = idealRead[d] - n /\ idealRead'[d] <= idealRead[d]
<1>1. idealRead \in [Callers -> Int]
  BY DEF ShortInv, BucketTypeOK
<1> QED
  BY <1>1 DEF Debit

LEMMA ReturnTyped ==
    ASSUME ShortInv, NEW c \in Callers, Return(c), now' = now
    PROVE  /\ call' \in [Callers -> {"idle", "reading", "writing"}]
           /\ cost' \in [Callers -> Costs \cup {0}]
           /\ held' \in [Callers -> Rows]
           /\ readAt' \in [Callers -> 0 .. now]
           /\ tries' \in [Callers -> 0 .. MaxCasRetries - 1]
           /\ call'[c] = "idle"
           /\ \A d \in Callers \ {c} :
                 call'[d] = call[d] /\ held'[d] = held[d] /\ readAt'[d] = readAt[d]
<1>1. /\ call \in [Callers -> {"idle", "reading", "writing"}]
      /\ cost \in [Callers -> Costs \cup {0}]
      /\ held \in [Callers -> Rows]
      /\ readAt \in [Callers -> 0 .. now]
      /\ tries \in [Callers -> 0 .. MaxCasRetries - 1]
      /\ now \in Nat
  BY Amounts DEF ShortInv, BucketTypeOK
<1>2. NoBucket \in Rows /\ 0 \in 0 .. now /\ 0 \in 0 .. MaxCasRetries - 1
  BY <1>1, NoBucketIs, Amounts
<1> QED
  BY <1>1, <1>2 DEF Return

LEMMA WriteShort ==
    ASSUME ShortInv, NEW c \in Callers, Write(c)
    PROVE  ShortInv'
<1>1. /\ bucket' \in Rows
      /\ ideal' \in Int /\ ideal' <= Capacity
      /\ hint' \in Hints
      /\ Generous(bucket', now, ideal')
      /\ hint' # NoHint => /\ hint'.cost <= Capacity
                           /\ Line(bucket', InTime(hint') + Off) >= hint'.cost
      /\ Clocked(held[c], readAt[c], Clock(c, readAt[c])) /\ Clock(c, readAt[c]) \in Int
  BY WriteTold
<1> DEFINE u == ClampNow(held[c], Clock(c, readAt[c]))
           n == Spent(held[c], u, cost[c])
<1>2. /\ UNCHANGED <<now, backend, drift>> /\ Return(c) /\ Debit(c, n)
      /\ swapped' \in BOOLEAN /\ lagging' \in BOOLEAN
      /\ overtaken' \in SUBSET Callers
  BY DEF Write
<1>3. n \in Nat
  <2>1. held[c] \in Rows /\ readAt[c] \in Int /\ cost[c] \in Nat /\ backend \in Backends
    BY Amounts DEF ShortInv, BucketTypeOK
  <2>2. u \in Int
    BY <2>1, <1>1, ClockIs
  <2> QED
    BY <2>1, <2>2, SpentIs
<1> HIDE DEF n, u
<1>4. BucketTypeOK'
  BY <1>1, <1>2, <1>3, Debited, ReturnTyped DEF ShortInv, BucketTypeOK
<1>5. Generous(bucket, now, ideal)' /\ HintInv'
  BY <1>1, <1>2, Restated
<1>6. ASSUME NEW d \in Callers
      PROVE  Pending(d)'
  <2>1. CASE d = c
    BY <2>1, <1>2, ReturnTyped DEF Pending
  <2>2. CASE d # c
    <3>1. call'[d] = call[d] /\ held'[d] = held[d] /\ readAt'[d] = readAt[d]
      BY <2>2, <1>2, ReturnTyped
    <3>2. call[d] = "writing" => idealRead'[d] \in Int /\ idealRead'[d] <= idealRead[d]
      BY <2>2, <1>2, <1>3, Debited
    <3> QED
      BY <3>1, <3>2, <1>2, PendingStays
  <2> QED
    BY <2>1, <2>2
<1> QED
  BY <1>2, <1>4, <1>5, <1>6 DEF ShortInv

\* A write that fails leaves the bucket, the ideal one and the others alone.
LEMMA VainShort ==
    ASSUME ShortInv, NEW c \in Callers, Conflict(c) \/ GiveUp(c)
    PROVE  ShortInv'
<1>1. /\ UNCHANGED <<now, backend, drift, bucket, ideal, swapped, lagging>>
      /\ Debit(c, 0) /\ overtaken' \in SUBSET Callers
      /\ hint' \in Hints /\ (hint' = hint \/ Lost(hint'))
  <2>1. Conflict(c) => hint' = hint
    BY DEF Conflict
  <2>2. GiveUp(c) => hint' \in Hints /\ Lost(hint')
    <3>1. RetryAfter(NoBucket, Clock(c, now), cost[c]) \in Int /\ now \in Int
          /\ cost[c] \in 0 .. Capacity
          /\ RetryAfter(NoBucket, Clock(c, now), cost[c]) = 0
      <4>1. /\ NoBucket \in Rows /\ ~Present(NoBucket) /\ cost[c] \in 0 .. Capacity
            /\ now \in Int
        BY NoBucketIs, Amounts DEF ShortInv, BucketTypeOK
      <4> QED
        BY <4>1, Amounts DEF RetryAfter, Enough, Refill
    <3> QED
      BY <3>1, Amounts DEF GiveUp, Hints, Lost
  <2> QED
    BY <2>1, <2>2 DEF Conflict, GiveUp, ShortInv, BucketTypeOK
<1>2. /\ call' \in [Callers -> {"idle", "reading", "writing"}]
      /\ cost' \in [Callers -> Costs \cup {0}]
      /\ held' \in [Callers -> Rows]
      /\ readAt' \in [Callers -> 0 .. now]
      /\ tries' \in [Callers -> 0 .. MaxCasRetries - 1]
      /\ call'[c] # "writing"
      /\ \A d \in Callers \ {c} :
            call'[d] = call[d] /\ held'[d] = held[d] /\ readAt'[d] = readAt[d]
  <2>1. CASE GiveUp(c)
    <3>1. Return(c) /\ now' = now
      BY <2>1 DEF GiveUp
    <3> QED
      BY <3>1, ReturnTyped
  <2>2. CASE Conflict(c)
    <3>1. tries[c] + 1 \in 0 .. MaxCasRetries - 1
      BY <2>2, Amounts DEF Conflict, ShortInv, BucketTypeOK
    <3> QED
      BY <2>2, <3>1 DEF Conflict, ShortInv, BucketTypeOK
  <2> QED
    BY <2>1, <2>2
<1>3. /\ idealRead' \in [Callers -> Int]
      /\ \A d \in Callers \ {c} : call[d] = "writing" => idealRead'[d] <= idealRead[d]
  BY <1>1, Debited
<1>4. BucketTypeOK'
  <2>1. hint' \in Hints
    BY <1>1
  <2> QED
    BY <2>1, <1>1, <1>2, <1>3 DEF ShortInv, BucketTypeOK
<1>5. Generous(bucket, now, ideal)' /\ HintInv'
  <2>1. Generous(bucket, now, ideal)'
    BY <1>1 DEF ShortInv, Generous, Off, Line, Present
  <2>2. hint' = hint => HintInv'
    BY <1>1 DEF ShortInv, HintInv, InTime, Off, Line, Present, InTime
  <2>3. Lost(hint') => HintInv'
    <3> SUFFICES ASSUME Lost(hint'), Present(bucket)
                 PROVE  Line(bucket, InTime(hint') + Off) >= hint'.cost
      BY <1>1 DEF HintInv, Lost, Off, Line, Present, InTime
    <3>1. /\ hint' \in Hints /\ hint'.lost /\ hint'.due = now /\ hint'.cost \in Nat
          /\ bucket \in Rows /\ now \in Int /\ bucket.at <= now + Off
      BY <1>1, Amounts DEF Lost, ShortInv, BucketTypeOK, Generous, Hints
    <3> DEFINE w == InTime(hint')
    <3>2. w \in Int /\ Rate * (w - now) >= hint'.cost
      BY <3>1, HintTimed
    <3> HIDE DEF w
    <3>3. /\ bucket.at \in Int /\ bucket.tokens \in Nat /\ Off \in Int
          /\ w - now <= (w + Off) - bucket.at
      BY <3>1, <3>2, Amounts DEF Rows, Off
    <3>4. /\ Rate * (w - now) <= Rate * ((w + Off) - bucket.at)
          /\ Rate * (w - now) \in Int /\ Rate * ((w + Off) - bucket.at) \in Int
      BY <3>1, <3>2, <3>3, Scaled, Amounts
    <3>5. Line(bucket, w + Off) = bucket.tokens + Rate * ((w + Off) - bucket.at)
      BY DEF Line
    <3> QED
      BY <3>1, <3>2, <3>3, <3>4, <3>5 DEF w
  <2> QED
    BY <1>1, <2>1, <2>2, <2>3
<1>6. ASSUME NEW d \in Callers
      PROVE  Pending(d)'
  <2>1. CASE d = c
    BY <2>1, <1>2 DEF Pending
  <2>2. CASE d # c
    <3>1. /\ call'[d] = call[d] /\ held'[d] = held[d] /\ readAt'[d] = readAt[d]
          /\ call[d] = "writing" => idealRead'[d] \in Int /\ idealRead'[d] <= idealRead[d]
      BY <2>2, <1>2, <1>3
    <3> QED
      BY <3>1, <1>1, PendingStays
  <2> QED
    BY <2>1, <2>2
<1> QED
  BY <1>1, <1>4, <1>5, <1>6 DEF ShortInv

\* Nobody is short of a bucket that is not there.
LEMMA SweepShort ==
    ASSUME ShortInv, Sweep
    PROVE  ShortInv'
<1>1. /\ UNCHANGED <<now, backend, drift, call, cost, held, readAt, tries, pastVars>>
      /\ bucket' = NoBucket
  BY DEF Sweep
<1>2. NoBucket \in Rows /\ ~Present(NoBucket)
  BY NoBucketIs
<1>3. BucketTypeOK'
  BY <1>1, <1>2 DEF ShortInv, BucketTypeOK, pastVars
<1>4. Generous(bucket, now, ideal)' /\ HintInv'
  BY <1>1, <1>2 DEF ShortInv, Generous, HintInv, InTime, Off, pastVars, Present
<1>5. ASSUME NEW d \in Callers
      PROVE  Pending(d)'
  BY <1>1 DEF ShortInv, Pending, Generous, Off, Line, Present, pastVars
<1> QED
  BY <1>1, <1>3, <1>4, <1>5 DEF ShortInv

LEMMA Ticked ==
    ASSUME ShortInv, Tick
    PROVE  /\ now \in Nat /\ now' = now + 1 /\ now' \in 0 .. Horizon
           /\ ideal' = AtMost(Capacity, ideal + Rate * (now' - now))
           /\ ideal' \in Int /\ ideal' <= Capacity /\ ideal' <= ideal + Rate * (now' - now)
           /\ UNCHANGED <<backend, drift, storeVars, idealRead, hint, overtaken, swapped, lagging>>
<1>1. now \in 0 .. Horizon /\ ideal \in Int
  BY DEF ShortInv, BucketTypeOK
<1>2. /\ now' = now + 1 /\ now < Horizon /\ ideal' = AtMost(Capacity, ideal + Rate)
      /\ UNCHANGED <<backend, drift, storeVars, idealRead, hint, overtaken, swapped, lagging>>
  BY DEF Tick
<1>3. Rate * (now' - now) = Rate
  BY <1>1, <1>2, Amounts
<1>4. /\ AtMost(Capacity, ideal + Rate) \in Int /\ AtMost(Capacity, ideal + Rate) <= Capacity
      /\ AtMost(Capacity, ideal + Rate) <= ideal + Rate
  BY <1>1, Lesser, Amounts
<1> QED
  BY <1>1, <1>2, <1>3, <1>4, Amounts

LEMMA TickShort ==
    ASSUME ShortInv, Tick
    PROVE  ShortInv'
<1>1. /\ now \in Nat /\ now' = now + 1 /\ now' \in 0 .. Horizon
      /\ ideal' \in Int /\ ideal' <= Capacity /\ ideal' <= ideal + Rate * (now' - now)
      /\ UNCHANGED <<backend, drift, storeVars, idealRead, hint, overtaken, swapped, lagging>>
  BY Ticked
<1>2. BucketTypeOK'
  <2>1. \A t \in 0 .. now : t \in 0 .. now'
    BY <1>1
  <2>2. readAt' \in [Callers -> 0 .. now']
    BY <2>1, <1>1 DEF ShortInv, BucketTypeOK, storeVars
  <2> QED
    BY <1>1, <2>2 DEF ShortInv, BucketTypeOK, storeVars
<1>3. Generous(bucket, now, ideal)'
  <2>1. bucket \in Rows /\ ideal \in Int /\ now <= now' /\ Generous(bucket, now, ideal)
    BY <1>1 DEF ShortInv, BucketTypeOK
  <2>2. Generous(bucket, now', ideal')
    BY <2>1, <1>1, GenerousLater
  <2> QED
    BY <2>2, <1>1 DEF Generous, Off, Line, Present, storeVars
<1>4. HintInv'
  BY <1>1 DEF ShortInv, HintInv, InTime, Off, Line, Present, storeVars
<1>5. ASSUME NEW d \in Callers
      PROVE  Pending(d)'
  BY <1>1 DEF ShortInv, Pending, Generous, Off, Line, Present, storeVars
<1> QED
  BY <1>1, <1>2, <1>3, <1>4, <1>5 DEF ShortInv

LEMMA NextShort == ShortInv /\ [BucketNext]_bucketVars => ShortInv'
<1> SUFFICES ASSUME ShortInv, [BucketNext]_bucketVars PROVE ShortInv'
  OBVIOUS
<1>1. ASSUME NEW c \in Callers, CallStep(c) PROVE ShortInv'
  BY <1>1, ConsumeShort, ReadShort, WriteShort, VainShort DEF CallStep
<1>2. CASE Sweep
  BY <1>2, SweepShort
<1>3. CASE Tick
  BY <1>3, TickShort
<1>4. CASE UNCHANGED bucketVars
  BY <1>4 DEF bucketVars, storeVars, pastVars, ShortInv, BucketTypeOK, Generous, HintInv,
    Pending, Off, Line, Present
<1> QED
  BY <1>1, <1>2, <1>3, <1>4 DEF BucketNext

LEMMA Short == BucketSpec => []ShortInv
BY InitShort, NextShort, PTL DEF BucketSpec

\* Every back-end's bucket, clocks, callers and history keep their types, for
\* any capacity, rate, costs, drift and number of callers.
THEOREM BucketTypeCorrect == BucketSpec => []BucketTypeOK
<1>1. ShortInv => BucketTypeOK
  BY DEF ShortInv
<1> QED
  BY <1>1, Short, PTL

\* What a request finds is the bucket's line, or a full bucket.
LEMMA ContentIs ==
    ASSUME ShortInv
    PROVE  /\ Content \in 0 .. Capacity
           /\ Content = Capacity \/ (Present(bucket) /\ Content >= Line(bucket, now))
<1> DEFINE u == ClampNow(Seen, now)
<1>1. /\ Seen \in Rows /\ now \in Int /\ backend \in Backends
      /\ Present(Seen) => Seen = bucket /\ Present(bucket) /\ Seen.at <= now + Off
  BY SeenIs DEF ShortInv, BucketTypeOK, Generous
<1>2. Present(Seen) /\ backend \notin Clamps => now >= Seen.at
  BY <1>1, Amounts DEF Clamps, Backends, Off, Rows
<1>3. /\ u \in Int
      /\ Present(Seen) => u >= Seen.at /\ (u >= now \/ u = Seen.at + MaxElapsed)
  BY <1>1, <1>2, Clamped
<1>4. /\ Refill(Seen, u) \in 0 .. Capacity
      /\ ~Present(Seen) => Refill(Seen, u) = Capacity
      /\ Present(Seen) => Refill(Seen, u) = Capacity \/ Refill(Seen, u) = Line(Seen, u)
  BY <1>1, <1>3, Refilled
<1>5. ASSUME Present(Seen), u >= now
      PROVE  Line(Seen, u) >= Line(Seen, now)
  BY <1>1, <1>3, <1>5, LineMoves
<1>6. ASSUME Present(Seen), u = Seen.at + MaxElapsed
      PROVE  Line(Seen, u) >= Capacity
  <2>1. Seen.at \in Int /\ Seen.tokens \in Nat /\ u - Seen.at = MaxElapsed
    BY <1>1, <1>6, Amounts DEF Rows
  <2>2. Line(Seen, u) = Seen.tokens + Rate * MaxElapsed
    BY <2>1 DEF Line
  <2> QED
    BY <2>1, <2>2, SaneBucket, Amounts
<1>7. Line(Seen, u) \in Int /\ Line(Seen, now) \in Int
  BY <1>1, <1>3, LineMoves
<1>8. Content = Refill(Seen, u)
  BY DEF Content
<1> HIDE DEF u
<1> QED
  BY <1>1, <1>3, <1>4, <1>5, <1>6, <1>7, <1>8, Amounts

LEMMA AllowanceIs ==
    /\ Allowance \in Int /\ Rate * Off \in Int /\ Rate * Off >= 0
    /\ backend = "dynamo" => 2 * (Rate * Off) = Allowance
    /\ backend # "dynamo" => Rate * Off = 0
<1>1. Allowance = 2 * (Rate * MaxDrift) /\ Rate * MaxDrift \in Nat
  BY Amounts DEF Allowance
<1>2. Off = IF backend = "dynamo" THEN MaxDrift ELSE 0
  BY DEF Off
<1> QED
  BY <1>1, <1>2, Amounts

\* No bucket is harsher than its specification, whatever the sweep does, and
\* even where a DynamoDB write went over a row it had not read, or late: all a
\* caller may miss is what the clocks differ by.
THEOREM NoneIsHarsher == BucketSpec => []NeverHarsher
<1>1. ASSUME ShortInv PROVE NeverHarsher
  <2>1. /\ Content \in 0 .. Capacity
        /\ Content = Capacity \/ (Present(bucket) /\ Content >= Line(bucket, now))
    BY <1>1, ContentIs
  <2>2. /\ ideal \in Int /\ ideal <= Capacity /\ bucket \in Rows /\ now \in Int
        /\ Present(bucket) => Line(bucket, now) >= ideal - Rate * Off
    BY <1>1 DEF ShortInv, BucketTypeOK, Generous
  <2>3. Line(bucket, now) \in Int
    BY <2>2, LineMoves
  <2> QED
    BY <2>1, <2>2, <2>3, AllowanceIs, Amounts DEF NeverHarsher
<1> QED
  BY <1>1, Short, PTL

\* Whoever waits as long as Retry-After said, and twice the clocks' difference
\* with DynamoDB, finds the tokens, if nobody else asked; and after DynamoDB's
\* answer to lost retries, as long as they take to refill an empty bucket.
THEOREM RetriesAreHonest == BucketSpec => []RetryHonest
<1>1. ASSUME ShortInv PROVE RetryHonest
  <2> DEFINE due == InTime(hint) + (IF backend = "dynamo" THEN 2 * MaxDrift ELSE 0)
  <2> SUFFICES ASSUME hint # NoHint, now >= due PROVE Content >= hint.cost
    BY DEF RetryHonest
  <2>1. /\ Content \in 0 .. Capacity
        /\ Content = Capacity \/ (Present(bucket) /\ Content >= Line(bucket, now))
    BY <1>1, ContentIs
  <2>2. /\ hint.cost \in Nat /\ hint.cost <= Capacity /\ InTime(hint) \in Int
        /\ bucket \in Rows /\ now \in Int
        /\ Present(bucket) => Line(bucket, InTime(hint) + Off) >= hint.cost
    BY <1>1, HintTimed DEF ShortInv, BucketTypeOK, HintInv, Hints
  <2>3. InTime(hint) + Off \in Int /\ InTime(hint) + Off <= now
    BY <2>2, Amounts DEF Off
  <2>4. Line(bucket, InTime(hint) + Off) <= Line(bucket, now)
    BY <2>2, <2>3, LineMoves
  <2>5. Line(bucket, now) \in Int /\ Line(bucket, InTime(hint) + Off) \in Int
    BY <2>2, <2>3, LineMoves
  <2> QED
    BY <2>1, <2>2, <2>4, <2>5, Amounts
<1> QED
  BY <1>1, Short, PTL

-----------------------------------------------------------------------------
\* That no bucket is overspent.

\* The bucket, and what a caller has read and may still write, are worth no
\* more than the ideal one; what may be dropped is full.
SpendInv == ~swapped /\ ~lagging =>
    /\ Stingy(bucket, now, ideal)
    /\ Lasts(bucket)
    /\ \A c \in Callers \ overtaken :
          call[c] = "writing" => Stingy(held[c], readAt[c], idealRead[c])

LEMMA InitSpend == BucketInit => SpendInv
<1> SUFFICES ASSUME BucketInit PROVE SpendInv
  OBVIOUS
<1>1. ~Present(bucket)
  BY NoBucketIs DEF BucketInit
<1>2. Stingy(bucket, now, ideal)
  BY Amounts DEF BucketInit, Stingy
<1>3. \A c \in Callers : call[c] # "writing"
  BY DEF BucketInit
<1> QED
  BY <1>1, <1>2, <1>3 DEF SpendInv, Lasts

\* A row past its time is full, by true time.
LEMMA LapsedIsFull ==
    ASSUME ShortInv, Present(bucket), Stingy(bucket, now, ideal), Lasts(bucket),
           backend # "memory", bucket.exp <= now
    PROVE  ideal >= Capacity
<1>1. bucket \in Rows /\ bucket.exp \in Int /\ now \in Int /\ ideal \in Int
  BY DEF ShortInv, BucketTypeOK, Rows
<1>2. Line(bucket, bucket.exp) <= Line(bucket, now)
  BY <1>1, LineMoves
<1>3. Line(bucket, bucket.exp) \in Int /\ Line(bucket, now) \in Int
  BY <1>1, LineMoves
<1>4. Line(bucket, bucket.exp) >= Capacity + Rate * Off
  BY DEF Lasts
<1> QED
  BY <1>1, <1>2, <1>3, <1>4, AllowanceIs, Amounts DEF Stingy

LEMMA SeenIsStingy ==
    ASSUME ShortInv, Stingy(bucket, now, ideal), Lasts(bucket)
    PROVE  Stingy(Seen, now, ideal)
<1>1. CASE Present(bucket) /\ ~Expired(bucket)
  BY <1>1 DEF Seen
<1>2. CASE Present(bucket) /\ Expired(bucket)
  <2>1. ideal >= Capacity
    BY <1>2, LapsedIsFull DEF Expired
  <2> QED
    BY <2>1 DEF Stingy
<1>3. CASE ~Present(bucket)
  BY <1>3 DEF Stingy
<1> QED
  BY <1>1, <1>2, <1>3

\* No refill is cut while its row is there, but for DynamoDB's rows that
\* outlive theirs.
LEMMA NotCut ==
    ASSUME ShortInv, Lasts(bucket), backend \in Serial
    PROVE  ClampNow(Seen, now) >= now
<1>1. /\ Seen \in Rows /\ now \in Int /\ bucket \in Rows
      /\ Present(Seen) => Seen = bucket /\ Present(bucket) /\ ~Expired(bucket)
  BY SeenIs DEF ShortInv, BucketTypeOK
<1>2. Present(Seen) => Seen.at <= now
  BY SeenIs, <1>1, Amounts DEF Clocked, Serial, Off
<1>3. CASE ~Present(Seen) \/ backend # "redis"
  <2>1. ClampNow(Seen, now) = now
    BY <1>3 DEF ClampNow, Clamps, Serial, Backends
  <2> QED
    BY <2>1, <1>1
<1>4. CASE Present(Seen) /\ backend = "redis"
  <2>1. now < bucket.exp /\ bucket.exp <= bucket.at + MaxElapsed /\ bucket.exp \in Int /\ bucket.at \in Int
    BY <1>1, <1>4 DEF Lasts, Expired, Rows
  <2>2. now < Seen.at + MaxElapsed /\ Seen.at + MaxElapsed \in Int
    BY <1>1, <1>4, <2>1, Amounts
  <2>3. AtLeast(now, Seen.at) = now
    BY <1>1, <1>2, <1>4, Greater DEF Rows
  <2>4. AtMost(now, Seen.at + MaxElapsed) = now
    BY <1>1, <2>2, Lesser
  <2>5. ClampNow(Seen, now) = now
    BY <1>4, <2>3, <2>4 DEF ClampNow, Clamps
  <2> QED
    BY <2>5, <1>1
<1> QED
  BY <1>3, <1>4

\* What is said of the values is said again of the primed ones.
LEMMA SpendRestated ==
    ASSUME backend' = backend, now' = now,
           Stingy(bucket', now, ideal'), Lasts(bucket')
    PROVE  Stingy(bucket, now, ideal)' /\ Lasts(bucket)'
BY DEF Stingy, Lasts, Off, Line, Present

LEMMA ReadersRestated ==
    ASSUME backend' = backend, NEW c \in Callers,
           held'[c] = held[c], readAt'[c] = readAt[c], idealRead'[c] = idealRead[c],
           Stingy(held[c], readAt[c], idealRead[c])
    PROVE  Stingy(held[c], readAt[c], idealRead[c])'
BY DEF Stingy, Off, Line, Present

LEMMA ConsumeSpend ==
    ASSUME RowsOutlast, RefillsInTime, ShortInv, SpendInv, NEW c \in Callers, ConsumeAtOnce(c)
    PROVE  SpendInv'
<1> PICK n \in Costs : bucket' = After(Seen, now, n, 1) /\ Reply(Seen, now, n, ideal, 0)
  BY DEF ConsumeAtOnce
<1>1. /\ backend \in Serial
      /\ UNCHANGED <<now, backend, drift, call, cost, held, readAt, tries, idealRead,
                     overtaken, swapped, lagging>>
  BY DEF ConsumeAtOnce
<1> SUFFICES ASSUME ~swapped, ~lagging
             PROVE  /\ Stingy(bucket, now, ideal)' /\ Lasts(bucket)'
                    /\ \A d \in Callers \ overtaken :
                          call[d] = "writing" => Stingy(held[d], readAt[d], idealRead[d])'
  BY <1>1 DEF SpendInv
<1>2. Stingy(Seen, now, ideal) /\ ClampNow(Seen, now) >= now
  BY <1>1, SeenIsStingy, NotCut DEF SpendInv
<1>3. Stingy(bucket', now, ideal')
  BY <1>1, <1>2, ConsumeTold
<1>4. Lasts(bucket')
  <2>1. /\ Seen \in Rows /\ Clocked(Seen, now, now) /\ backend \in Backends
        /\ now \in Int /\ n \in Nat /\ 1 \in Int /\ now - Off <= now
    BY <1>1, SeenIs, Amounts DEF ShortInv, BucketTypeOK, Serial
  <2> QED
    BY <2>1, <1>2, LastingWrite
<1> QED
  BY <1>1, <1>3, <1>4, SpendRestated, ReadersRestated DEF SpendInv

LEMMA ReadSpend ==
    ASSUME ShortInv, SpendInv, NEW c \in Callers, Read(c)
    PROVE  SpendInv'
<1>1. /\ UNCHANGED <<now, backend, bucket, ideal, overtaken, swapped, lagging>>
      /\ call' = [call EXCEPT ![c] = "writing"]
      /\ held'[c] = bucket /\ readAt'[c] = now /\ idealRead'[c] = ideal
      /\ \A d \in Callers \ {c} :
            call'[d] = call[d] /\ held'[d] = held[d] /\ readAt'[d] = readAt[d]
            /\ idealRead'[d] = idealRead[d]
  BY DEF Read, ShortInv, BucketTypeOK
<1> SUFFICES ASSUME ~swapped, ~lagging
             PROVE  /\ Stingy(bucket, now, ideal)' /\ Lasts(bucket)'
                    /\ \A d \in Callers \ overtaken :
                          call'[d] = "writing" => Stingy(held[d], readAt[d], idealRead[d])'
  BY <1>1 DEF SpendInv
<1>2. Stingy(bucket, now, ideal)' /\ Lasts(bucket)'
  BY <1>1, SpendRestated DEF SpendInv
<1>3. ASSUME NEW d \in Callers \ overtaken, call'[d] = "writing"
      PROVE  Stingy(held[d], readAt[d], idealRead[d])'
  <2>1. CASE d = c
    <3>1. Stingy(bucket, now, ideal)
      BY DEF SpendInv
    <3> QED
      BY <2>1, <3>1, <1>1 DEF Stingy, Off, Line, Present
  <2>2. CASE d # c
    BY <2>2, <1>1, <1>3, ReadersRestated DEF SpendInv
  <2> QED
    BY <2>1, <2>2
<1> QED
  BY <1>2, <1>3

LEMMA WriteSpend ==
    ASSUME RowsOutlast, RefillsInTime, ShortInv, SpendInv, NEW c \in Callers, Write(c)
    PROVE  SpendInv'
<1> DEFINE t == readAt[c]
           k == Clock(c, t)
<1>1. /\ UNCHANGED <<now, backend, drift>> /\ Return(c)
      /\ call[c] = "writing" /\ SameVersion(c)
      /\ bucket' = After(held[c], k, cost[c], held[c].ver + 1)
      /\ swapped' = (swapped \/ (c \in overtaken /\ bucket.ver = held[c].ver))
      /\ lagging' = (lagging \/ ClampNow(held[c], k) < k)
      /\ overtaken' = {d \in Callers \ {c} : call[d] = "writing"}
  BY DEF Write
<1> SUFFICES ASSUME ~swapped', ~lagging'
             PROVE  /\ Stingy(bucket, now, ideal)' /\ Lasts(bucket)'
                    /\ \A d \in Callers \ overtaken' : call'[d] # "writing"
  BY DEF SpendInv
<1>2. /\ ~swapped /\ ~lagging /\ c \notin overtaken /\ ~(ClampNow(held[c], k) < k)
  BY <1>1 DEF SameVersion
<1>3. /\ held[c] \in Rows /\ t \in Int /\ cost[c] \in Nat /\ held[c].ver + 1 \in Int
      /\ backend \in Backends /\ Clocked(held[c], t, k) /\ k \in Int /\ t - Off <= k
  BY WriteTold, Amounts DEF ShortInv, BucketTypeOK, Rows
<1>4. ClampNow(held[c], k) >= k
  <2>1. ClampNow(held[c], k) \in Int
    BY <1>3, ClockIs
  <2> QED
    BY <2>1, <1>2, <1>3
<1>5. Stingy(held[c], t, idealRead[c])
  BY <1>1, <1>2 DEF SpendInv
<1>6. Stingy(bucket', now, ideal')
  BY <1>4, <1>5, WriteTold
<1>7. Lasts(bucket')
  BY <1>1, <1>3, <1>4, LastingWrite
<1>8. ASSUME NEW d \in Callers \ overtaken'
      PROVE  call'[d] # "writing"
  BY <1>1, ReturnTyped
<1> QED
  BY <1>1, <1>6, <1>7, <1>8, SpendRestated

LEMMA VainSpend ==
    ASSUME ShortInv, SpendInv, NEW c \in Callers, Conflict(c) \/ GiveUp(c)
    PROVE  SpendInv'
<1>1. /\ UNCHANGED <<now, backend, bucket, ideal, swapped, lagging>>
      /\ Debit(c, 0) /\ overtaken' = overtaken \ {c}
  BY DEF Conflict, GiveUp
<1>2. /\ call'[c] # "writing"
      /\ \A d \in Callers \ {c} :
            call'[d] = call[d] /\ held'[d] = held[d] /\ readAt'[d] = readAt[d]
  BY ReturnTyped DEF Conflict, GiveUp, ShortInv, BucketTypeOK
<1>3. \A d \in Callers \ {c} : call[d] = "writing" => idealRead'[d] = idealRead[d]
  <2>1. \A d \in Callers : idealRead[d] \in Int
    BY DEF ShortInv, BucketTypeOK
  <2> QED
    BY <2>1, <1>1, Debited
<1> SUFFICES ASSUME ~swapped, ~lagging
             PROVE  /\ Stingy(bucket, now, ideal)' /\ Lasts(bucket)'
                    /\ \A d \in Callers \ overtaken' :
                          call'[d] = "writing" => Stingy(held[d], readAt[d], idealRead[d])'
  BY <1>1 DEF SpendInv
<1>4. Stingy(bucket, now, ideal)' /\ Lasts(bucket)'
  BY <1>1, SpendRestated DEF SpendInv
<1>5. ASSUME NEW d \in Callers \ overtaken', call'[d] = "writing"
      PROVE  Stingy(held[d], readAt[d], idealRead[d])'
  <2>1. d # c /\ d \in Callers \ overtaken /\ call[d] = "writing"
    BY <1>1, <1>2, <1>5
  <2>2. Stingy(held[d], readAt[d], idealRead[d])
    BY <2>1 DEF SpendInv
  <2> QED
    BY <2>1, <2>2, <1>1, <1>2, <1>3, ReadersRestated
<1> QED
  BY <1>4, <1>5

\* What is dropped is full, by true time.
LEMMA SweepSpend ==
    ASSUME ShortInv, SpendInv, Sweep
    PROVE  SpendInv'
<1>1. /\ UNCHANGED <<now, backend, drift, call, cost, held, readAt, tries, pastVars>>
      /\ bucket' = NoBucket /\ Present(bucket)
      /\ IF backend = "memory" THEN Refill(bucket, now) = Capacity
         ELSE bucket.exp < now \/ (bucket.exp = now /\ backend # "durable")
  BY DEF Sweep
<1> SUFFICES ASSUME ~swapped, ~lagging
             PROVE  /\ Stingy(bucket, now, ideal)' /\ Lasts(bucket)'
                    /\ \A d \in Callers \ overtaken' :
                          call'[d] = "writing" => Stingy(held[d], readAt[d], idealRead[d])'
  BY <1>1 DEF SpendInv, pastVars
<1>2. /\ bucket \in Rows /\ now \in Int /\ ideal \in Int
      /\ Stingy(bucket, now, ideal) /\ Lasts(bucket) /\ bucket.at <= now + Off
      /\ bucket.exp \in Int
  BY <1>1 DEF ShortInv, SpendInv, BucketTypeOK, Generous, Rows
<1>3. ideal >= Capacity
  <2>1. CASE backend = "memory"
    <3>1. Off = 0 /\ bucket.at <= now
      BY <2>1, <1>2, Amounts DEF Off, Rows
    <3>2. Line(bucket, now) >= Capacity /\ Line(bucket, now) \in Int
      BY <2>1, <3>1, <1>1, <1>2, Refilled, LineMoves, Amounts
    <3> QED
      BY <2>1, <3>2, <1>2, AllowanceIs, Amounts DEF Stingy
  <2>2. CASE backend # "memory"
    <3>1. bucket.exp <= now
      BY <2>2, <1>1, <1>2
    <3> QED
      BY <2>2, <3>1, <1>1, <1>2, LapsedIsFull
  <2> QED
    BY <2>1, <2>2
<1>4. Stingy(bucket, now, ideal)' /\ Lasts(bucket)'
  BY <1>1, <1>3, NoBucketIs DEF Stingy, Lasts, pastVars, Present
<1>5. ASSUME NEW d \in Callers \ overtaken', call'[d] = "writing"
      PROVE  Stingy(held[d], readAt[d], idealRead[d])'
  BY <1>1, <1>5, ReadersRestated DEF SpendInv, pastVars
<1> QED
  BY <1>4, <1>5

LEMMA TickSpend ==
    ASSUME ShortInv, SpendInv, Tick
    PROVE  SpendInv'
<1>1. /\ now \in Nat /\ now' = now + 1
      /\ ideal' = AtMost(Capacity, ideal + Rate * (now' - now))
      /\ UNCHANGED <<backend, drift, storeVars, idealRead, hint, overtaken, swapped, lagging>>
  BY Ticked
<1> SUFFICES ASSUME ~swapped, ~lagging
             PROVE  /\ Stingy(bucket, now, ideal)' /\ Lasts(bucket)'
                    /\ \A d \in Callers \ overtaken' :
                          call'[d] = "writing" => Stingy(held[d], readAt[d], idealRead[d])'
  BY <1>1 DEF SpendInv, storeVars
<1>2. Stingy(bucket, now', ideal')
  <2>1. bucket \in Rows /\ ideal \in Int /\ Stingy(bucket, now, ideal)
        /\ now \in Int /\ now' \in Int /\ now <= now'
    BY <1>1 DEF ShortInv, SpendInv, BucketTypeOK
  <2>2. Stingy(bucket, now', AtMost(Capacity, ideal + Rate * (now' - now)))
    BY <2>1, StingyLater
  <2> QED
    BY <2>2, <1>1
<1>3. Stingy(bucket, now, ideal)' /\ Lasts(bucket)'
  BY <1>1, <1>2 DEF SpendInv, Stingy, Lasts, Off, Line, Present, storeVars
<1>4. ASSUME NEW d \in Callers \ overtaken', call'[d] = "writing"
      PROVE  Stingy(held[d], readAt[d], idealRead[d])'
  BY <1>1, <1>4, ReadersRestated DEF SpendInv, storeVars
<1> QED
  BY <1>3, <1>4

LEMMA NextSpend ==
    ASSUME RowsOutlast, RefillsInTime
    PROVE  ShortInv /\ SpendInv /\ [BucketNext]_bucketVars => SpendInv'
<1> SUFFICES ASSUME ShortInv, SpendInv, [BucketNext]_bucketVars PROVE SpendInv'
  OBVIOUS
<1>1. ASSUME NEW c \in Callers, CallStep(c) PROVE SpendInv'
  BY <1>1, ConsumeSpend, ReadSpend, WriteSpend, VainSpend DEF CallStep
<1>2. CASE Sweep
  BY <1>2, SweepSpend
<1>3. CASE Tick
  BY <1>3, TickSpend
<1>4. CASE UNCHANGED bucketVars
  BY <1>4 DEF bucketVars, storeVars, pastVars, SpendInv, Stingy, Lasts, Off, Line, Present
<1> QED
  BY <1>1, <1>2, <1>3, <1>4 DEF BucketNext

\* No back-end gives out more than the ideal bucket has, but for the clocks'
\* difference, once, however calls, expiry and sweep interleave and however
\* late a write comes.  It takes that rows outlast a refill, with the clocks'
\* difference to spare: a row that is swept before is worth a refill of what it
\* lacked.
THEOREM NoneIsOverspent ==
    ASSUME RowsOutlast, RefillsInTime
    PROVE  BucketSpec => []NoOverspend
<1>1. ASSUME ShortInv, SpendInv PROVE NoOverspend
  <2> SUFFICES ASSUME ~swapped, ~lagging
               PROVE  ideal >= -(IF backend = "dynamo" THEN Allowance ELSE 0)
    BY DEF NoOverspend
  <2>1. Stingy(bucket, now, ideal) /\ ideal \in Int /\ bucket \in Rows /\ now \in Int
        /\ Generous(bucket, now, ideal)
    BY <1>1 DEF ShortInv, SpendInv, BucketTypeOK
  <2>2. CASE ideal >= Capacity
    BY <2>1, <2>2, AllowanceIs, Amounts
  <2>3. CASE Present(bucket) /\ ideal >= Line(bucket, now) - Rate * Off
    <3>1. bucket.at \in Int /\ bucket.tokens \in Nat /\ now - bucket.at >= -Off /\ Off \in Nat
      BY <2>1, <2>3, Amounts DEF Generous, Rows
    <3>2. Rate * (now - bucket.at) >= Rate * (-Off) /\ Rate * (-Off) = -(Rate * Off)
          /\ Rate * (now - bucket.at) \in Int
      BY <2>1, <3>1, Scaled, Amounts
    <3>3. Line(bucket, now) >= -(Rate * Off) /\ Line(bucket, now) \in Int
      BY <3>1, <3>2, AllowanceIs DEF Line
    <3> QED
      BY <2>1, <2>3, <3>3, AllowanceIs
  <2> QED
    BY <2>1, <2>2, <2>3 DEF Stingy
<1>2. ShortInv /\ SpendInv /\ [BucketNext]_bucketVars => SpendInv'
  BY NextSpend
<1> QED
  BY <1>1, <1>2, InitShort, InitSpend, NextShort, PTL DEF BucketSpec
=============================================================================
