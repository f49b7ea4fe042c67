------------------------ MODULE SignedRequests_proofs ------------------------
(***************************************************************************)
(* Proofs about SignedRequests for any number of copies and servers, any   *)
(* window, drift, cache time and read time, and any time.                  *)
(*                                                                         *)
(* The argument for AcceptedOnce: no row is stored with a deadline before  *)
(* Lapse (Deadlines), because its request was in the window when it came.  *)
(* Until then no row is stale or swept, so the first claim's row stays and *)
(* whoever is fresh is its owner (Early).  From then on whoever is still   *)
(* served, and came in its window, is slow.                                *)
(*                                                                         *)
(* For the keys: what a read found was there when the read was asked for   *)
(* or later (Readers), an entry of a cache is that of a read which did not *)
(* fail (Entries), and a joined call came within the cache's time of it    *)
(* or, in the environment, before the key was taken away (Joiners).        *)
(***************************************************************************)
EXTENDS SignedRequests, TLAPS

Rows == [owner : Requests \cup {"none"}, exp : Int, ver : Nat]
InFlight == {"arrived", "verified"}

\* What never changes.
FixedTyped ==
    /\ server \in [Requests -> Servers]
    /\ drift \in [Servers -> -MaxDrift .. MaxDrift]
    /\ signedAt \in Nat
    /\ store \in {"memory", "redis", "durable", "dynamo", "none"}
    /\ provider \in {"node", "secretsManager", "env"}

RequestsTyped ==
    /\ now \in Nat
    /\ stage \in [Requests -> {"idle", "arrived", "verified", "accepted", "refused"}]
    /\ arrived \in [Requests -> Nat]
    /\ slow \in [Requests -> BOOLEAN]

NoncesTyped ==
    /\ row \in [Texts -> Rows]
    /\ claim \in [Requests -> {"idle", "start", "reading", "writing", "confirming",
                               "fresh", "replay"}]
    /\ seen \in [Requests -> Rows]
    /\ tries \in [Requests -> 0 .. MaxCasRetries]
    /\ deadline \in [Requests -> Int]

\* A copy that is being served came in its window.
Arrivals ==
    \A r \in Requests : stage[r] \in InFlight =>
        /\ arrived[r] <= now
        /\ arrived[r] + drift[server[r]] - signedAt <= Window
        /\ signedAt - (arrived[r] + drift[server[r]]) <= ForwardSkew

\* A claim is under way while its copy is verified, and has tries left while it loops.
Claiming ==
    \A r \in Requests :
        /\ claim[r] \in {"start", "reading", "writing", "confirming"} =>
              stage[r] = "verified"
        /\ stage[r] \in {"idle", "arrived"} => claim[r] = "idle"
        /\ claim[r] \in {"idle", "start", "reading", "writing"} => tries[r] < MaxCasRetries
        /\ claim[r] # "idle" => store # "none"

\* When the first row may lapse, by a right clock: one that was stored by the
\* earliest arrival the window admits.
Lapse == signedAt - ForwardSkew + NonceTtl - MaxDrift

\* No row lapses before; DynamoDB's deadlines are by the servers' clocks.
LeastDeadline == IF store = "dynamo" THEN Lapse + MaxDrift ELSE Lapse

Deadlines ==
    /\ row["signed"].ver > 0 => row["signed"].exp >= LeastDeadline
    /\ \A r \in Requests :
          claim[r] \in {"reading", "writing", "confirming"} =>
              store = "dynamo" /\ deadline[r] >= LeastDeadline

\* Before, there is one row, and it is the fresh copy's.
Early ==
    now < Lapse =>
        \A r \in Requests :
            /\ claim[r] = "fresh" => row["signed"].ver > 0 /\ row["signed"].owner = r
            /\ claim[r] = "reading" => row["signed"].ver > 0
            /\ claim[r] # "writing"

\* A copy that was accepted under a nonce had a fresh one.
AcceptedFresh ==
    ~Unprotected => \A r \in Requests : stage[r] = "accepted" => claim[r] = "fresh"

PromptOnce ==
    ~Unprotected =>
        \A r, s \in Requests :
            stage[r] = "accepted" /\ stage[s] = "accepted" /\ ~slow[r] /\ ~slow[s] => r = s

NonceInv ==
    /\ FixedTyped /\ RequestsTyped /\ NoncesTyped
    /\ Arrivals /\ Claiming /\ Deadlines /\ Early /\ AcceptedFresh /\ PromptOnce

-----------------------------------------------------------------------------

SecretsTyped ==
    /\ material \in BOOLEAN
    /\ revokedAt \in Int
    /\ cache \in [Servers -> [at : Int, by : Requests \cup {"none"}]]
    /\ lookup \in [Requests -> {"idle", "reading", "importing", "joined", "key", "none",
                                "failed"}]
    /\ leader \in [Requests -> Requests]
    /\ asked \in [Requests -> Nat]

\* The key was there until it was revoked, if it was.
Revocation ==
    /\ material => revokedAt = -1
    /\ revokedAt <= now

Gone == ~material /\ revokedAt # -1

\* Who reads for itself has asked before the key was taken away, if it found it.
Readers ==
    \A r \in Requests :
        /\ lookup[r] # "idle" => asked[r] <= now
        /\ lookup[r] \in {"reading", "importing"} =>
              leader[r] = r /\ now - asked[r] <= MaxRead
        /\ lookup[r] = "importing" /\ Gone => asked[r] <= revokedAt
        /\ lookup[r] = "idle" => leader[r] = r

\* The times that the keys of the providers are good for.
Kept ==
    \A r \in Requests : lookup[r] = "key" /\ Gone =>
        asked[r] <= revokedAt +
            (CASE provider = "node" -> CacheTtl + MaxRead
               [] provider = "secretsManager" -> IF leader[r] = r THEN 0 ELSE CacheTtl
               [] provider = "env" -> 0)

Entries ==
    \A h \in Servers :
        \/ cache[h] = [at |-> -1, by |-> "none"]
        \/ /\ cache[h].by \in Requests
           /\ cache[h].at >= 0
           /\ server[cache[h].by] = h
           /\ \/ /\ provider = "node"
                 /\ lookup[cache[h].by] = "key"
                 /\ cache[h].at <= now
                 /\ Gone => cache[h].at <= revokedAt + MaxRead
              \/ /\ provider = "secretsManager"
                 /\ lookup[cache[h].by] \in {"reading", "importing", "key"}
                 /\ leader[cache[h].by] = cache[h].by
                 /\ cache[h].at = asked[cache[h].by]
              \/ /\ provider = "env"
                 /\ lookup[cache[h].by] \in {"importing", "key"}
                 /\ leader[cache[h].by] = cache[h].by

Joiners ==
    \A r \in Requests :
        /\ lookup[r] = "joined" =>
              /\ leader[r] # r
              /\ leader[leader[r]] = leader[r]
              /\ lookup[leader[r]] # "idle"
              /\ \/ provider = "secretsManager" /\ asked[r] <= asked[leader[r]] + CacheTtl
                 \/ provider = "env" /\ (Gone => asked[r] <= revokedAt)

SecretInv ==
    /\ FixedTyped /\ now \in Nat /\ SecretsTyped
    /\ Revocation /\ Readers /\ Kept /\ Entries /\ Joiners

-----------------------------------------------------------------------------
(* Nonces                                                                  *)

LEMMA OneNonce == \A r \in Requests : Nonce[r] = "signed" /\ Offset[r] = drift[server[r]]
BY DEF Nonce, Offset

LEMMA DriftIsBounded ==
  ASSUME FixedTyped, NEW r \in Requests
  PROVE  drift[server[r]] \in Int /\ -MaxDrift <= drift[server[r]] /\ drift[server[r]] <= MaxDrift
BY WindowAssumption DEF FixedTyped

\* Whoever is served when rows may lapse has been served for long.
LEMMA LateIsSlow ==
  ASSUME FixedTyped, RequestsTyped, Arrivals, now >= Lapse,
         NEW r \in Requests, stage[r] \in InFlight
  PROVE  now - arrived[r] >= Slack
BY DriftIsBounded, WindowAssumption
   DEF FixedTyped, RequestsTyped, Arrivals, Lapse, NonceTtl, Slack

\* What is claimed lasts until Lapse: by a right clock, and by the server's.
LEMMA ClaimsLast ==
  ASSUME FixedTyped, RequestsTyped, Arrivals, NEW r \in Requests, stage[r] \in InFlight
  PROVE  /\ now + NonceTtl >= Lapse
         /\ now + drift[server[r]] + NonceTtl >= Lapse + MaxDrift
BY DriftIsBounded, WindowAssumption
   DEF FixedTyped, RequestsTyped, Arrivals, Lapse, NonceTtl

LEMMA NonceInit == Init => NonceInv
<1> SUFFICES ASSUME Init PROVE NonceInv
  OBVIOUS
<1> USE DEF Init, Nonces!NonceInit
<1>1. FixedTyped
  <2>1. signedAt \in Nat /\ store \in {"memory", "redis", "durable", "dynamo", "none"}
    BY WindowAssumption DEF Nonces!NonceBackends
  <2>2. provider \in {"node", "secretsManager", "env"}
    BY DEF Secrets!SecretInit, Secrets!Providers
  <2> QED BY <2>1, <2>2 DEF FixedTyped
<1>2. RequestsTyped /\ NoncesTyped
  BY StoresAssumption DEF RequestsTyped, NoncesTyped, Rows, Nonces!NoRow
<1>3. Arrivals /\ Claiming /\ AcceptedFresh /\ PromptOnce
  BY StoresAssumption DEF Arrivals, Claiming, AcceptedFresh, PromptOnce, InFlight
<1>4. Deadlines /\ Early
  BY DEF Deadlines, Early, Nonces!NoRow, Texts
<1> QED BY <1>1, <1>2, <1>3, <1>4 DEF NonceInv

\* Steps that leave everything here alone.
LEMMA NonceStutter ==
  ASSUME NonceInv, UNCHANGED <<now, fixed, requestVars, nonceVars>>
  PROVE  NonceInv'
<1> USE DEF NonceInv, fixed, requestVars, nonceVars
<1>1. FixedTyped' /\ RequestsTyped' /\ NoncesTyped'
  BY DEF FixedTyped, RequestsTyped, NoncesTyped
<1>2. Arrivals' /\ Claiming'
  BY DEF Arrivals, Claiming
<1>3. Deadlines' /\ Early'
  BY DEF Deadlines, Early, Lapse, LeastDeadline
<1>4. AcceptedFresh' /\ PromptOnce'
  BY DEF AcceptedFresh, PromptOnce, Unprotected, NeedsNonce
<1> QED BY <1>1, <1>2, <1>3, <1>4

LEMMA ArriveKeepsNonces ==
  ASSUME NonceInv, NEW r \in Requests, Arrive(r)
  PROVE  NonceInv'
<1> USE DEF NonceInv, Arrive, fixed, nonceVars, At
<1>1. FixedTyped' /\ RequestsTyped' /\ NoncesTyped'
  BY DEF FixedTyped, RequestsTyped, NoncesTyped
<1>2. Arrivals'
  <2> SUFFICES ASSUME NEW q \in Requests, stage'[q] \in InFlight
               PROVE  /\ arrived'[q] <= now'
                      /\ arrived'[q] + drift'[server'[q]] - signedAt' <= Window
                      /\ signedAt' - (arrived'[q] + drift'[server'[q]]) <= ForwardSkew
    BY DEF Arrivals
  <2>1. CASE q = r
    <3>1. InWindow(r) /\ arrived'[r] = now
      BY <2>1 DEF RequestsTyped, InFlight
    <3> QED BY <2>1, <3>1, OneNonce, DriftIsBounded, WindowAssumption
            DEF InWindow, Nonces!Clock, FixedTyped, RequestsTyped
  <2>2. CASE q # r
    BY <2>2 DEF Arrivals, RequestsTyped, InFlight
  <2> QED BY <2>1, <2>2
<1>3. Claiming'
  BY DEF Claiming, RequestsTyped
<1>4. Deadlines' /\ Early'
  BY DEF Deadlines, Early, Lapse, LeastDeadline
<1>5. AcceptedFresh' /\ PromptOnce'
  BY DEF AcceptedFresh, PromptOnce, Unprotected, NeedsNonce, RequestsTyped
<1> QED BY <1>1, <1>2, <1>3, <1>4, <1>5

\* A copy that is refused, or accepted without a nonce.
LEMMA EndKeepsNonces ==
  ASSUME NonceInv, NEW r \in Requests, NEW s \in {"accepted", "refused"},
         stage[r] = "arrived", End(r, s), UNCHANGED <<now, fixed, nonceVars>>,
         s = "accepted" => Unprotected
  PROVE  NonceInv'
<1> USE DEF NonceInv, End, fixed, nonceVars, At
<1>1. FixedTyped' /\ RequestsTyped' /\ NoncesTyped'
  BY WindowAssumption DEF FixedTyped, RequestsTyped, NoncesTyped
<1>2. Arrivals'
  BY DEF Arrivals, RequestsTyped, InFlight
<1>3. Claiming'
  BY DEF Claiming, RequestsTyped
<1>4. Deadlines' /\ Early'
  BY DEF Deadlines, Early, Lapse, LeastDeadline
<1>5. AcceptedFresh' /\ PromptOnce'
  BY DEF AcceptedFresh, PromptOnce, Unprotected, NeedsNonce, RequestsTyped
<1> QED BY <1>1, <1>2, <1>3, <1>4, <1>5

LEMMA VerifyKeepsNonces ==
  ASSUME NonceInv, NEW r \in Requests, Verify(r)
  PROVE  NonceInv'
<1> USE DEF Verify
<1>1. CASE Unprotected /\ End(r, "accepted") /\ UNCHANGED claim
  BY <1>1, EndKeepsNonces DEF nonceVars
<1>2. CASE ~Unprotected /\ store = "none" /\ End(r, "refused") /\ UNCHANGED claim
  BY <1>2, EndKeepsNonces DEF nonceVars
<1>3. CASE /\ ~Unprotected /\ store # "none"
           /\ At(r, "verified") /\ claim' = [claim EXCEPT ![r] = "start"]
           /\ UNCHANGED <<arrived, slow>>
  <2> USE <1>3 DEF NonceInv, fixed, At
  <2>1. FixedTyped' /\ RequestsTyped' /\ NoncesTyped'
    BY DEF FixedTyped, RequestsTyped, NoncesTyped
  <2>2. Arrivals'
    BY DEF Arrivals, RequestsTyped, InFlight
  <2>3. Claiming'
    BY DEF Claiming, RequestsTyped, NoncesTyped
  <2>4. Deadlines' /\ Early'
    BY DEF Deadlines, Early, Lapse, LeastDeadline, NoncesTyped
  <2>5. AcceptedFresh' /\ PromptOnce'
    BY DEF AcceptedFresh, PromptOnce, Unprotected, NeedsNonce, RequestsTyped, NoncesTyped
  <2> QED BY <2>1, <2>2, <2>3, <2>4, <2>5
<1> QED BY <1>1, <1>2, <1>3

\* An answer after the claim: a second fresh copy is a late one.
LEMMA DecideKeepsNonces ==
  ASSUME NonceInv, NEW r \in Requests, Decide(r)
  PROVE  NonceInv'
<1> USE DEF NonceInv, Decide, End, fixed, At
<1>1. FixedTyped' /\ RequestsTyped' /\ NoncesTyped'
  <2>0. FixedTyped'
    BY DEF FixedTyped
  <2>1. RequestsTyped'
    <3>1. PICK s \in {"accepted", "refused"} : End(r, s)
      OBVIOUS
    <3>2. UNCHANGED now
      OBVIOUS
    <3> HIDE DEF Decide
    <3> QED BY <3>1, <3>2 DEF RequestsTyped
  <2>2. /\ tries' = [tries EXCEPT ![r] = 0] /\ deadline' = [deadline EXCEPT ![r] = 0]
        /\ seen' = [seen EXCEPT ![r] = Nonces!NoRow] /\ UNCHANGED <<row, claim>>
    OBVIOUS
  <2>3. Nonces!NoRow \in Rows /\ 0 \in 0 .. MaxCasRetries
    BY StoresAssumption DEF Rows, Nonces!NoRow
  <2> HIDE DEF Decide
  <2>4. NoncesTyped'
    BY <2>2, <2>3 DEF NoncesTyped
  <2> QED BY <2>0, <2>1, <2>4
<1>2. Arrivals'
  BY DEF Arrivals, RequestsTyped, InFlight
<1>3. Claiming'
  BY StoresAssumption DEF Claiming, RequestsTyped, NoncesTyped
<1>4. Deadlines' /\ Early'
  BY DEF Deadlines, Early, Lapse, LeastDeadline, NoncesTyped
<1>5. AcceptedFresh'
  BY DEF AcceptedFresh, Unprotected, NeedsNonce, RequestsTyped
<1>6. PromptOnce'
  <2> SUFFICES ASSUME ~Unprotected, NEW p \in Requests, NEW q \in Requests,
                      stage'[p] = "accepted", stage'[q] = "accepted", ~slow'[p], ~slow'[q]
               PROVE  p = q
    BY DEF PromptOnce, Unprotected, NeedsNonce
  <2>1. CASE p # r /\ q # r
    BY <2>1 DEF PromptOnce, RequestsTyped
  <2>2. CASE p = r \/ q = r
    <3>1. stage'[r] = "accepted" /\ ~slow'[r] /\ claim[r] = "fresh"
      BY <2>2 DEF RequestsTyped
    <3>2. now < Lapse
      <4>1. ~(now - arrived[r] >= Slack)
        BY <3>1 DEF RequestsTyped
      <4>2. now \in Int /\ Lapse \in Int
        BY WindowAssumption DEF RequestsTyped, FixedTyped, Lapse, NonceTtl
      <4> QED BY <4>1, <4>2, LateIsSlow DEF InFlight
    <3>3. \A o \in Requests : stage'[o] = "accepted" => claim[o] = "fresh"
      BY <3>1 DEF AcceptedFresh, RequestsTyped
    <3> QED BY <3>2, <3>3 DEF Early
  <2> QED BY <2>1, <2>2
<1> QED BY <1>1, <1>2, <1>3, <1>4, <1>5, <1>6

\* The claims: what a step of r changes of the claims, and of the row.
LEMMA ClaimKeepsNonces ==
  ASSUME NonceInv, NEW r \in Requests, ClaimStep(r)
  PROVE  NonceInv'
<1> USE DEF NonceInv, ClaimStep, fixed, requestVars
<1>0. /\ claim[r] \in {"start", "reading", "writing", "confirming"}
      /\ stage[r] = "verified" /\ store # "none"
      /\ \E c \in {"reading", "writing", "confirming", "fresh", "replay"} :
            claim' = [claim EXCEPT ![r] = c]
  <2>1. claim[r] \in {"start", "reading", "writing", "confirming"}
        /\ \E c \in {"reading", "writing", "confirming", "fresh", "replay"} :
              claim' = [claim EXCEPT ![r] = c]
    BY DEF Nonces!ClaimStep, Nonces!SerialClaim, Nonces!Insert, Nonces!ReclaimRead,
           Nonces!ReclaimWrite, Nonces!ReclaimConflict, Nonces!Confirm, Nonces!To
  <2> QED BY <2>1 DEF Claiming
<1>1. FixedTyped' /\ RequestsTyped'
  BY DEF FixedTyped, RequestsTyped
<1>2. Arrivals'
  BY DEF Arrivals
<1>3. AcceptedFresh' /\ PromptOnce'
  BY <1>0 DEF AcceptedFresh, PromptOnce, Unprotected, NeedsNonce, NoncesTyped
<1>4. now \in Int /\ Lapse \in Int /\ LeastDeadline \in Int /\ LeastDeadline >= Lapse
      /\ LeastDeadline' = LeastDeadline /\ Lapse' = Lapse
      /\ (store = "dynamo" => LeastDeadline = Lapse + MaxDrift)
      /\ (store # "dynamo" => LeastDeadline = Lapse)
  BY WindowAssumption DEF RequestsTyped, FixedTyped, Lapse, LeastDeadline, NonceTtl
<1>5. /\ now + NonceTtl >= Lapse
      /\ now + drift[server[r]] + NonceTtl >= Lapse + MaxDrift
      /\ now + NonceTtl \in Int /\ now + drift[server[r]] + NonceTtl \in Int
  BY <1>0, ClaimsLast, DriftIsBounded, WindowAssumption DEF InFlight, RequestsTyped, NonceTtl
<1>6. Nonce[r] = "signed" /\ Offset[r] = drift[server[r]] /\ "signed" \in Texts
  BY OneNonce DEF Texts
<1>7. CASE Nonces!SerialClaim(r)
  <2> USE <1>0, <1>4, <1>5, <1>6, <1>7
      DEF Nonces!SerialClaim, Nonces!Serial, Nonces!To, Nonces!Put, Nonces!Row, Nonces!Live,
          Nonces!There, Nonces!Present, Nonces!Mine
  <2>1. NoncesTyped'
    BY DEF NoncesTyped, Rows
  <2>2. Claiming'
    BY DEF Claiming, NoncesTyped
  <2>3. Deadlines'
    BY DEF Deadlines, NoncesTyped
  <2>4. Early'
    BY DEF Early, Deadlines, NoncesTyped, Rows
  <2> QED BY <1>1, <1>2, <1>3, <2>1, <2>2, <2>3, <2>4
<1>8. CASE Nonces!Insert(r)
  <2> USE <1>0, <1>4, <1>5, <1>6, <1>8
      DEF Nonces!Insert, Nonces!To, Nonces!Put, Nonces!Row, Nonces!Clock,
          Nonces!There, Nonces!Present, Nonces!Mine
  <2>1. NoncesTyped'
    BY DEF NoncesTyped, Rows
  <2>2. Claiming'
    BY DEF Claiming, NoncesTyped
  <2>3. Deadlines'
    BY DEF Deadlines, NoncesTyped
  <2>4. Early'
    BY DEF Early, NoncesTyped, Rows
  <2> QED BY <1>1, <1>2, <1>3, <2>1, <2>2, <2>3, <2>4
<1>9. CASE Nonces!ReclaimRead(r)
  <2> USE <1>0, <1>4, <1>6, <1>9
      DEF Nonces!ReclaimRead, Nonces!To, Nonces!Clock, Nonces!There, Nonces!Present,
          Nonces!Mine
  <2>1. NoncesTyped'
    BY DEF NoncesTyped
  <2>2. Claiming'
    BY DEF Claiming, NoncesTyped
  <2>3. Deadlines'
    BY DEF Deadlines, NoncesTyped
  <2>4. Early'
    <3>1. now < Lapse => row["signed"].ver > 0 /\ row["signed"].exp > now + drift[server[r]]
      BY DriftIsBounded, WindowAssumption DEF Early, Deadlines, NoncesTyped, Rows
    <3> QED BY <3>1 DEF Early, NoncesTyped
  <2> QED BY <1>1, <1>2, <1>3, <2>1, <2>2, <2>3, <2>4
<1>10. CASE Nonces!ReclaimWrite(r)
  <2> USE <1>0, <1>4, <1>6, <1>10
      DEF Nonces!ReclaimWrite, Nonces!To, Nonces!Put, Nonces!Row
  <2>1. NoncesTyped'
    BY DEF NoncesTyped, Rows
  <2>2. Claiming'
    BY DEF Claiming, NoncesTyped
  <2>3. Deadlines'
    BY DEF Deadlines, NoncesTyped
  <2>4. Early'
    BY DEF Early
  <2> QED BY <1>1, <1>2, <1>3, <2>1, <2>2, <2>3, <2>4
<1>11. CASE Nonces!ReclaimConflict(r)
  <2> USE <1>0, <1>4, <1>6, <1>11 DEF Nonces!ReclaimConflict, Nonces!To
  <2>0. tries[r] < MaxCasRetries
    BY DEF Claiming
  <2>1. NoncesTyped'
    BY <2>0, StoresAssumption DEF NoncesTyped
  <2>2. Claiming'
    BY <2>0 DEF Claiming, NoncesTyped
  <2>3. Deadlines'
    BY DEF Deadlines, NoncesTyped
  <2>4. Early'
    BY DEF Early
  <2> QED BY <1>1, <1>2, <1>3, <2>1, <2>2, <2>3, <2>4
<1>12. CASE Nonces!Confirm(r)
  <2> USE <1>0, <1>4, <1>6, <1>12
      DEF Nonces!Confirm, Nonces!To, Nonces!There, Nonces!Present, Nonces!Mine
  <2>1. NoncesTyped'
    BY DEF NoncesTyped
  <2>2. Claiming'
    BY DEF Claiming, NoncesTyped
  <2>3. Deadlines'
    BY DEF Deadlines, NoncesTyped
  <2>4. Early'
    BY DEF Early, NoncesTyped
  <2> QED BY <1>1, <1>2, <1>3, <2>1, <2>2, <2>3, <2>4
<1> QED BY <1>7, <1>8, <1>9, <1>10, <1>11, <1>12 DEF Nonces!ClaimStep

LEMMA SweepKeepsNonces ==
  ASSUME NonceInv, Sweep
  PROVE  NonceInv'
<1> USE DEF NonceInv, Sweep, fixed, requestVars
<1>1. PICK n \in Texts :
        /\ row[n].ver > 0 /\ row[n].exp <= now
        /\ row' = [row EXCEPT ![n] = Nonces!NoRow]
        /\ UNCHANGED <<claim, seen, tries, deadline>>
  BY DEF Nonces!Sweep, Nonces!Present
<1>2. FixedTyped' /\ RequestsTyped'
  BY DEF FixedTyped, RequestsTyped
<1>3. NoncesTyped'
  BY <1>1 DEF NoncesTyped, Rows, Nonces!NoRow
<1>4. Arrivals' /\ Claiming'
  BY <1>1 DEF Arrivals, Claiming
<1>5. AcceptedFresh' /\ PromptOnce'
  BY <1>1 DEF AcceptedFresh, PromptOnce, Unprotected, NeedsNonce
<1>6. Lapse \in Int /\ LeastDeadline \in Int /\ LeastDeadline >= Lapse
      /\ Lapse' = Lapse /\ LeastDeadline' = LeastDeadline
  BY WindowAssumption DEF FixedTyped, Lapse, LeastDeadline, NonceTtl
<1>7. Deadlines'
  BY <1>1, <1>6 DEF Deadlines, NoncesTyped, Texts, Nonces!NoRow
<1>8. Early'
  <2>1. n = "signed" => now >= Lapse
    BY <1>1, <1>6 DEF Deadlines, NoncesTyped, Rows, RequestsTyped
  <2> QED BY <1>1, <1>6, <2>1 DEF Early, NoncesTyped, RequestsTyped
<1> QED BY <1>2, <1>3, <1>4, <1>5, <1>7, <1>8

LEMMA TickKeepsNonces ==
  ASSUME NonceInv, Tick
  PROVE  NonceInv'
<1> USE DEF NonceInv, Tick, fixed, requestVars, nonceVars
<1>1. FixedTyped' /\ RequestsTyped' /\ NoncesTyped'
  BY DEF FixedTyped, RequestsTyped, NoncesTyped
<1>2. Arrivals'
  BY DEF Arrivals, RequestsTyped
<1>3. Claiming' /\ AcceptedFresh' /\ PromptOnce'
  BY DEF Claiming, AcceptedFresh, PromptOnce, Unprotected, NeedsNonce
<1>4. Lapse \in Int /\ Lapse' = Lapse /\ LeastDeadline' = LeastDeadline
  BY WindowAssumption DEF FixedTyped, Lapse, LeastDeadline, NonceTtl
<1>5. Deadlines' /\ Early'
  BY <1>4 DEF Deadlines, Early, RequestsTyped
<1> QED BY <1>1, <1>2, <1>3, <1>5

LEMMA NonceStep == NonceInv /\ [Next]_vars => NonceInv'
<1> SUFFICES ASSUME NonceInv, [Next]_vars PROVE NonceInv'
  OBVIOUS
<1>1. ASSUME NEW r \in Requests, RequestStep(r) PROVE NonceInv'
  <2>1. CASE Arrive(r)
    BY <2>1, ArriveKeepsNonces
  <2>2. CASE LookUpKey(r) \/ LookUpStep(r)
    BY <2>2, NonceStutter DEF LookUpKey, LookUpStep
  <2>3. CASE Refuse(r)
    BY <2>3, EndKeepsNonces DEF Refuse
  <2>4. CASE Verify(r)
    BY <2>4, VerifyKeepsNonces
  <2>5. CASE ClaimStep(r)
    BY <2>5, ClaimKeepsNonces
  <2>6. CASE Decide(r)
    BY <2>6, DecideKeepsNonces
  <2> QED BY <1>1, <2>1, <2>2, <2>3, <2>4, <2>5, <2>6 DEF RequestStep
<1>2. CASE Revoke \/ UNCHANGED vars
  BY <1>2, NonceStutter DEF Revoke, vars
<1> QED BY <1>1, <1>2, SweepKeepsNonces, TickKeepsNonces DEF Next
-----------------------------------------------------------------------------
(* Keys                                                                    *)

LEMMA SecretInit == Init => SecretInv
<1> SUFFICES ASSUME Init PROVE SecretInv
  OBVIOUS
<1> USE DEF Init, Secrets!SecretInit, Secrets!Never, Secrets!NoEntry
<1>1. FixedTyped
  BY NonceInit DEF NonceInv
<1>2. now \in Nat /\ SecretsTyped
  BY DEF SecretsTyped
<1>3. Revocation /\ Readers /\ Kept /\ Entries /\ Joiners
  BY DEF Revocation, Readers, Kept, Entries, Joiners, Gone
<1> QED BY <1>1, <1>2, <1>3 DEF SecretInv

LEMMA SecretStutter ==
  ASSUME SecretInv, UNCHANGED <<now, fixed, secretVars>>
  PROVE  SecretInv'
<1> USE DEF SecretInv, fixed, secretVars
<1>1. FixedTyped' /\ now' \in Nat /\ SecretsTyped'
  BY DEF FixedTyped, SecretsTyped
<1>2. Revocation' /\ Readers' /\ Kept' /\ Entries' /\ Joiners'
  BY DEF Revocation, Readers, Kept, Entries, Joiners, Gone
<1> QED BY <1>1, <1>2

\* A call is made.
LEMMA LookUpKeepsSecrets ==
  ASSUME SecretInv, NEW r \in Requests, LookUpKey(r)
  PROVE  SecretInv'
<1> USE DEF SecretInv, LookUpKey, fixed
<1>0. lookup[r] = "idle" /\ asked' = [asked EXCEPT ![r] = now]
      /\ UNCHANGED <<now, server, provider, material, revokedAt>>
  BY DEF Secrets!LookUp, Secrets!LookUpNode, Secrets!LookUpSecretsManager,
         Secrets!LookUpEnv, Secrets!Ask, Secrets!Join, Secrets!Lead
<1>1. FixedTyped' /\ now' \in Nat /\ Revocation' /\ (Gone' <=> Gone)
  BY <1>0 DEF FixedTyped, Revocation, Gone
<1>2. server[r] \in Servers /\ cache[server[r]] \in [at : Int, by : Requests \cup {"none"}]
  BY DEF FixedTyped, SecretsTyped
<1>3. leader[r] = r /\ CacheTtl \in Nat /\ MaxRead \in Nat
  BY <1>0, StoresAssumption DEF Readers
\* Nobody's entry or leader is a call that was not made.
<1>4. /\ \A h \in Servers :
            cache[h] = [at |-> -1, by |-> "none"] \/ cache[h].by # r
      /\ \A q \in Requests : lookup[q] = "joined" => leader[q] # r
  BY <1>0 DEF Entries, Joiners
<1>5. CASE Secrets!LookUpNode(r)
  <2> DEFINE l == IF Secrets!Cached(r) THEN "key" ELSE "reading"
  <2>0. /\ provider = "node" /\ lookup' = [lookup EXCEPT ![r] = l]
        /\ UNCHANGED <<cache, leader>>
    BY <1>5 DEF Secrets!LookUpNode, Secrets!Look
  <2>1. l = "key" => /\ cache[server[r]] # [at |-> -1, by |-> "none"]
                     /\ now - cache[server[r]].at < CacheTtl
    BY DEF Secrets!Cached, Secrets!NoEntry, Secrets!Never
  <2>2. l \in {"key", "reading"}
    OBVIOUS
  <2> HIDE DEF l, LookUpKey
  <2> USE <1>0, <1>1, <1>3, <2>0, <2>1, <2>2
  <2>3. SecretsTyped'
    BY DEF SecretsTyped
  <2>4. Readers'
    BY DEF Readers, SecretsTyped
  <2>5. Kept'
    <3>1. l = "key" /\ Gone => now <= revokedAt + (CacheTtl + MaxRead)
      BY <1>2 DEF Entries, SecretsTyped
    <3> QED BY <3>1 DEF Kept, SecretsTyped
  <2>6. Entries'
    BY <1>4 DEF Entries, SecretsTyped
  <2>7. Joiners'
    BY DEF Joiners, SecretsTyped
  <2> QED BY <2>3, <2>4, <2>5, <2>6, <2>7
<1>6. CASE Secrets!LookUpSecretsManager(r)
  <2>0. provider = "secretsManager"
    BY <1>6 DEF Secrets!LookUpSecretsManager
  <2>1. CASE Secrets!Cached(r)
    <3> DEFINE d == cache[server[r]].by
    <3>0. /\ lookup' = [lookup EXCEPT ![r] = "joined"]
          /\ leader' = [leader EXCEPT ![r] = d]
          /\ UNCHANGED cache
      BY <1>6, <2>1 DEF Secrets!LookUpSecretsManager, Secrets!Join, Secrets!Look
    <3>1. /\ d \in Requests /\ d # r /\ leader[d] = d
          /\ lookup[d] \in {"reading", "importing", "key"}
          /\ now - asked[d] < CacheTtl
      BY <1>0, <1>2, <2>0, <2>1
         DEF Secrets!Cached, Secrets!NoEntry, Secrets!Never, Entries
    <3> HIDE DEF d, LookUpKey
    <3> USE <1>0, <1>1, <1>3, <2>0, <3>0, <3>1
    <3>3. SecretsTyped'
      BY DEF SecretsTyped
    <3>4. Readers'
      BY DEF Readers, SecretsTyped
    <3>5. Kept'
      BY DEF Kept, SecretsTyped
    <3>6. Entries'
      BY <1>4 DEF Entries, SecretsTyped
    <3>7. Joiners'
      BY <1>4 DEF Joiners, SecretsTyped
    <3> QED BY <3>3, <3>4, <3>5, <3>6, <3>7
  <2>2. CASE ~Secrets!Cached(r)
    <3>0. /\ lookup' = [lookup EXCEPT ![r] = "reading"]
          /\ cache' = [cache EXCEPT ![server[r]] = [at |-> now, by |-> r]]
          /\ UNCHANGED leader
      BY <1>6, <2>2
         DEF Secrets!LookUpSecretsManager, Secrets!Lead, Secrets!Look, Secrets!Cache,
             Secrets!Entry
    <3> HIDE DEF LookUpKey
    <3> USE <1>0, <1>1, <1>2, <1>3, <2>0, <3>0
    <3>3. SecretsTyped'
      BY DEF SecretsTyped
    <3>4. Readers'
      BY DEF Readers, SecretsTyped
    <3>5. Kept'
      BY DEF Kept, SecretsTyped
    <3>6. Entries'
      BY <1>4 DEF Entries, SecretsTyped, FixedTyped
    <3>7. Joiners'
      BY <1>4 DEF Joiners, SecretsTyped
    <3> QED BY <3>3, <3>4, <3>5, <3>6, <3>7
  <2> QED BY <2>1, <2>2
<1>7. CASE Secrets!LookUpEnv(r)
  <2>0. provider = "env"
    BY <1>7 DEF Secrets!LookUpEnv
  <2>1. CASE ~material
    <3>0. lookup' = [lookup EXCEPT ![r] = "none"] /\ UNCHANGED <<cache, leader>>
      BY <1>7, <2>1 DEF Secrets!LookUpEnv, Secrets!Look
    <3> HIDE DEF LookUpKey
    <3> USE <1>0, <1>1, <1>3, <2>0, <3>0
    <3>3. SecretsTyped'
      BY DEF SecretsTyped
    <3>4. Readers'
      BY DEF Readers, SecretsTyped
    <3>5. Kept'
      BY DEF Kept, SecretsTyped
    <3>6. Entries'
      BY <1>4 DEF Entries, SecretsTyped
    <3>7. Joiners'
      BY DEF Joiners, SecretsTyped
    <3> QED BY <3>3, <3>4, <3>5, <3>6, <3>7
  <2>2. CASE material /\ cache[server[r]] # [at |-> -1, by |-> "none"]
    <3> DEFINE d == cache[server[r]].by
    <3>0. /\ lookup' = [lookup EXCEPT ![r] = "joined"]
          /\ leader' = [leader EXCEPT ![r] = d]
          /\ UNCHANGED cache
      BY <1>7, <2>2
         DEF Secrets!LookUpEnv, Secrets!Join, Secrets!Look, Secrets!NoEntry, Secrets!Never
    <3>1. /\ d \in Requests /\ d # r /\ leader[d] = d
          /\ lookup[d] \in {"importing", "key"}
      BY <1>0, <1>2, <2>0, <2>2 DEF Entries
    <3>2. ~Gone
      BY <2>2 DEF Gone
    <3> HIDE DEF d, LookUpKey
    <3> USE <1>0, <1>1, <1>3, <2>0, <3>0, <3>1, <3>2
    <3>3. SecretsTyped'
      BY DEF SecretsTyped
    <3>4. Readers'
      BY DEF Readers, SecretsTyped
    <3>5. Kept'
      BY DEF Kept, SecretsTyped
    <3>6. Entries'
      BY <1>4 DEF Entries, SecretsTyped
    <3>7. Joiners'
      BY <1>4 DEF Joiners, SecretsTyped
    <3> QED BY <3>3, <3>4, <3>5, <3>6, <3>7
  <2>3. CASE material /\ cache[server[r]] = [at |-> -1, by |-> "none"]
    <3>0. /\ lookup' = [lookup EXCEPT ![r] = "importing"]
          /\ cache' = [cache EXCEPT ![server[r]] = [at |-> now, by |-> r]]
          /\ UNCHANGED leader
      BY <1>7, <2>3
         DEF Secrets!LookUpEnv, Secrets!Lead, Secrets!Look, Secrets!Cache, Secrets!Entry,
             Secrets!NoEntry, Secrets!Never
    <3>2. ~Gone
      BY <2>3 DEF Gone
    <3> HIDE DEF LookUpKey
    <3> USE <1>0, <1>1, <1>2, <1>3, <2>0, <3>0, <3>2
    <3>3. SecretsTyped'
      BY DEF SecretsTyped
    <3>4. Readers'
      BY DEF Readers, SecretsTyped
    <3>5. Kept'
      BY DEF Kept, SecretsTyped
    <3>6. Entries'
      BY <1>4 DEF Entries, SecretsTyped, FixedTyped
    <3>7. Joiners'
      BY <1>4 DEF Joiners, SecretsTyped
    <3> QED BY <3>3, <3>4, <3>5, <3>6, <3>7
  <2> QED BY <2>1, <2>2, <2>3
<1> QED BY <1>5, <1>6, <1>7 DEF Secrets!LookUp

\* A call goes on.
LEMMA LookUpStepKeepsSecrets ==
  ASSUME SecretInv, NEW r \in Requests, LookUpStep(r)
  PROVE  SecretInv'
<1> USE DEF SecretInv, LookUpStep, fixed
<1>0. UNCHANGED <<now, server, provider, material, revokedAt, leader, asked>>
  BY DEF Secrets!LookUpStep, Secrets!ReadSource, Secrets!ImportKey, Secrets!LookUpFails,
         Secrets!JoinedSettles
<1>1. FixedTyped' /\ now' \in Nat /\ Revocation' /\ (Gone' <=> Gone)
  BY <1>0 DEF FixedTyped, Revocation, Gone
<1>2. server[r] \in Servers /\ CacheTtl \in Nat /\ MaxRead \in Nat /\ now \in Nat
  BY StoresAssumption DEF FixedTyped
\* What a step of a call that reads leaves in the cache: nothing of it there,
\* or nothing new, or its key.
<1>3. ASSUME NEW l \in {"importing", "none", "failed"},
             lookup[r] \in {"reading", "importing"},
             l = "importing" => lookup[r] = "reading" /\ ~Gone /\ UNCHANGED cache,
             lookup' = [lookup EXCEPT ![r] = l],
             \/ UNCHANGED cache
                /\ (l = "importing" \/ provider \notin {"secretsManager", "env"})
             \/ cache' = [cache EXCEPT ![server[r]] = [at |-> -1, by |-> "none"]]
      PROVE  SecretInv'
  <2> HIDE DEF LookUpStep
  <2> USE <1>0, <1>1, <1>2, <1>3
  <2>1. SecretsTyped'
    BY DEF SecretsTyped
  <2>2. Readers'
    BY DEF Readers, SecretsTyped
  <2>3. Kept'
    BY DEF Kept, SecretsTyped
  <2>4. Entries'
    BY DEF Entries, SecretsTyped
  <2>5. Joiners'
    BY DEF Joiners, SecretsTyped
  <2> QED BY <2>1, <2>2, <2>3, <2>4, <2>5
<1>4. CASE Secrets!ReadSource(r)
  <2>1. CASE material
    BY <1>3, <1>4, <2>1 DEF Secrets!ReadSource, Secrets!Look, Gone
  <2>2. CASE ~material
    BY <1>3, <1>4, <2>2
       DEF Secrets!ReadSource, Secrets!Look, Secrets!Cache, Secrets!NoEntry, Secrets!Never
  <2> QED BY <2>1, <2>2
<1>5. CASE Secrets!LookUpFails(r)
  BY <1>3, <1>5 DEF Secrets!LookUpFails, Secrets!Look, Secrets!Cache, Secrets!NoEntry,
                    Secrets!Never, Secrets!Evicts, Secrets!UnderWay
<1>6. CASE Secrets!ImportKey(r)
  <2>0. /\ lookup[r] = "importing" /\ lookup' = [lookup EXCEPT ![r] = "key"]
        /\ IF provider = "node"
           THEN cache' = [cache EXCEPT ![server[r]] = [at |-> now, by |-> r]]
           ELSE UNCHANGED cache
    BY <1>6 DEF Secrets!ImportKey, Secrets!Look, Secrets!Cache, Secrets!Entry
  <2> HIDE DEF LookUpStep
  <2> USE <1>0, <1>1, <1>2, <2>0
  <2>1. SecretsTyped'
    BY DEF SecretsTyped
  <2>2. Readers'
    BY DEF Readers, SecretsTyped
  <2>3. Kept'
    BY DEF Kept, Readers, SecretsTyped, FixedTyped
  <2>4. Entries'
    <3>1. Gone => now <= revokedAt + MaxRead
      BY DEF Readers, SecretsTyped
    <3>2. CASE provider = "node"
      BY <3>1, <3>2 DEF Entries, SecretsTyped
    <3>3. CASE provider # "node"
      BY <3>3 DEF Entries, SecretsTyped
    <3> QED BY <3>2, <3>3
  <2>5. Joiners'
    BY DEF Joiners, SecretsTyped
  <2> QED BY <2>1, <2>2, <2>3, <2>4, <2>5
<1>7. CASE Secrets!JoinedSettles(r)
  <2>0. /\ lookup[r] = "joined"
        /\ \/ UNCHANGED cache
           \/ cache' = [cache EXCEPT ![server[r]] = [at |-> -1, by |-> "none"]]
        /\ lookup[leader[r]] \in {"key", "none", "failed"}
        /\ lookup' = [lookup EXCEPT ![r] = lookup[leader[r]]]
    BY <1>7 DEF Secrets!JoinedSettles, Secrets!Look, Secrets!Settled, Secrets!Cache,
                Secrets!NoEntry, Secrets!Never
  <2> HIDE DEF LookUpStep
  <2> USE <1>0, <1>1, <1>2, <2>0
  <2>1. SecretsTyped'
    BY DEF SecretsTyped
  <2>2. Readers'
    BY DEF Readers, SecretsTyped
  <2>3. Kept'
    BY DEF Kept, Joiners, SecretsTyped
  <2>4. Entries'
    BY DEF Entries, SecretsTyped
  <2>5. Joiners'
    BY DEF Joiners, SecretsTyped
  <2> QED BY <2>1, <2>2, <2>3, <2>4, <2>5
<1> QED BY <1>4, <1>5, <1>6, <1>7 DEF LookUpStep, Secrets!LookUpStep

LEMMA RevokeKeepsSecrets ==
  ASSUME SecretInv, Revoke
  PROVE  SecretInv'
<1> USE DEF SecretInv, Revoke, Secrets!Revoke, fixed
<1>0. UNCHANGED <<now, server, drift, signedAt, store, provider, cache, lookup, leader, asked>>
      /\ revokedAt' = now
  OBVIOUS
<1>a. material' = FALSE
  OBVIOUS
<1>1. FixedTyped' /\ now' \in Nat /\ SecretsTyped'
  <2> HIDE DEF Revoke
  <2>1. FixedTyped' /\ now' \in Nat
    BY <1>0 DEF FixedTyped
  <2>2. material' \in BOOLEAN
    BY <1>a, Zenon
  <2>3. revokedAt' \in Int
    BY <1>0
  <2> HIDE DEF Secrets!Revoke
  <2>4. SecretsTyped'
    BY <1>0, <2>2, <2>3 DEF SecretsTyped
  <2> QED BY <2>1, <2>4
<1>2. Revocation' /\ ~Gone /\ revokedAt' = now
  BY DEF Revocation, Gone
<1>3. CacheTtl \in Nat /\ MaxRead \in Nat
  BY StoresAssumption
<1>4. Readers' /\ Joiners'
  BY <1>2 DEF Readers, Joiners, SecretsTyped
<1>5. Kept'
  <2> SUFFICES ASSUME NEW r \in Requests, lookup[r] = "key"
               PROVE  asked[r] <= now + (CASE provider = "node" -> CacheTtl + MaxRead
                  [] provider = "secretsManager" -> IF leader[r] = r THEN 0 ELSE CacheTtl
                  [] provider = "env" -> 0)
    BY <1>0, <1>2 DEF Kept
  <2>1. asked[r] <= now /\ asked[r] \in Nat /\ now \in Nat
    BY DEF Readers, SecretsTyped
  <2>2. CASE provider = "node"
    BY <1>3, <2>1, <2>2
  <2>3. CASE provider = "secretsManager"
    BY <1>3, <2>1, <2>3
  <2>4. CASE provider = "env"
    BY <1>3, <2>1, <2>4
  <2> QED BY <2>2, <2>3, <2>4 DEF FixedTyped
<1>6. Entries'
  <2>1. \A h \in Servers : cache[h].at \in Int
    BY DEF SecretsTyped
  <2> QED BY <1>0, <1>2, <1>3, <2>1 DEF Entries
<1> QED BY <1>1, <1>2, <1>4, <1>5, <1>6

LEMMA TickKeepsSecrets ==
  ASSUME SecretInv, Tick
  PROVE  SecretInv'
<1> USE DEF SecretInv, Tick, fixed, secretVars
<1>1. FixedTyped' /\ now' \in Nat /\ SecretsTyped'
  BY DEF FixedTyped, SecretsTyped
<1>2. Revocation' /\ (Gone' <=> Gone)
  BY DEF Revocation, Gone, SecretsTyped
<1>3. Readers'
  BY <1>2, StoresAssumption DEF Readers, SecretsTyped, Secrets!ReadsInTime, Secrets!UnderWay
<1>4. Kept' /\ Joiners'
  BY <1>2 DEF Kept, Joiners
<1>5. Entries'
  BY <1>2 DEF Entries, SecretsTyped
<1> QED BY <1>1, <1>2, <1>3, <1>4, <1>5

LEMMA SecretStep == SecretInv /\ [Next]_vars => SecretInv'
<1> SUFFICES ASSUME SecretInv, [Next]_vars PROVE SecretInv'
  OBVIOUS
<1>1. ASSUME NEW r \in Requests, RequestStep(r) PROVE SecretInv'
  <2>1. CASE LookUpKey(r)
    BY <2>1, LookUpKeepsSecrets
  <2>2. CASE LookUpStep(r)
    BY <2>2, LookUpStepKeepsSecrets
  <2>3. CASE Arrive(r) \/ Refuse(r) \/ Verify(r) \/ ClaimStep(r) \/ Decide(r)
    BY <2>3, SecretStutter DEF Arrive, Refuse, Verify, ClaimStep, Decide
  <2> QED BY <1>1, <2>1, <2>2, <2>3 DEF RequestStep
<1>2. CASE Sweep \/ UNCHANGED vars
  BY <1>2, SecretStutter DEF Sweep, vars
<1> QED BY <1>1, <1>2, RevokeKeepsSecrets, TickKeepsSecrets DEF Next

-----------------------------------------------------------------------------
(* Theorems                                                                *)

\* The two inductive invariants, of the nonce stores and of the key caches, hold
\* throughout.
THEOREM Invariance == Spec => [](NonceInv /\ SecretInv)
<1>1. Init => NonceInv /\ SecretInv
  BY NonceInit, SecretInit
<1>2. NonceInv /\ SecretInv /\ [Next]_vars => (NonceInv /\ SecretInv)'
  BY NonceStep, SecretStep
<1> QED BY <1>1, <1>2, PTL DEF Spec

\* The variables keep their types.
THEOREM TypeCorrect == Spec => []TypeOK
<1>1. NonceInv /\ SecretInv => TypeOK
  <2> SUFFICES ASSUME NonceInv, SecretInv PROVE TypeOK
    OBVIOUS
  <2> USE DEF NonceInv, SecretInv
  <2>1. stage \in [Requests -> {"idle", "arrived", "verified", "accepted", "refused"}]
    BY DEF RequestsTyped
  <2>2. Nonces!NonceTypeOK
    BY DEF Nonces!NonceTypeOK, NoncesTyped, Rows, Nonces!Claims
  <2>3. Secrets!SecretTypeOK
    BY DEF Secrets!SecretTypeOK, SecretsTyped, FixedTyped, Entries, Secrets!Providers,
           Secrets!Lookups, Secrets!NoEntry, Secrets!Never
  <2> QED BY <2>1, <2>2, <2>3 DEF TypeOK
<1> QED BY <1>1, Invariance, PTL

\* verifySignature: one signed request is accepted once, however many copies
\* come to however many servers, unless a copy was served for Slack or longer.
THEOREM SignaturesBuyOnce == Spec => []AcceptedOnce
<1>1. NonceInv => AcceptedOnce
  BY DEF NonceInv, PromptOnce, AcceptedOnce, Accepted
<1> QED BY <1>1, Invariance, PTL

\* getSigningKey: a revoked key is not handed out beyond the provider's Grace.
THEOREM RevokedKeysStop == Spec => []RevokedStops
<1>1. SecretInv => RevokedStops
  <2> SUFFICES ASSUME SecretInv, NEW r \in Requests, lookup[r] = "key", revokedAt # -1
               PROVE  asked[r] <= revokedAt + Grace
    BY DEF RevokedStops, Secrets!Never
  <2> USE DEF SecretInv
  <2>1. Gone
    BY DEF Gone, Revocation, SecretsTyped
  <2>2. CacheTtl \in Nat /\ MaxRead \in Nat /\ asked[r] \in Nat /\ revokedAt \in Int
    BY StoresAssumption DEF SecretsTyped
  <2> QED BY <2>1, <2>2 DEF Kept, Grace, FixedTyped
<1> QED BY <1>1, Invariance, PTL

\* getSigningKey: no cache holds a read that failed or found nothing.
THEOREM FailuresAreForgotten == Spec => []NoPinnedFailure
<1>1. SecretInv => NoPinnedFailure
  BY DEF SecretInv, Entries, NoPinnedFailure, Secrets!NoEntry, Secrets!Never
<1> QED BY <1>1, Invariance, PTL
=============================================================================
