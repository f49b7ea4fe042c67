---------------------------- MODULE SignedRequests ----------------------------
(***************************************************************************)
(* verifySignature: copies of one signed request reach the servers, the    *)
(* signer's own retries among them, some of them respelled or changed on   *)
(* the way.  Each is checked against the clock, its key is looked up, its  *)
(* canonical form verified, and its signature is claimed as a nonce, with  *)
(* arbitrary time between the steps.                                       *)
(*                                                                         *)
(* The claim is NonceStores, the lookup SecretProviders.                   *)
(***************************************************************************)
EXTENDS Integers

CONSTANTS
    Requests,         \* the copies
    Servers,
    Window,           \* acceptanceWindowSeconds
    ForwardSkew,      \* maxForwardSkewSeconds, clamped to the window
    MaxDrift,         \* by which a server's clock differs from true time, at most
    MaxCasRetries,
    CacheTtl,
    MaxRead,
    Horizon           \* bound: the clock stops there

ASSUME WindowAssumption ==
    /\ Window \in Nat \ {0}
    /\ ForwardSkew \in 0 .. Window
    /\ MaxDrift \in Nat
    /\ Horizon \in Nat

ASSUME StoresAssumption ==
    /\ MaxCasRetries \in Nat \ {0}
    /\ CacheTtl \in Nat
    /\ MaxRead \in Nat

VARIABLES
    now,
    server, drift,             \* who handles a request; the servers' clocks; fixed
    store, policy,             \* which NonceStore, or none; what the operation asks of it; fixed
    signedAt,                  \* the request's timestamp; fixed
    copy,                      \* how a copy's parts read, next to the signed ones; fixed
    stage,                     \* of a copy: idle, arrived, verified, accepted, refused
    arrived,                   \* history: when its timestamp was checked, while it is served
    slow,                      \* history: it took Slack or longer from there to its end
    row, claim, seen, tries, deadline,                              \* NonceStores
    provider, material, revokedAt, cache, lookup, leader, asked     \* SecretProviders

\* Faulty variant for sensitivity runs: the nonce lasts one window.
OneWindow == Window

\* checkAndStore(signature, window * 2)
NonceTtl == 2 * Window

-----------------------------------------------------------------------------

\* A part of a copy is as it was signed, or other bytes: those that
\* buildCanonicalString or the header's parser makes alike, or others.
Parts == {"authorization", "method", "path", "query", "headers", "body"}
Texts == {"signed", "respelled", "changed"}
AsSigned == [p \in Parts |-> "signed"]

\* Another case of the method, another order or escaping of the query, other
\* spacing in a header's value.  Path and body are taken as they are.
Normalised == {"method", "query", "headers"}

Canonical(r) == [p \in Parts \ {"authorization"} |->
    IF p \in Normalised /\ copy[r][p] = "respelled" THEN "signed" ELSE copy[r][p]]

\* crypto.subtle.verify over the canonical string and the signature's bytes,
\* which the case of its hex digits does not change.
Authentic(r) == Canonical(r) = [p \in Parts \ {"authorization"} |-> "signed"]

\* parseAuthorizationHeader takes the three parameters and nothing else, and
\* the list must have the required headers.
Parsed(r) == copy[r]["authorization"] # "changed"

\* The nonce is the signature in lower case.
Nonce == [r \in Requests |-> "signed"]

Offset == [r \in Requests |-> drift[server[r]]]

Nonces == INSTANCE NonceStores WITH
    Ttl <- NonceTtl, NonceKeys <- Texts, offset <- Offset, nonce <- Nonce
Secrets == INSTANCE SecretProviders

fixed == <<server, drift, store, policy, signedAt, copy, provider>>
nonceVars == <<row, claim, seen, tries, deadline>>
secretVars == <<material, revokedAt, cache, lookup, leader, asked>>
requestVars == <<stage, arrived, slow>>
vars == <<now, fixed, requestVars, nonceVars, secretVars>>

Policies == {"tracked", "forced", "exempt", "replayAllowed"}

Init ==
    /\ now = 0
    /\ server \in [Requests -> Servers]
    /\ drift \in [Servers -> -MaxDrift .. MaxDrift]
    /\ store \in Nonces!NonceBackends \cup {"none"}
    /\ policy \in Policies
    /\ signedAt \in 0 .. ForwardSkew + MaxDrift
    /\ copy \in [Requests -> [Parts -> Texts]]
    /\ stage = [r \in Requests |-> "idle"]
    /\ arrived = [r \in Requests |-> 0]
    /\ slow = [r \in Requests |-> FALSE]
    \* a process's own memory serves the requests of that process
    /\ store = "memory" => \A r, s \in Requests : server[r] = server[s]
    /\ Nonces!NonceInit
    /\ Secrets!SecretInit

At(r, s) == stage' = [stage EXCEPT ![r] = s]

\* What of the window the forward skew and the clocks leave.
Slack == Window - ForwardSkew - 2 * MaxDrift

\* The answer; with it the call's locals are gone.
End(r, s) ==
    /\ At(r, s)
    /\ arrived' = [arrived EXCEPT ![r] = 0]
    /\ slow' = [slow EXCEPT ![r] = now - arrived[r] >= Slack]

InWindow(r) ==
    /\ Nonces!Clock(r) - signedAt <= Window
    /\ signedAt - Nonces!Clock(r) <= ForwardSkew

\* Header, timestamp and required headers are checked before the body is read.
Arrive(r) ==
    /\ stage[r] = "idle"
    /\ IF Parsed(r) /\ InWindow(r)
       THEN At(r, "arrived") /\ arrived' = [arrived EXCEPT ![r] = now]
       ELSE At(r, "refused") /\ UNCHANGED arrived
    /\ UNCHANGED <<now, fixed, slow, nonceVars, secretVars>>

\* With the body read and its hash as declared, the key is asked for.
LookUpKey(r) ==
    /\ stage[r] = "arrived"
    /\ Secrets!LookUp(r)
    /\ UNCHANGED <<now, fixed, requestVars, nonceVars>>

LookUpStep(r) ==
    /\ Secrets!LookUpStep(r)
    /\ UNCHANGED <<now, fixed, requestVars, nonceVars>>

\* A body whose hash is not the declared one, if one is declared; a key that
\* is not there; a signature that is not this copy's.
Refuse(r) ==
    /\ stage[r] = "arrived"
    /\ \/ lookup[r] = "idle" /\ copy[r]["body"] # "signed"
       \/ lookup[r] \in Secrets!Settled \ {"key"}
       \/ lookup[r] = "key" /\ ~Authentic(r)
    /\ End(r, "refused")
    /\ UNCHANGED <<now, fixed, nonceVars, secretVars>>

NeedsNonce == policy # "exempt"
Unprotected == ~NeedsNonce \/ (store = "none" /\ policy = "replayAllowed")

\* The signature is right.  Then the nonce: exempt operations have none;
\* without a store the request is refused, unless that was allowed.
Verify(r) ==
    /\ stage[r] = "arrived"
    /\ lookup[r] = "key" /\ Authentic(r)
    /\ \/ /\ Unprotected
          /\ End(r, "accepted")
          /\ UNCHANGED claim
       \/ /\ ~Unprotected /\ store = "none"
          /\ End(r, "refused")
          /\ UNCHANGED claim
       \/ /\ ~Unprotected /\ store # "none"
          /\ At(r, "verified")
          /\ claim' = [claim EXCEPT ![r] = "start"]
          /\ UNCHANGED <<arrived, slow>>
    /\ UNCHANGED <<now, fixed, row, seen, tries, deadline, secretVars>>

ClaimStep(r) ==
    /\ Nonces!ClaimStep(r)
    /\ UNCHANGED <<now, fixed, requestVars, secretVars>>

\* checkAndStore has answered.
Decide(r) ==
    /\ stage[r] = "verified"
    /\ \/ claim[r] = "fresh" /\ End(r, "accepted")
       \/ claim[r] = "replay" /\ End(r, "refused")
    /\ seen' = [seen EXCEPT ![r] = Nonces!NoRow]
    /\ tries' = [tries EXCEPT ![r] = 0]
    /\ deadline' = [deadline EXCEPT ![r] = 0]
    /\ UNCHANGED <<now, fixed, row, claim, secretVars>>

Sweep ==
    /\ Nonces!Sweep
    /\ UNCHANGED <<now, fixed, requestVars, secretVars>>

Revoke ==
    /\ Secrets!Revoke
    /\ UNCHANGED <<now, fixed, requestVars, nonceVars>>

Tick ==
    /\ now < Horizon
    /\ Secrets!ReadsInTime
    /\ now' = now + 1
    /\ UNCHANGED <<fixed, requestVars, nonceVars, secretVars>>

RequestStep(r) ==
    \/ Arrive(r) \/ LookUpKey(r) \/ LookUpStep(r) \/ Refuse(r)
    \/ Verify(r) \/ ClaimStep(r) \/ Decide(r)

Next == (\E r \in Requests : RequestStep(r)) \/ Sweep \/ Revoke \/ Tick

Spec == Init /\ [][Next]_vars

-----------------------------------------------------------------------------

TypeOK ==
    /\ stage \in [Requests -> {"idle", "arrived", "verified", "accepted", "refused"}]
    /\ Nonces!NonceTypeOK
    /\ Secrets!SecretTypeOK

Accepted(r) == stage[r] = "accepted"

\* A signed request is accepted once, on whichever server and store, however
\* its copies are spelt and they and the sweep interleave: a second acceptance takes a copy that
\* spent Slack (four and a half minutes by default) between its
\* timestamp's check and its answer.  The clocks may differ.
AcceptedOnce ==
    \A r, s \in Requests :
        r # s /\ ~Unprotected /\ Accepted(r) /\ Accepted(s)
            => \E q \in Requests : Accepted(q) /\ slow[q]

\* How long a provider may still answer with a key after it was revoked.  The
\* Node provider stamps its entry when the import is done, so a read that
\* overtook the revocation counts from its end.
Grace == CASE provider = "node" -> CacheTtl + MaxRead
           [] provider = "secretsManager" -> CacheTtl
           [] provider = "env" -> 0

\* A revoked key stops verifying: no lookup asked for later than Grace after
\* the revocation has the key, whatever reads and joined promises were under
\* way.
RevokedStops ==
    \A r \in Requests :
        lookup[r] = "key" /\ revokedAt # Secrets!Never => asked[r] <= revokedAt + Grace

\* A failed or empty read is never served from the cache to later requests.
NoPinnedFailure ==
    \A h \in Servers :
        cache[h] # Secrets!NoEntry => lookup[cache[h].by] \notin {"failed", "none"}
=============================================================================
