----------------------------- MODULE NonceStores -----------------------------
(***************************************************************************)
(* checkAndStore over the four NonceStores: the in-memory one, Redis, the  *)
(* Durable Object and DynamoDB.  The first three decide in one step.       *)
(* DynamoDB inserts if absent; when a row is there, it may be one past its *)
(* deadline that the table has not swept yet, and the call reclaims it:    *)
(* read, write if the version is unchanged, read again to see whose row it *)
(* is.                                                                     *)
(*                                                                         *)
(* Times are whole seconds.  now is the store's clock; a server's clock    *)
(* differs from it by offset.  DynamoDB has no clock of its own for this:  *)
(* servers write and compare deadlines by theirs, and only the sweep goes  *)
(* by the table's.                                                         *)
(***************************************************************************)
EXTENDS Integers

CONSTANTS
    Requests,        \* the calls of checkAndStore
    NonceKeys,       \* the nonces they may name
    Ttl,             \* ttlSeconds
    MaxCasRetries    \* bound of the port's read-write loop

VARIABLES
    now,
    offset,    \* of the server that handles a request; fixed
    store,     \* which NonceStore; fixed
    nonce,     \* what a call claims; fixed
    row,       \* the rows, by nonce
    claim,     \* where a call is: idle, start, reading, writing, confirming, fresh, replay
    seen,      \* the row its loop read last
    tries,     \* how often its loop wrote in vain
    deadline   \* the deadline it stores, by its server's clock

NonceBackends == {"memory", "redis", "durable", "dynamo"}
Serial == NonceBackends \ {"dynamo"}

NoRow == [owner |-> "none", exp |-> 0, ver |-> 0]
Row(r, exp, ver) == [owner |-> r, exp |-> exp, ver |-> ver]
Present(n) == row[n].ver > 0
Mine(r) == row[nonce[r]]
There(r) == Present(nonce[r])
Put(r, new) == row' = [row EXCEPT ![nonce[r]] = new]

Clock(r) == now + offset[r]

Claims == {"idle", "start", "reading", "writing", "confirming", "fresh", "replay"}

NonceInit ==
    /\ row = [n \in NonceKeys |-> NoRow]
    /\ claim = [r \in Requests |-> "idle"]
    /\ seen = [r \in Requests |-> NoRow]
    /\ tries = [r \in Requests |-> 0]
    /\ deadline = [r \in Requests |-> 0]

To(r, c) == claim' = [claim EXCEPT ![r] = c]

Live(r) == There(r) /\ Mine(r).exp > now

\* One Redis SET NX PX, one serial section of the object or of the process.
SerialClaim(r) ==
    /\ store \in Serial
    /\ claim[r] = "start"
    /\ \/ /\ Live(r)
          /\ To(r, "replay")
          /\ UNCHANGED row
       \/ /\ ~Live(r)
          /\ Put(r, Row(r, now + Ttl, 1))
          /\ To(r, "fresh")
    /\ UNCHANGED <<seen, tries, deadline>>

\* putItem with ifNotExists.
Insert(r) ==
    /\ store = "dynamo"
    /\ claim[r] = "start"
    /\ deadline' = [deadline EXCEPT ![r] = Clock(r) + Ttl]
    /\ \/ ~There(r) /\ Put(r, Row(r, Clock(r) + Ttl, 1)) /\ To(r, "fresh")
       \/ There(r) /\ To(r, "reading") /\ UNCHANGED row
    /\ UNCHANGED <<seen, tries>>

\* updateConditional reads; a row that is live by this server's clock aborts
\* the write, which the port reports like a write.
ReclaimRead(r) ==
    /\ claim[r] = "reading"
    /\ seen' = [seen EXCEPT ![r] = Mine(r)]
    /\ To(r, IF There(r) /\ Mine(r).exp > Clock(r) THEN "confirming" ELSE "writing")
    /\ UNCHANGED <<row, tries, deadline>>

\* Its Put goes through if the row is still absent, or still has the version
\* that was read.
SameVersion(r) == Mine(r).ver = seen[r].ver

ReclaimWrite(r) ==
    /\ claim[r] = "writing"
    /\ SameVersion(r)
    /\ Put(r, Row(r, deadline[r], seen[r].ver + 1))
    /\ To(r, "confirming")
    /\ UNCHANGED <<seen, tries, deadline>>

ReclaimConflict(r) ==
    /\ claim[r] = "writing"
    /\ ~SameVersion(r)
    /\ tries' = [tries EXCEPT ![r] = @ + 1]
    /\ To(r, IF tries[r] + 1 < MaxCasRetries THEN "reading" ELSE "replay")
    /\ UNCHANGED <<row, seen, deadline>>

\* getItem: is it ours that is there now?
Confirm(r) ==
    /\ claim[r] = "confirming"
    /\ To(r, IF There(r) /\ Mine(r).owner = r THEN "fresh" ELSE "replay")
    /\ UNCHANGED <<row, seen, tries, deadline>>

ClaimStep(r) ==
    \/ SerialClaim(r)
    \/ Insert(r)
    \/ ReclaimRead(r)
    \/ ReclaimWrite(r)
    \/ ReclaimConflict(r)
    \/ Confirm(r)

\* DynamoDB's TTL, the object's alarm, the map's pruning.
Sweep ==
    /\ store # "redis"
    /\ \E n \in NonceKeys :
          /\ Present(n) /\ row[n].exp <= now
          /\ store = "durable" => row[n].exp < now
          /\ row' = [row EXCEPT ![n] = NoRow]
    /\ UNCHANGED <<claim, seen, tries, deadline>>

NonceTypeOK ==
    /\ \A n \in NonceKeys : row[n].ver \in Nat /\ row[n].exp \in Int
    /\ claim \in [Requests -> Claims]
    /\ tries \in [Requests -> 0 .. MaxCasRetries]
    /\ deadline \in [Requests -> Int]
=============================================================================
