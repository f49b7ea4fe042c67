----------------------------- MODULE TokenBuckets -----------------------------
(***************************************************************************)
(* One token bucket in any of the four RateLimitStores.  In process memory,*)
(* in Redis (one script, the server's clock) and in the Durable Object a   *)
(* consume is one step.  DynamoDB's reads the row, computes by its own     *)
(* server's clock, and writes if the row's version is unchanged, a bounded *)
(* number of times.  Buckets expire, and are swept, behind the callers'    *)
(* back.                                                                   *)
(*                                                                         *)
(* Time is in ticks, tokens in the amount one tick refills.  Beside the    *)
(* bucket runs the ideal one, which refills with true time and pays for    *)
(* every allowed request; the properties compare the two.                  *)
(***************************************************************************)
EXTENDS Integers, FiniteSetsExt

CONSTANTS
    Callers,
    Capacity, Rate,      \* of the TokenBucketSpec; Rate > 0 is per tick
    Costs,               \* what requests may cost
    Second,              \* ticks of a second
    MaxElapsed,          \* MAX_ELAPSED_MS
    TtlFloor,            \* the least ttl of a DynamoDB row, in ticks
    MaxDrift,            \* by which a server's clock differs from true time
    MaxCasRetries,
    MaxVersion,          \* bound: DynamoDB rows are not written beyond it
    Horizon              \* bound: the clock stops there

ASSUME BucketAssumption ==
    /\ {Capacity, Rate, Second, MaxElapsed, MaxCasRetries} \subseteq Nat \ {0}
    /\ Costs \subseteq 1 .. Capacity
    /\ {TtlFloor, MaxDrift, MaxVersion, Horizon} \subseteq Nat

\* "long enough to refill any sane bucket"
ASSUME SaneBucket == Capacity <= Rate * MaxElapsed

VARIABLES
    now,
    backend, drift,  \* the store; its callers' clocks; fixed
    bucket,          \* tokens as of the time at; a row expires at exp; its version
    call,            \* of a caller: idle, reading, writing
    cost,            \* what it asks for
    held,            \* the bucket its loop read last
    readAt,          \* ... and when
    tries,           \* how often its loop wrote in vain
    ideal,           \* history: the ideal bucket
    idealRead,       \* ... and as it was when a caller's loop read
    hint,            \* history: Retry-After of the last answer, while nothing else was
                     \* asked, and whether the answer was for retries lost
    overtaken,       \* history: callers about to write, whom a write has come before
    swapped,         \* history: an overtaken write found the version it had read
    lagging          \* history: a refill was cut to MaxElapsed

storeVars == <<bucket, call, cost, held, readAt, tries>>
pastVars == <<ideal, idealRead, hint, overtaken, swapped, lagging>>
bucketVars == <<now, backend, drift, storeVars, pastVars>>

Backends == {"memory", "redis", "durable", "dynamo"}
Serial == Backends \ {"dynamo"}

Rows == [tokens : 0 .. Capacity, at : Int, exp : Int, ver : 0 .. MaxVersion + 1]
NoBucket == [tokens |-> Capacity, at |-> 0, exp |-> 0, ver |-> 0]
Present(b) == b.ver > 0
NoHint == [due |-> -1, cost |-> 0, lost |-> FALSE]
Hints == [due : Int, cost : Nat, lost : BOOLEAN]

Clock(c, t) == t + drift[c]

BucketInit ==
    /\ now = 0
    /\ backend \in Backends
    /\ drift \in [Callers -> -MaxDrift .. MaxDrift]
    /\ backend # "dynamo" => \A c \in Callers : drift[c] = 0
    /\ bucket = NoBucket
    /\ call = [c \in Callers |-> "idle"]
    /\ cost = [c \in Callers |-> 0]
    /\ held = [c \in Callers |-> NoBucket]
    /\ readAt = [c \in Callers |-> 0]
    /\ tries = [c \in Callers |-> 0]
    /\ ideal = Capacity
    /\ idealRead = [c \in Callers |-> 0]
    /\ hint = NoHint
    /\ overtaken = {}
    /\ swapped = FALSE
    /\ lagging = FALSE

-----------------------------------------------------------------------------
\* computeTokenBucket

CeilDiv(a, b) == (a + b - 1) \div b
AtMost(a, b) == Min({a, b})
AtLeast(a, b) == Max({a, b})

\* Redis and DynamoDB: never back before the last refill, never further than
\* MaxElapsed past it.
Clamps == {"redis", "dynamo"}

ClampNow(b, t) ==
    IF Present(b) /\ backend \in Clamps
    THEN AtMost(AtLeast(t, b.at), b.at + MaxElapsed)
    ELSE t

\* What is in b at t.
Refill(b, t) ==
    IF ~Present(b) THEN Capacity
    ELSE IF t <= b.at THEN b.tokens
    ELSE AtMost(Capacity, b.tokens + Rate * (t - b.at))

Enough(b, t, n) == Refill(b, t) >= n

\* Faulty variant for sensitivity runs: a refused request spends what is there.
LeftSpent(b, t, n) == AtLeast(0, Refill(b, t) - n)

Left(b, t, n) == Refill(b, t) - (IF Enough(b, t, n) THEN n ELSE 0)

\* Faulty variant for sensitivity runs: rounded down.
RetryFloor(b, t, n) ==
    IF Enough(b, t, n) THEN 0 ELSE Second * ((n - Refill(b, t)) \div (Rate * Second))

\* Whole seconds until n are there, in ticks.
RetryAfter(b, t, n) ==
    IF Enough(b, t, n) THEN 0 ELSE Second * CeilDiv(n - Refill(b, t), Rate * Second)

-----------------------------------------------------------------------------
\* The stores

SecondsToFull(tokens) == Second * CeilDiv(Capacity - tokens, Rate * Second)

\* When a bucket may be dropped: Redis counts an empty bucket's refill and a
\* second more; the object the refill from here; DynamoDB the same with a
\* floor, by the caller's clock cut to seconds.
Expiry(tokens, t) ==
    CASE backend = "memory" -> 0
      [] backend = "redis" -> t + CeilDiv(Capacity, Rate) + Second
      [] backend = "durable" -> t + AtLeast(Second, SecondsToFull(tokens))
      [] backend = "dynamo" ->
            Second * (t \div Second) + AtLeast(TtlFloor, SecondsToFull(tokens))

\* A row past its time counts as absent, in DynamoDB only once it is swept.
Expired(b) == backend \in {"redis", "durable"} /\ b.exp <= now
Seen == IF Present(bucket) /\ ~Expired(bucket) THEN bucket ELSE NoBucket

After(b, t, n, ver) ==
    LET left == Left(b, ClampNow(b, t), n) IN
    [tokens |-> left, at |-> ClampNow(b, t), exp |-> Expiry(left, t), ver |-> ver]

Spent(b, t, n) == IF Enough(b, t, n) THEN n ELSE 0

\* The answer to a request for n: b is what it was computed from, at t.  It
\* counts from the read: i was in the ideal bucket then, ago ticks ago.
Reply(b, t, n, i, ago) ==
    LET u == ClampNow(b, t) IN
    /\ ideal' = AtMost(Capacity, i - Spent(b, u, n) + Rate * ago)
    /\ hint' = IF Enough(b, u, n) THEN NoHint
               ELSE [due |-> now + RetryAfter(b, u, n), cost |-> n, lost |-> FALSE]

ConsumeAtOnce(c) ==
    /\ backend \in Serial
    /\ \E n \in Costs :
          /\ bucket' = After(Seen, now, n, 1)
          /\ Reply(Seen, now, n, ideal, 0)
    /\ UNCHANGED <<now, backend, drift, call, cost, held, readAt, tries, idealRead,
                   overtaken, swapped, lagging>>

\* A request for n, or the loop again.  The mutate callback runs on what was
\* read, at that moment.
Read(c) ==
    /\ backend = "dynamo"
    /\ \/ call[c] = "idle" /\ \E n \in Costs : cost' = [cost EXCEPT ![c] = n]
       \/ call[c] = "reading" /\ UNCHANGED cost
    /\ call' = [call EXCEPT ![c] = "writing"]
    /\ held' = [held EXCEPT ![c] = bucket]
    /\ readAt' = [readAt EXCEPT ![c] = now]
    /\ idealRead' = [idealRead EXCEPT ![c] = ideal]
    /\ UNCHANGED <<now, backend, drift, bucket, tries, ideal, hint, overtaken,
                   swapped, lagging>>

\* With the answer the call's locals are gone.
Return(c) ==
    /\ call' = [call EXCEPT ![c] = "idle"]
    /\ cost' = [cost EXCEPT ![c] = 0]
    /\ held' = [held EXCEPT ![c] = NoBucket]
    /\ readAt' = [readAt EXCEPT ![c] = 0]
    /\ tries' = [tries EXCEPT ![c] = 0]

\* What others have read is short of what c spends.
Debit(c, n) == idealRead' = [d \in Callers |->
    IF d = c \/ call[d] # "writing" THEN 0 ELSE idealRead[d] - n]

\* Faulty variant for sensitivity runs: a plain put.
AnyVersion(c) == TRUE

SameVersion(c) == bucket.ver = held[c].ver

Write(c) ==
    /\ call[c] = "writing"
    /\ SameVersion(c)
    /\ held[c].ver < MaxVersion
    /\ bucket' = After(held[c], Clock(c, readAt[c]), cost[c], held[c].ver + 1)
    /\ Reply(held[c], Clock(c, readAt[c]), cost[c], idealRead[c], now - readAt[c])
    /\ swapped' = (swapped \/ (c \in overtaken /\ bucket.ver = held[c].ver))
    /\ overtaken' = {d \in Callers \ {c} : call[d] = "writing"}
    /\ lagging' = (lagging \/ ClampNow(held[c], Clock(c, readAt[c])) < Clock(c, readAt[c]))
    /\ Debit(c, Spent(held[c], ClampNow(held[c], Clock(c, readAt[c])), cost[c]))
    /\ Return(c)
    /\ UNCHANGED <<now, backend, drift>>

Conflict(c) ==
    /\ call[c] = "writing"
    /\ ~SameVersion(c)
    /\ tries[c] + 1 < MaxCasRetries
    /\ tries' = [tries EXCEPT ![c] = @ + 1]
    /\ call' = [call EXCEPT ![c] = "reading"]
    /\ Debit(c, 0)
    /\ overtaken' = overtaken \ {c}
    /\ UNCHANGED <<now, backend, drift, bucket, cost, held, readAt, ideal, hint,
                   swapped, lagging>>

\* Denied, with nothing spent and nothing known of the bucket: the answer's
\* Retry-After is that of a full one.
GiveUp(c) ==
    /\ call[c] = "writing"
    /\ ~SameVersion(c)
    /\ tries[c] + 1 = MaxCasRetries
    /\ Return(c)
    /\ hint' = [due |-> now + RetryAfter(NoBucket, Clock(c, now), cost[c]),
                cost |-> cost[c], lost |-> TRUE]
    /\ Debit(c, 0)
    /\ overtaken' = overtaken \ {c}
    /\ UNCHANGED <<now, backend, drift, bucket, ideal, swapped, lagging>>

\* Redis's expiry, the object's alarm, DynamoDB's TTL; the map drops full
\* buckets.
Sweep ==
    /\ Present(bucket)
    /\ IF backend = "memory"
       THEN Refill(bucket, now) = Capacity
       ELSE bucket.exp < now \/ (bucket.exp = now /\ backend # "durable")
    /\ bucket' = NoBucket
    /\ UNCHANGED <<now, backend, drift, call, cost, held, readAt, tries, pastVars>>

Tick ==
    /\ now < Horizon
    /\ now' = now + 1
    /\ ideal' = AtMost(Capacity, ideal + Rate)
    /\ UNCHANGED <<backend, drift, storeVars, idealRead, hint, overtaken, swapped, lagging>>

CallStep(c) ==
    \/ ConsumeAtOnce(c) \/ Read(c) \/ Write(c) \/ Conflict(c)
    \/ GiveUp(c)

BucketNext == (\E c \in Callers : CallStep(c)) \/ Sweep \/ Tick

BucketSpec == BucketInit /\ [][BucketNext]_bucketVars

-----------------------------------------------------------------------------

BucketTypeOK ==
    /\ now \in 0 .. Horizon /\ backend \in Backends
    /\ drift \in [Callers -> -MaxDrift .. MaxDrift]
    /\ bucket \in Rows /\ held \in [Callers -> Rows]
    /\ call \in [Callers -> {"idle", "reading", "writing"}]
    /\ cost \in [Callers -> Costs \cup {0}]
    /\ readAt \in [Callers -> 0 .. now]
    /\ tries \in [Callers -> 0 .. MaxCasRetries - 1]
    /\ ideal \in Int /\ ideal <= Capacity /\ idealRead \in [Callers -> Int]
    /\ hint \in Hints
    /\ overtaken \in SUBSET Callers /\ swapped \in BOOLEAN /\ lagging \in BOOLEAN

\* What a request would find now, by a right clock.
Content == Refill(Seen, ClampNow(Seen, now))

\* What the callers' clocks may be worth.
Allowance == Rate * 2 * MaxDrift

\* No overspending: however concurrent calls, expiry and sweep interleave, and
\* whatever the callers' clocks say, the store never gives out more than the
\* ideal bucket has, but for the clocks' difference, once.  Two gaps of
\* DynamoDB's are left out: versions begin again once a row is swept, so that a
\* write which others came before may find the version it read (swapped), and
\* a row may stay after its ttl (lagging).
NoOverspend ==
    \/ ideal >= -(IF backend = "dynamo" THEN Allowance ELSE 0)
    \/ swapped \/ lagging

\* The bucket is never harsher than its specification: a refused request
\* costs nothing, a slow clock sets nothing back, no refill is lost.
NeverHarsher == Content >= ideal - (IF backend = "dynamo" THEN Allowance ELSE 0)

\* When whoever was given the hint h is in time: as long as it says, and for
\* retries lost, where it says nothing, as long as an empty bucket takes.
InTime(h) == h.due + (IF h.lost THEN Second * CeilDiv(h.cost, Rate * Second) ELSE 0)

\* Retry-After is honest wherever the answer was computed from the bucket:
\* whoever waits that long, with nobody else asking, is served.  DynamoDB's
\* answer to retries lost says zero, of a bucket that may be empty: it is short
\* by no more than what was asked for takes to refill.
RetryHonest ==
    LET due == InTime(hint) + (IF backend = "dynamo" THEN 2 * MaxDrift ELSE 0) IN
    hint # NoHint /\ now >= due => Content >= hint.cost

\* "a single logical bucket MUST NOT overspend": with right clocks, and no
\* write over a row that is not the one read, the limit is exact.
ExactLimits == ideal >= 0 \/ swapped
=============================================================================
