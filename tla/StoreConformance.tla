-------------------------- MODULE StoreConformance --------------------------
(***************************************************************************)
(* One record in any of the persistent back-ends, under any mix of calls:  *)
(* the data-store contract the adapters share, checked against the port's  *)
(* reference (DataStore.tla).                                              *)
(*                                                                         *)
(* Two questions.  Call by call (serial), is every adapter the reference?  *)
(* And when the requests of concurrent calls interleave, for which mixes   *)
(* of calls does every call still take effect in one atomic step?  Atomic  *)
(* names the mixes.                                                        *)
(***************************************************************************)
EXTENDS RecordCalls

VARIABLES
    backend,   \* which adapter holds the record; fixed
    serial,    \* no call starts before the one in flight has returned; fixed
    seen,      \* the adapters' own: see CasSteps and RedisStore
    cur

vars == <<backend, serial, callVars, seen, cur>>

Backends == {"dynamo", "sql", "redis", "kv"} \cup {"fakeDynamo", "fakeSql", "fakeRedis"}

Dynamo == INSTANCE DynamoStore
Sql == INSTANCE SqlStore
Redis == INSTANCE RedisStore
Kv == INSTANCE KvStore
Fake == INSTANCE FakePorts

Init ==
    /\ backend \in Backends
    /\ serial \in BOOLEAN
    /\ CallsInit
    \* KvDataStore refuses to be asked for optimistic concurrency
    /\ backend = "kv" => \A c \in Calls : kind[c] \notin Guarded
    /\ seen = [c \in Calls |-> Absent]
    /\ cur = [c \in Calls |-> Absent]

InTurn(c) == serial => Alone(c)

DynamoStep(c) ==
    backend = "dynamo" /\ InTurn(c) /\ Dynamo!CallStep(c) /\ UNCHANGED <<backend, serial>>
SqlStep(c) ==
    backend = "sql" /\ InTurn(c) /\ Sql!CallStep(c) /\ UNCHANGED <<backend, serial>>
RedisStep(c) ==
    backend = "redis" /\ InTurn(c) /\ Redis!CallStep(c) /\ UNCHANGED <<backend, serial, cur>>
KvStep(c) ==
    backend = "kv" /\ InTurn(c) /\ Kv!CallStep(c) /\ UNCHANGED <<backend, serial>>

\* The stores as their own tests run them.
FakeStep(c) ==
    /\ InTurn(c) /\ UNCHANGED <<backend, serial>>
    /\ \/ backend = "fakeDynamo" /\ Fake!FakeDynamoStep(c)
       \/ backend = "fakeSql" /\ Fake!FakeSqlStep(c)
       \/ backend = "fakeRedis" /\ Fake!FakeRedisStep(c)

CallStep(c) ==
    DynamoStep(c) \/ SqlStep(c) \/ RedisStep(c) \/ KvStep(c) \/ FakeStep(c)

Next == \E c \in Calls : CallStep(c)

Spec == Init /\ [][Next]_vars

TypeOK ==
    /\ backend \in Backends
    /\ backend = "dynamo" => Dynamo!TypeOK
    /\ backend = "sql" => Sql!TypeOK
    /\ backend = "redis" => Redis!TypeOK
    /\ backend = "kv" => Kv!TypeOK
    /\ backend \in {"fakeDynamo", "fakeSql", "fakeRedis"} => Fake!TypeOK

-----------------------------------------------------------------------------

\* The calls have among them one of K, or one of K beside another one of L.
Some(K) == \E c \in Calls : kind[c] \in K
Beside(K, L) == \E c, d \in Calls : c # d /\ kind[c] \in K /\ kind[d] \in L

\* The mixes of calls no interleaving of the adapter's requests can disturb.
Atomic ==
    \* a patch can meet a record deleted and created again at its version
    /\ (backend \notin {"redis", "fakeRedis"} /\ ~soft) =>
          ~(Some(Patches) /\ Some(Deletes) /\ Some({"create", "put"}))
    \* a create can meet a tombstone it did not read; an unguarded delete can
    \* miss a write between its reads
    /\ (backend = "dynamo" /\ soft) =>
          /\ ~(Some({"create"}) /\ Some(Deletes))
          /\ ~Beside({"delete"}, AllKinds \ Deletes)
    \* a put can miss a write between its read and its write
    /\ backend \in {"sql", "fakeSql"} => ~Beside({"put"}, AllKinds)
    \* a read can tear
    /\ backend \in {"redis", "fakeRedis"} => ~Beside(Guarded \cup Patches, AllKinds)
    \* no write has a condition
    /\ backend = "kv" => serial

Port == INSTANCE DataStore WITH
    pc <- AtomicPc, TombstoneBump <- 1, MayLoseRace <- TRUE

Reference == INSTANCE DataStore WITH
    pc <- AtomicPc, TombstoneBump <- 1, MayLoseRace <- FALSE

\* Every adapter implements the port: for the Atomic mixes each call takes
\* effect in one step, over the record as it is at that step, or is refused
\* without effect; in particular one create wins, no guarded write goes
\* through over a version its caller did not name, and a version never
\* comes back while the record exists.
ImplementsDataStore ==
    /\ Atomic => Port!Init
    /\ [][Atomic => Port!Next]_(Port!callVars)

\* No adapter tells a caller "conflict" while the version the caller named
\* can still succeed, however its reads and writes interleave with others
\* (Redis: torn reads included).
ConflictsAreReal == (Atomic \/ backend \in {"redis", "fakeRedis"}) => NoSpuriousConflict

\* Call by call every adapter is the reference, refusals and their kind
\* included; only a soft delete's version differs (TombstoneBump).
SerialMatchesReference ==
    /\ serial => Reference!Init
    /\ [][serial => Reference!Next]_(Reference!callVars)
=============================================================================
