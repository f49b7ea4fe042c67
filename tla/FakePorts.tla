------------------------------ MODULE FakePorts ------------------------------
(***************************************************************************)
(* The in-process ports the adapters' own conformance tests run over: a    *)
(* Map in the place of D1, Postgres, DynamoDB and Redis.  The store        *)
(* classes are the same as over the real ports, with the reads they make   *)
(* themselves; every call of a fake port runs to its end before anything   *)
(* else does, where the real one reads first and writes on a condition.    *)
(***************************************************************************)
EXTENDS CasSteps

vars == <<callVars, casVars>>

\* A row is in the way of a create unless it is a tombstone of a store that
\* soft-deletes; a tombstone's version is carried on.
InTheWay == row.st # "absent" /\ ~(soft /\ row.st = "dead")

MapInsert(c) ==
    /\ Ready(c) /\ kind[c] = "create"
    /\ IF InTheWay THEN Step(c, "exists") ELSE Commit(c, Live(row.ver + 1, {c}))
    /\ UNCHANGED casVars

\* The SQL store reads the version its put is to follow, the other two ports
\* find it themselves.
MapPutRead(c) ==
    /\ Ready(c) /\ kind[c] = "put"
    /\ seen' = [seen EXCEPT ![c] = row]
    /\ Step(c, "putWrite")
    /\ UNCHANGED cur

MapPutAfter(c) ==
    /\ pc[c] = "putWrite"
    /\ Commit(c, Live(seen[c].ver + 1, {c}))
    /\ UNCHANGED casVars

MapPut(c) ==
    /\ Ready(c) /\ kind[c] = "put"
    /\ Commit(c, Live(row.ver + 1, {c}))
    /\ UNCHANGED casVars

\* What the row's version must be: what a guarded caller named, what the store
\* read for a patch, or anything.
MapExpected(c) ==
    IF kind[c] \in Patches THEN {seen[c].ver}
    ELSE IF kind[c] \in Guarded THEN {held[c].ver} ELSE Nat

MapCas(c, write) ==
    /\ IF row.st # "live" THEN Step(c, "miss")
       ELSE IF row.ver \notin MapExpected(c) THEN Step(c, "conflict")
       ELSE write
    /\ UNCHANGED casVars

MapUpdate(c) ==
    /\ pc[c] = "updateCas" \/ (Ready(c) /\ kind[c] \in Updates)
    /\ MapCas(c, Commit(c, Live(row.ver + 1, UpdateValue(c))))

MapDelete(c) ==
    /\ pc[c] = "deleteCas"
    /\ MapCas(c, CommitDelete(c, IF soft THEN Dead(row.ver + 1) ELSE Absent))

FakeSqlStep(c) ==
    \/ Get(c) \/ MapInsert(c) \/ MapPutRead(c) \/ MapPutAfter(c)
    \/ PatchRead(c) \/ MapUpdate(c) \/ DeleteRead(c) \/ MapDelete(c)

FakeDynamoStep(c) ==
    \/ Get(c) \/ MapInsert(c) \/ MapPut(c)
    \/ PatchRead(c) \/ MapUpdate(c) \/ DeleteRead(c) \/ MapDelete(c)

\* evalCas, the script's five operations in JavaScript; the client's HGETs
\* are two calls here as well.
Redis == INSTANCE RedisStore

FakeEval(c) ==
    CASE kind[c] = "create" -> MapInsert(c)
      [] kind[c] = "put" -> MapPut(c)
      [] kind[c] \in Updates ->
            /\ Ready(c)
            /\ MapCas(c, Commit(c, Live(row.ver + 1, UpdateValue(c))))
      [] kind[c] \in Patches ->
            /\ pc[c] = "eval"
            /\ MapCas(c, Commit(c, Live(row.ver + 1, UpdateValue(c))))
      [] OTHER ->
            /\ pc[c] = "eval" \/ (~soft /\ Ready(c))
            /\ MapCas(c, CommitDelete(c, IF soft THEN Dead(row.ver + 1) ELSE Absent))

FakeRedisStep(c) ==
    \/ /\ Redis!GetValue(c) \/ Redis!GetVersion(c)
          \/ Redis!LoadValue(c) \/ Redis!LoadVersion(c)
       /\ UNCHANGED cur
    \/ FakeEval(c)

TypeOK ==
    /\ row \in Row /\ reply \in [Calls -> Envelope] /\ seen \in [Calls -> Row]
    /\ pc \in [Calls -> {"idle", "held", "getVersion", "loadVersion", "eval", "putWrite",
                         "updateCas", "deleteCas"} \cup Outcomes]
=============================================================================
