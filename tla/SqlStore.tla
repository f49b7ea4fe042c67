------------------------------ MODULE SqlStore ------------------------------
(***************************************************************************)
(* The SQL stores: D1DataStore (adapter-cf) and PostgresDataStore          *)
(* (adapter-postgres).  The two store classes and ports issue the same     *)
(* statements in the same order; each statement is atomic and autocommits. *)
(***************************************************************************)
EXTENDS CasSteps

vars == <<callVars, casVars>>

\* Faulty variant for sensitivity runs: a resurrected row restarts at 1.
InsertFresh(c) ==
    /\ Ready(c) /\ kind[c] = "create"
    /\ IF row.st = "absent" \/ (soft /\ row.st = "dead")
       THEN Commit(c, Live(1, {c}))
       ELSE Step(c, "exists")
    /\ UNCHANGED casVars

\* insertIfAbsent: INSERT .. ON CONFLICT DO UPDATE .. WHERE deleted_at IS
\* NOT NULL (soft delete) or DO NOTHING, RETURNING version: one statement.
Insert(c) ==
    /\ Ready(c) /\ kind[c] = "create"
    /\ IF row.st = "absent" \/ (soft /\ row.st = "dead")
       THEN Commit(c, Live(row.ver + 1, {c}))
       ELSE Step(c, "exists")
    /\ UNCHANGED casVars

\* put reads the row for its version ...
PutRead(c) ==
    /\ Ready(c) /\ kind[c] = "put"
    /\ seen' = [seen EXCEPT ![c] = row]
    /\ Step(c, "putWrite")
    /\ UNCHANGED cur

\* ... and upserts the version after the one it read, unconditionally.
PutWrite(c) ==
    /\ pc[c] = "putWrite"
    /\ Commit(c, Live(seen[c].ver + 1, {c}))
    /\ UNCHANGED casVars

\* UPDATE .. SET version = version + 1 WHERE version = guard AND live; no
\* row changed is a conflict, whatever became of the row.
UpdateWrite(c) ==
    /\ pc[c] = "updateWrite"
    /\ IF Unmoved(UpdateGuard(c)) THEN Commit(c, Live(row.ver + 1, UpdateValue(c)))
       ELSE Step(c, "conflict")
    /\ UNCHANGED casVars

\* UPDATE .. SET deleted_at, version = version + 1, or DELETE.
DeleteWrite(c) ==
    /\ pc[c] = "deleteWrite"
    /\ IF soft
       THEN IF Unmoved(cur[c].ver)
            THEN CommitDelete(c, Dead(row.ver + 1))
            ELSE Step(c, "conflict")
       ELSE IF row.st # "absent" /\ row.ver = cur[c].ver THEN CommitDelete(c, Absent)
            ELSE Step(c, "conflict")
    /\ UNCHANGED casVars

Init == CasInit

CallStep(c) ==
    \/ Get(c) \/ Insert(c) \/ PutRead(c) \/ PutWrite(c)
    \/ PatchRead(c) \/ UpdateCasRead(c) \/ UpdateWrite(c)
    \/ DeleteRead(c) \/ DeleteCasRead(c) \/ DeleteWrite(c)

Next == \E c \in Calls : CallStep(c)

Spec == Init /\ [][Next]_vars

-----------------------------------------------------------------------------

TypeOK == CasTypeOK
=============================================================================
