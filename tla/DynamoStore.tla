---------------------------- MODULE DynamoStore ----------------------------
(***************************************************************************)
(* DynamoDataStore over the real DynamoDB port (adapter-aws).  Reads are   *)
(* ConsistentRead Gets; writes are conditional Puts and Deletes, and put   *)
(* is one UpdateItem that increments the version natively.                 *)
(***************************************************************************)
EXTENDS CasSteps

vars == <<callVars, casVars>>

\* insertIfAbsent under soft delete first reads the key, to learn the
\* version of a tombstone it would resurrect.
InsertRead(c) ==
    /\ Ready(c) /\ kind[c] = "create"
    /\ soft
    /\ cur' = [cur EXCEPT ![c] = row]
    /\ Step(c, "insertWrite")
    /\ UNCHANGED seen

\* The conditional Put of insertIfAbsent.  Only when the read saw a
\* tombstone does the condition name its version; a read that saw nothing,
\* or a live row, writes version 1 over whatever is not live now.
InsertWrite(c) ==
    /\ kind[c] = "create"
    /\ pc[c] = IF soft THEN "insertWrite" ELSE "idle"
    /\ LET resurrect == cur[c].st = "dead"
           admits == \/ row.st = "absent"
                     \/ /\ soft /\ row.st = "dead"
                        /\ resurrect => row.ver = cur[c].ver
       IN IF admits
          THEN Commit(c, Live(IF resurrect THEN cur[c].ver + 1 ELSE 1, {c}))
          ELSE Step(c, "exists")
    /\ UNCHANGED casVars

\* putRow: SET version = if_not_exists(version, 0) + 1, REMOVE deletedAt.
PutRow(c) ==
    /\ Ready(c) /\ kind[c] = "put"
    /\ Commit(c, Live(row.ver + 1, {c}))
    /\ UNCHANGED casVars

\* Faulty variant for sensitivity runs: the condition asks for a live row of
\* any version.
UpdateWriteAnyVersion(c) ==
    /\ pc[c] = "updateWrite"
    /\ IF row.st = "live" THEN Commit(c, Live(UpdateGuard(c) + 1, UpdateValue(c)))
       ELSE Step(c, "updateReread")
    /\ UNCHANGED casVars

UpdateWrite(c) ==
    /\ pc[c] = "updateWrite"
    /\ LET guard == UpdateGuard(c)
       IN IF Unmoved(guard) THEN Commit(c, Live(guard + 1, UpdateValue(c)))
          ELSE Step(c, "updateReread")
    /\ UNCHANGED casVars

\* The soft delete's Put writes the item the store built from its own first
\* read, guarded by the version of the port's read.
DeleteWrite(c) ==
    /\ pc[c] = "deleteWrite"
    /\ IF soft
       THEN IF Unmoved(cur[c].ver)
            THEN CommitDelete(c, Dead(seen[c].ver + 1))
            ELSE Step(c, "deleteReread")
       ELSE IF row.st # "absent" /\ row.ver = cur[c].ver THEN CommitDelete(c, Absent)
            ELSE Step(c, "conflict")
    /\ UNCHANGED casVars

\* A failed condition is read again to tell a row that is gone (a miss)
\* from one that moved on (a conflict).
Reread(c) ==
    /\ pc[c] \in {"updateReread", "deleteReread"}
    /\ Step(c, IF row.st = "live" THEN "conflict" ELSE "miss")
    /\ UNCHANGED casVars

Init == CasInit

CallStep(c) ==
    \/ Get(c) \/ InsertRead(c) \/ InsertWrite(c) \/ PutRow(c)
    \/ PatchRead(c) \/ UpdateCasRead(c) \/ UpdateWrite(c)
    \/ DeleteRead(c) \/ DeleteCasRead(c) \/ DeleteWrite(c) \/ Reread(c)

Next == \E c \in Calls : CallStep(c)

Spec == Init /\ [][Next]_vars

-----------------------------------------------------------------------------

TypeOK == CasTypeOK
=============================================================================
