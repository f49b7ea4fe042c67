------------------------------ MODULE CasSteps ------------------------------
(***************************************************************************)
(* The steps the table-backed stores share (DynamoDB, D1, Postgres).       *)
(* Their store classes are the same text over a port: patch and a soft     *)
(* delete read the row first (the store's read, kept in seen), then call   *)
(* the port's updateCas or deleteCas, which reads the row again (the       *)
(* port's read, kept in cur) and ends in one conditional write.  Between   *)
(* any two of these steps another call may write the row.                  *)
(***************************************************************************)
EXTENDS RecordCalls

VARIABLES
    seen,   \* the row the store class read in call c
    cur     \* the row the port read in call c

casVars == <<seen, cur>>

CasInit ==
    /\ CallsInit
    /\ seen = [c \in Calls |-> Absent]
    /\ cur = [c \in Calls |-> Absent]

\* get: one strongly consistent read of the row.
Get(c) ==
    /\ pc[c] = "idle" /\ kind[c] \in Guarded
    /\ row.st = "live"
    /\ held' = [held EXCEPT ![c] = EnvelopeOf(row)]
    /\ Goto(c, "held")
    /\ UNCHANGED <<soft, row, kind, reply, casVars>>

\* patch: read the row, refuse a missing one and a guard that is already
\* stale, and go on to updateCas with the merged value.
PatchRead(c) ==
    /\ Ready(c) /\ kind[c] \in Patches
    /\ seen' = [seen EXCEPT ![c] = row]
    /\ Step(c, IF row.st # "live" THEN "miss"
               ELSE IF kind[c] \in Guarded /\ row.ver # held[c].ver THEN "conflict"
               ELSE "updateCas")
    /\ UNCHANGED cur

\* delete: under soft delete the tombstone is built from a first read.
DeleteRead(c) ==
    /\ Ready(c) /\ kind[c] \in Deletes
    /\ IF soft
       THEN /\ seen' = [seen EXCEPT ![c] = row]
            /\ Step(c, IF row.st # "live" THEN "miss"
                       ELSE IF kind[c] \in Guarded /\ row.ver # held[c].ver THEN "conflict"
                       ELSE "deleteCas")
       ELSE Step(c, "deleteCas") /\ UNCHANGED seen
    /\ UNCHANGED cur

\* Faulty variant for sensitivity runs: a missing row is not told apart.
UpdateCasReadBlind(c) ==
    /\ pc[c] = "updateCas" \/ (Ready(c) /\ kind[c] \in Updates)
    /\ cur' = [cur EXCEPT ![c] = row]
    /\ Step(c, "updateWrite")
    /\ UNCHANGED seen

\* updateCas: read the row to tell a miss from a conflict.
UpdateCasRead(c) ==
    /\ pc[c] = "updateCas" \/ (Ready(c) /\ kind[c] \in Updates)
    /\ cur' = [cur EXCEPT ![c] = row]
    /\ Step(c, IF row.st # "live" THEN "miss" ELSE "updateWrite")
    /\ UNCHANGED seen

\* deleteCas: read the row, refuse a missing one and a stale guard.
DeleteCasRead(c) ==
    /\ pc[c] = "deleteCas"
    /\ cur' = [cur EXCEPT ![c] = row]
    /\ Step(c, IF row.st # "live" THEN "miss"
               ELSE IF kind[c] \in Guarded /\ row.ver # held[c].ver THEN "conflict"
               ELSE "deleteWrite")
    /\ UNCHANGED seen

\* Faulty variant for sensitivity runs: the caller's version is dropped and
\* the store's own read used in its place.
UpdateGuardOwnRead(c) ==
    IF kind[c] = "updateIf" THEN seen[c].ver
    ELSE IF kind[c] \in Patches THEN seen[c].ver
    ELSE cur[c].ver

\* The version updateCas' write is conditional on: the caller's, or for a
\* patch the one the store read, or else the one the port just read.
UpdateGuard(c) ==
    IF kind[c] = "updateIf" THEN held[c].ver
    ELSE IF kind[c] \in Patches THEN seen[c].ver
    ELSE cur[c].ver

\* The value updateCas writes: read-modify-write by the caller, a merge by
\* the store, or a blind replacement.
UpdateValue(c) ==
    {c} \cup (IF kind[c] \in Patches THEN seen[c].val ELSE held[c].val)

\* The condition of every conditional write: still live, still that version.
Unmoved(n) == row.st = "live" /\ row.ver = n

CasTypeOK ==
    /\ soft \in BOOLEAN
    /\ row \in Row
    /\ kind \in [Calls -> Kinds]
    /\ pc \in [Calls -> {"idle", "held", "insertRead", "insertWrite", "putWrite",
                         "updateCas", "updateWrite", "updateReread",
                         "deleteCas", "deleteWrite", "deleteReread"} \cup Outcomes]
    /\ held \in [Calls -> Envelope]
    /\ reply \in [Calls -> Envelope]
    /\ seen \in [Calls -> Row]
    /\ cur \in [Calls -> Row]
    \* a write that was prepared from a read was prepared from a live row
    /\ \A c \in Calls : pc[c] \in {"updateWrite", "deleteWrite"} => cur[c].st = "live"
    /\ \A c \in Calls : pc[c] \in {"updateCas"} => seen[c].st = "live"
=============================================================================
