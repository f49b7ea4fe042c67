----------------------------- MODULE RedisStore -----------------------------
(***************************************************************************)
(* RedisDataStore (adapter-node).  Every write is one EVAL of CAS_LUA,     *)
(* atomic in the server.  Every read is two HGETs, of the value field and  *)
(* then of the version field of the same hash, with nothing to keep        *)
(* another call's write from landing between them.                         *)
(***************************************************************************)
EXTENDS RecordCalls

VARIABLE seen   \* what call c's two HGETs returned so far

vars == <<callVars, seen>>

\* A tombstone is a deletedAt in the value's JSON, so the first HGET also
\* tells a dead row from a live one.
ReadValue(c) == seen' = [seen EXCEPT ![c] = [row EXCEPT !.ver = 0]]

\* The second HGET; a version field that is gone decodes as version 1.
VersionField == IF row.st = "absent" THEN 1 ELSE row.ver

ReadVersion(c) == seen' = [seen EXCEPT ![c].ver = VersionField]

\* get, first HGET: a missing value is null at once.
GetValue(c) ==
    /\ pc[c] = "idle" /\ kind[c] \in Guarded
    /\ row.st # "absent"
    /\ ReadValue(c)
    /\ Step(c, "getVersion")

\* get, second HGET: a tombstone's value is null, anything else goes to the
\* caller with the version just read.
GetVersion(c) ==
    /\ pc[c] = "getVersion"
    /\ ReadVersion(c)
    /\ IF seen[c].st = "live"
       THEN /\ held' = [held EXCEPT ![c] = EnvelopeOf(seen'[c])]
            /\ Goto(c, "held")
            /\ UNCHANGED <<soft, row, kind, reply>>
       ELSE Step(c, "idle")

\* #load of a patch or of a soft delete, first HGET.
LoadValue(c) ==
    /\ Ready(c)
    /\ kind[c] \in Patches \/ (soft /\ kind[c] \in Deletes)
    /\ ReadValue(c)
    /\ Step(c, IF row.st = "absent" THEN "miss" ELSE "loadVersion")

\* #load, second HGET, and the checks patch and delete make on the result.
LoadVersion(c) ==
    /\ pc[c] = "loadVersion"
    /\ ReadVersion(c)
    /\ Step(c, IF seen[c].st # "live" THEN "miss"
               ELSE IF kind[c] = "patchIf" /\ VersionField # held[c].ver THEN "conflict"
               ELSE "eval")

CreateEval(c) ==
    /\ Ready(c) /\ kind[c] = "create"
    /\ IF row.st = "absent" \/ (soft /\ row.st = "dead")
       THEN Commit(c, Live(row.ver + 1, {c}))
       ELSE Step(c, "exists")
    /\ UNCHANGED seen

\* Faulty variant for sensitivity runs: the script's branch for a put over an
\* existing row does not increment.
PutEvalSameVersion(c) ==
    /\ Ready(c) /\ kind[c] = "put"
    /\ Commit(c, Live(IF row.ver = 0 THEN 1 ELSE row.ver, {c}))
    /\ UNCHANGED seen

PutEval(c) ==
    /\ Ready(c) /\ kind[c] = "put"
    /\ Commit(c, Live(row.ver + 1, {c}))
    /\ UNCHANGED seen

\* The script's common check: the row must be live, and at the expected
\* version unless that is -1.
Guard(c, expected, write) ==
    IF row.st # "live" THEN Step(c, "miss")
    ELSE IF expected # {} /\ row.ver \notin expected THEN Step(c, "conflict")
    ELSE write

Expected(c) == IF kind[c] \in Guarded THEN {held[c].ver} ELSE {}

UpdateEval(c) ==
    /\ Ready(c) /\ kind[c] \in Updates
    /\ Guard(c, Expected(c), Commit(c, Live(row.ver + 1, held[c].val \cup {c})))
    /\ UNCHANGED seen

\* The merged value is conditional on the version #load read.
PatchEval(c) ==
    /\ pc[c] = "eval" /\ kind[c] \in Patches
    /\ Guard(c, {seen[c].ver}, Commit(c, Live(row.ver + 1, seen[c].val \cup {c})))
    /\ UNCHANGED seen

DeleteEval(c) ==
    /\ pc[c] = "eval" \/ (~soft /\ Ready(c))
    /\ kind[c] \in Deletes
    /\ Guard(c, Expected(c),
             CommitDelete(c, IF soft THEN Dead(row.ver + 1) ELSE Absent))
    /\ UNCHANGED seen

Init ==
    /\ CallsInit
    /\ seen = [c \in Calls |-> Absent]

CallStep(c) ==
    \/ GetValue(c) \/ GetVersion(c) \/ LoadValue(c) \/ LoadVersion(c)
    \/ CreateEval(c) \/ PutEval(c) \/ UpdateEval(c) \/ PatchEval(c) \/ DeleteEval(c)

Next == \E c \in Calls : CallStep(c)

Spec == Init /\ [][Next]_vars

-----------------------------------------------------------------------------

TypeOK ==
    /\ soft \in BOOLEAN
    /\ row \in Row
    /\ kind \in [Calls -> Kinds]
    /\ pc \in [Calls -> {"idle", "getVersion", "held", "loadVersion", "eval"} \cup Outcomes]
    /\ held \in [Calls -> Envelope]
    /\ reply \in [Calls -> Envelope]
    /\ seen \in [Calls -> Row]
    \* a script that was prepared from a read was prepared from a live row
    /\ \A c \in Calls : pc[c] = "eval" => seen[c].st = "live"
=============================================================================
