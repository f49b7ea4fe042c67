----------------------------- MODULE DataStore -----------------------------
(***************************************************************************)
(* The DataStore port as data-core's in-memory reference implements it:    *)
(* every method is one synchronous section, so every call takes effect in  *)
(* one step or is refused and leaves the record alone.                     *)
(*                                                                         *)
(* The adapter models (DynamoStore, SqlStore, RedisStore) are shown to     *)
(* implement this module.  Two parameters tell them from the reference:    *)
(*   TombstoneBump  0 when a soft delete keeps the version (memory.ts),    *)
(*                  1 when it writes version + 1 (the adapters);           *)
(*   MayLoseRace    whether a call may also be refused because another     *)
(*                  write came between its read and its conditional write. *)
(***************************************************************************)
EXTENDS RecordCalls

CONSTANTS TombstoneBump, MayLoseRace

ASSUME TombstoneBumpAssumption == TombstoneBump \in {0, 1}
ASSUME MayLoseRaceAssumption == MayLoseRace \in BOOLEAN

\* Faulty variants for sensitivity runs: the envelope is kept but the caller
\* does not go on; the check is dropped; the check names the next version;
\* a tombstone's version is forgotten; put and update do not increment.
GetAgain(c) ==
    /\ pc[c] = "idle" /\ kind[c] \in Guarded
    /\ row.st = "live"
    /\ held' = [held EXCEPT ![c] = EnvelopeOf(row)]
    /\ UNCHANGED <<soft, row, kind, pc, reply>>

VersionIgnored(c) == kind[c] \in AllKinds

VersionIsNext(c) == kind[c] \in Guarded => held[c].ver + 1 = row.ver

CreateFresh(c) ==
    /\ Ready(c) /\ kind[c] = "create"
    /\ row.st # "live"
    /\ Commit(c, Live(1, {c}))

PutSameVersion(c) ==
    /\ Ready(c) /\ kind[c] = "put"
    /\ Commit(c, Live(IF row.ver = 0 THEN 1 ELSE row.ver, {c}))

\* get of a guarded call's caller; a missing or tombstoned record is null
\* and the caller has nothing to update.
Get(c) ==
    /\ pc[c] = "idle" /\ kind[c] \in Guarded
    /\ row.st = "live"
    /\ held' = [held EXCEPT ![c] = EnvelopeOf(row)]
    /\ Goto(c, "held")
    /\ UNCHANGED <<soft, row, kind, reply>>

\* The version check of the guarded methods (assertVersion).
VersionMatches(c) == kind[c] \in Guarded => held[c].ver = row.ver

Create(c) ==
    /\ Ready(c) /\ kind[c] = "create"
    /\ row.st # "live"
    /\ Commit(c, Live(row.ver + 1, {c}))

Put(c) ==
    /\ Ready(c) /\ kind[c] = "put"
    /\ Commit(c, Live(row.ver + 1, {c}))

\* Faulty variant for sensitivity runs: a guarded update keeps the version.
UpdateSameVersion(c) ==
    /\ Ready(c) /\ kind[c] \in Updates
    /\ row.st = "live" /\ VersionMatches(c)
    /\ Commit(c, Live(row.ver, held[c].val \cup {c}))

Update(c) ==
    /\ Ready(c) /\ kind[c] \in Updates
    /\ row.st = "live" /\ VersionMatches(c)
    /\ Commit(c, Live(row.ver + 1, held[c].val \cup {c}))

Patch(c) ==
    /\ Ready(c) /\ kind[c] \in Patches
    /\ row.st = "live" /\ VersionMatches(c)
    /\ Commit(c, Live(row.ver + 1, row.val \cup {c}))

Delete(c) ==
    /\ Ready(c) /\ kind[c] \in Deletes
    /\ row.st = "live" /\ VersionMatches(c)
    /\ CommitDelete(c, IF soft THEN Dead(row.ver + TombstoneBump) ELSE Absent)

Refuse(c) ==
    /\ Ready(c)
    /\ \/ /\ kind[c] = "create"
          /\ row.st = "live" \/ MayLoseRace
          /\ Step(c, "exists")
       \/ /\ kind[c] \notin {"create", "put"}
          /\ row.st # "live" \/ MayLoseRace
          /\ Step(c, "miss")
       \/ /\ kind[c] \notin {"create", "put"}
          /\ (row.st = "live" /\ ~VersionMatches(c)) \/ MayLoseRace
          /\ Step(c, "conflict")

Init == CallsInit

Next == \E c \in Calls :
    \/ Get(c) \/ Create(c) \/ Put(c) \/ Update(c) \/ Patch(c) \/ Delete(c)
    \/ Refuse(c)

Spec == Init /\ [][Next]_callVars

-----------------------------------------------------------------------------

TypeOK ==
    /\ soft \in BOOLEAN
    /\ row \in Row
    /\ kind \in [Calls -> Kinds]
    /\ pc \in [Calls -> {"idle", "held"} \cup Outcomes]
    /\ held \in [Calls -> Envelope]
    /\ reply \in [Calls -> Envelope]
    /\ \A c \in Calls : pc[c] = "idle" => held[c] = NoEnvelope

\* No envelope is from the future: the record's version is the newest.
EnvelopesArePast ==
    \A c \in Calls : held[c].ver <= row.ver /\ reply[c].ver <= row.ver

\* An envelope of a live record's own version has the record's own content.
EnvelopesMatchRow ==
    row.st = "live" =>
        \A c \in Calls :
            /\ held[c].ver = row.ver => held[c].val = row.val
            /\ reply[c].ver = row.ver => reply[c].val = row.val

\* The inductive strengthening of VersionNamesContent: with tombstones the
\* version chain of a record never restarts.
ChainInv ==
    soft =>
        /\ EnvelopesArePast
        /\ EnvelopesMatchRow
        /\ EnvelopesAgree

\* A conflict is final in the reference store.
ConflictInv == ~MayLoseRace => NoSpuriousConflict
=============================================================================
