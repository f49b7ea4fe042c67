---------------------------- MODULE RecordCalls ----------------------------
(***************************************************************************)
(* The vocabulary every model of a DataStore back-end shares: one record,  *)
(* the calls in flight against it, and what the port promises about them.  *)
(*                                                                         *)
(* A store operation addresses exactly one (scope, key) and two records    *)
(* never interact in a write, so one record is the whole state.  Every     *)
(* member of Calls is one method call on the store, made by its own        *)
(* caller; a guarded kind (updateIf, patchIf, deleteIf) first does a get   *)
(* and passes the version it got as expectedVersion.                       *)
(*                                                                         *)
(* A record's value is abstracted to the set of edits it contains.  Call c *)
(* contributes the edit c: create, put and an unguarded update replace the *)
(* whole value by {c}; updateIf writes back the value its caller read plus *)
(* its own edit (read, modify, write); a patch merges its edit into the    *)
(* value the store read.  The value a record had before the window of the  *)
(* model is the empty set.                                                 *)
(***************************************************************************)
EXTENDS Naturals, FiniteSets

CONSTANTS
    Calls,   \* the calls in flight, one edit each
    Kinds    \* the operations these calls may be

AllKinds ==
    {"create", "put", "update", "updateIf", "patch", "patchIf", "delete", "deleteIf"}

Guarded == {"updateIf", "patchIf", "deleteIf"}
Updates == {"update", "updateIf"}
Patches == {"patch", "patchIf"}
Deletes == {"delete", "deleteIf"}

ASSUME KindsAssumption == Kinds \subseteq AllKinds

VARIABLES
    soft,   \* whether the resource tombstones on delete; fixed
    row,    \* the stored record
    kind,   \* which operation each call is
    pc,     \* where each call is
    held,   \* the envelope the caller got before a guarded call
    reply   \* the envelope a successful write returned

callVars == <<soft, row, kind, pc, held, reply>>

Envelope == [ver : Nat, val : SUBSET Calls]
NoEnvelope == [ver |-> 0, val |-> {}]

Row == [st : {"absent", "live", "dead"}, ver : Nat, val : SUBSET Calls]
Absent == [st |-> "absent", ver |-> 0, val |-> {}]
Live(n, v) == [st |-> "live", ver |-> n, val |-> v]
\* A tombstone keeps its version; the value it carries is never read again
\* (create and put replace it, everything else treats the row as missing).
Dead(n) == [st |-> "dead", ver |-> n, val |-> {}]

EnvelopeOf(r) == [ver |-> r.ver, val |-> r.val]

\* The record was never written, or an earlier put wrote version 1, or an
\* earlier delete left a tombstone.
InitRow == row \in {Absent, Live(1, {})} \cup (IF soft THEN {Dead(2)} ELSE {})

CallsInit ==
    /\ soft \in BOOLEAN
    /\ InitRow
    /\ kind \in [Calls -> Kinds]
    /\ pc = [c \in Calls |-> "idle"]
    /\ held = [c \in Calls |-> NoEnvelope]
    /\ reply = [c \in Calls |-> NoEnvelope]

Outcomes == {"ok", "miss", "conflict", "exists"}

\* The call may start: a guarded one only with the envelope its caller got.
Ready(c) == pc[c] = IF kind[c] \in Guarded THEN "held" ELSE "idle"

\* The call is between two of its own requests to the back-end.
MidFlight(c) == pc[c] \notin {"idle", "held"} \cup Outcomes

\* No other call than c is: the order of a test that awaits every call in
\* turn.  Other callers may still be holding an envelope.
Alone(c) == \A d \in Calls \ {c} : ~MidFlight(d)

\* Where a call is, as an atomic store sees it: a call in mid-flight has not
\* happened yet, except that a guarded one already has its envelope.
AtomicPc ==
    [c \in Calls |-> IF ~MidFlight(c) THEN pc[c]
                     ELSE IF kind[c] \in Guarded /\ pc[c] # "getVersion" THEN "held"
                     ELSE "idle"]

Goto(c, l) == pc' = [pc EXCEPT ![c] = l]

\* The write of call c takes effect and the call returns r's envelope.
Commit(c, r) ==
    /\ row' = r
    /\ reply' = [reply EXCEPT ![c] = EnvelopeOf(r)]
    /\ Goto(c, "ok")
    /\ UNCHANGED <<soft, kind, held>>

\* A delete takes effect; it returns true, not an envelope.
CommitDelete(c, r) ==
    /\ row' = r
    /\ Goto(c, "ok")
    /\ UNCHANGED <<soft, kind, held, reply>>

\* The call moves on, or returns, without touching the record.
Step(c, l) ==
    /\ Goto(c, l)
    /\ UNCHANGED <<soft, row, kind, held, reply>>

-----------------------------------------------------------------------------

(***************************************************************************)
(* What the DataStore port promises (data-core/src/index.ts).              *)
(***************************************************************************)

\* "version is the optimistic-concurrency token (incremented on every
\* write)": while a record exists its version never goes back, and whenever
\* a live record's content changes its version grows.
VersionMonotone ==
    [][ (row.st # "absent" /\ row'.st # "absent") =>
          /\ row.ver <= row'.ver
          /\ (row'.st = "live" /\ row'.val # row.val) => row.ver < row'.ver ]_callVars

\* No two envelopes a caller ever got, by a read or as a write's reply,
\* carry one version and different contents: a version names one content,
\* which is what makes it usable as a concurrency token.
EnvelopesAgree ==
    \A e, f \in {held[c] : c \in Calls} \cup {reply[c] : c \in Calls} :
        (e.ver = f.ver /\ e.ver # 0) => e.val = f.val

VersionNamesContent == soft => EnvelopesAgree

\* A patch, and with tombstones a guarded update, changes a record without
\* losing an edit some other call has already been told is stored: the write
\* only goes through over exactly the content it was computed from.  (After
\* a hard delete versions restart, so a guard can name a record that is gone;
\* a patch takes no version from its caller and still must not.)
NoLostEdit ==
    [][ \A c \in Calls :
          (/\ kind[c] \in Patches \/ (soft /\ kind[c] = "updateIf")
           /\ pc[c] # "ok" /\ pc'[c] = "ok" /\ row.st = "live")
          => row.val \subseteq row'.val ]_callVars

\* A guarded call is refused with OptimisticConflictError only when the
\* version its caller named is gone for good: retrying with the same version
\* could never succeed.
NoSpuriousConflict ==
    soft =>
        \A c \in Calls :
            (pc[c] = "conflict" /\ kind[c] \in Guarded) =>
                \/ row.st = "dead"
                \/ held[c].ver < row.ver
=============================================================================
