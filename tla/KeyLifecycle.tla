---------------------------- MODULE KeyLifecycle ----------------------------
(***************************************************************************)
(* key-tool: the life of one client's signing keys, provision, rotate,     *)
(* revoke-previous, revoke, over a backend with a material plane (which    *)
(* keyIds have a secret) and a directory plane (which keyId is current and *)
(* which is previous).                                                     *)
(*                                                                         *)
(* An operation is several requests to the backend, each atomic, with      *)
(* nothing around them: the tool may be killed between any two (Crash),    *)
(* and several operators may run it at once.  The server does not look at  *)
(* the directory: a signature verifies iff its keyId has material.  KeyIds *)
(* are minted, never reused.                                               *)
(***************************************************************************)
EXTENDS Naturals, FiniteSets

CONSTANTS
    Keys,        \* the keyIds that can be minted; bounds the run
    Operators,   \* the runs of the tool that may overlap
    NoKey        \* the empty current of a revoked slot, an absent previous

ASSUME NoKeyAssumption == NoKey \notin Keys

VARIABLES
    dir,         \* the client's directory entry
    material,    \* the keyIds that verify
    minted,      \* the keyIds minted so far
    pc,          \* the next request of each operator's operation
    entry,       \* the directory entry the operation read
    key,         \* the keyId the operation minted
    \* what the operators were told
    issued,      \* keyIds whose secret was handed out
    retired,     \* keyIds reported revoked
    \* what happened
    condemned,   \* keyIds some revoke set out to delete
    overlap      \* two operations were once under way together

storeVars == <<dir, material, minted>>
opVars == <<pc, entry, key>>
toldVars == <<issued, retired>>
pastVars == <<condemned, overlap>>
vars == <<storeVars, opVars, toldVars, pastVars>>

Entry == [known : BOOLEAN, current : Keys \cup {NoKey}, previous : Keys \cup {NoKey}]
NoEntry == [known |-> FALSE, current |-> NoKey, previous |-> NoKey]
Pointing(k, p) == [known |-> TRUE, current |-> k, previous |-> p]
Tombstone == Pointing(NoKey, NoKey)

IsLiveEntry(e) == e.known /\ e.current # NoKey

Steps == {"idle", "provisionMaterial", "provisionEntry", "provisionReread", "provisionOver",
          "rotateDrop", "rotateMaterial", "rotateEntry",
          "retireDrop", "retireEntry", "revokeCurrent", "revokePrevious", "revokeEntry",
          "issue", "retired", "revoked"}

Goto(o, l) == pc' = [pc EXCEPT ![o] = l]

\* An operation starts with a read of the directory.
Begin(o, l) ==
    /\ pc[o] = "idle"
    /\ Goto(o, l)
    /\ entry' = [entry EXCEPT ![o] = dir]
    /\ overlap' = (overlap \/ \E p \in Operators \ {o} : pc[p] # "idle")
    /\ UNCHANGED <<dir, material, toldVars>>

\* Faulty variant for sensitivity runs: a keyId may be minted again.
MintAgain(o) ==
    \E k \in Keys \ minted : key' = [key EXCEPT ![o] = k] /\ minted' = minted

\* ... and mints the keyId it will use.
Mint(o) ==
    \E k \in Keys \ minted :
        /\ key' = [key EXCEPT ![o] = k]
        /\ minted' = minted \cup {k}

\* The next request of an operation writes the material plane ...
PutMaterial(o, at, next) ==
    /\ pc[o] = at
    /\ material' = material \cup {key[o]}
    /\ Goto(o, next)
    /\ UNCHANGED <<dir, minted, entry, key, toldVars, pastVars>>

\* Faulty variant for sensitivity runs: the delete does nothing.
DeleteMaterialLost(o, k, at, next) ==
    /\ pc[o] = at
    /\ Goto(o, next)
    /\ UNCHANGED <<storeVars, entry, key, toldVars, pastVars>>

DeleteMaterial(o, k, at, next) ==
    /\ pc[o] = at
    /\ material' = material \ {k}
    /\ Goto(o, next)
    /\ UNCHANGED <<dir, minted, entry, key, toldVars, pastVars>>

\* ... or the directory plane.
PutEntry(o, e, at, next) ==
    /\ pc[o] = at
    /\ dir' = e
    /\ Goto(o, next)
    /\ UNCHANGED <<material, minted, entry, key, toldVars, pastVars>>

-----------------------------------------------------------------------------

(* provisionClient *)

Provision(o) ==
    /\ ~IsLiveEntry(dir)
    /\ Begin(o, "provisionMaterial")
    /\ Mint(o)
    /\ UNCHANGED condemned

ProvisionMaterial(o) == PutMaterial(o, "provisionMaterial", "provisionEntry")

\* Faulty variant for sensitivity runs: a plain put.
ProvisionEntryBlind(o) == PutEntry(o, Pointing(key[o], NoKey), "provisionEntry", "issue")

\* putDirectoryEntryIfAbsent: atomic, and false when there is an entry.
ProvisionEntry(o) ==
    \/ ~dir.known /\ PutEntry(o, Pointing(key[o], NoKey), "provisionEntry", "issue")
    \/ dir.known /\ PutEntry(o, dir, "provisionEntry", "provisionReread")

\* A live entry refuses the operation, whose material stays behind.
ProvisionReread(o) ==
    PutEntry(o, dir, "provisionReread", IF IsLiveEntry(dir) THEN "idle" ELSE "provisionOver")

ProvisionOver(o) == PutEntry(o, Pointing(key[o], NoKey), "provisionOver", "issue")

(* rotateClient *)

\* Faulty variants for sensitivity runs: the key before the previous one is
\* not deleted; the current one is deleted in its place; the old key is not
\* kept as previous.
RotateTwice(o) ==
    /\ IsLiveEntry(dir)
    /\ Begin(o, "rotateMaterial")
    /\ Mint(o)
    /\ UNCHANGED condemned

RotateDropCurrent(o) == DeleteMaterial(o, entry[o].current, "rotateDrop", "rotateMaterial")
RotateEntryAlone(o) == PutEntry(o, Pointing(key[o], NoKey), "rotateEntry", "issue")

Rotate(o) ==
    /\ IsLiveEntry(dir)
    /\ Begin(o, IF dir.previous # NoKey THEN "rotateDrop" ELSE "rotateMaterial")
    /\ Mint(o)
    /\ UNCHANGED condemned

RotateDrop(o) == DeleteMaterial(o, entry[o].previous, "rotateDrop", "rotateMaterial")
RotateMaterial(o) == PutMaterial(o, "rotateMaterial", "rotateEntry")
RotateEntry(o) == PutEntry(o, Pointing(key[o], entry[o].current), "rotateEntry", "issue")

\* Provision and rotate return the secret, once.
Issue(o) ==
    /\ pc[o] = "issue"
    /\ issued' = issued \cup {key[o]}
    /\ Goto(o, "idle")
    /\ UNCHANGED <<storeVars, entry, key, retired, pastVars>>

(* revokePreviousKey *)

RevokePreviousKey(o) ==
    /\ dir.known /\ dir.previous # NoKey
    /\ Begin(o, "retireDrop")
    /\ UNCHANGED <<minted, key, condemned>>

RetireDrop(o) == DeleteMaterial(o, entry[o].previous, "retireDrop", "retireEntry")
RetireEntry(o) == PutEntry(o, Pointing(entry[o].current, NoKey), "retireEntry", "retired")

(* revokeClient *)

RevokeClient(o) ==
    /\ dir.known
    /\ Begin(o, "revokeCurrent")
    /\ condemned' = condemned \cup ({dir.current, dir.previous} \ {NoKey})
    /\ UNCHANGED <<minted, key>>

\* Faulty variant for sensitivity runs: the previous key is forgotten.
RevokeCurrentOnly(o) ==
    DeleteMaterial(o, entry[o].current, "revokeCurrent", "revokeEntry")

RevokeCurrent(o) ==
    DeleteMaterial(o, entry[o].current, "revokeCurrent",
                   IF entry[o].previous # NoKey THEN "revokePrevious" ELSE "revokeEntry")
RevokePrevious(o) == DeleteMaterial(o, entry[o].previous, "revokePrevious", "revokeEntry")
RevokeEntry(o) == PutEntry(o, Tombstone, "revokeEntry", "revoked")

\* The two revokes report the keyIds they deleted.
Report(o) ==
    /\ pc[o] \in {"retired", "revoked"}
    /\ retired' = retired \cup
         ((IF pc[o] = "retired" THEN {entry[o].previous}
           ELSE {entry[o].current, entry[o].previous}) \ {NoKey})
    /\ Goto(o, "idle")
    /\ UNCHANGED <<storeVars, entry, key, issued, pastVars>>

\* The tool is killed, or a request fails and it exits.
Crash(o) ==
    /\ pc[o] # "idle"
    /\ Goto(o, "idle")
    /\ UNCHANGED <<storeVars, entry, key, toldVars, pastVars>>

Init ==
    /\ dir = NoEntry
    /\ material = {} /\ minted = {}
    /\ pc = [o \in Operators |-> "idle"]
    /\ entry = [o \in Operators |-> NoEntry]
    /\ key = [o \in Operators |-> NoKey]
    /\ issued = {} /\ retired = {} /\ condemned = {}
    /\ overlap = FALSE

Operation(o) ==
    \/ Provision(o) \/ ProvisionMaterial(o) \/ ProvisionEntry(o)
    \/ ProvisionReread(o) \/ ProvisionOver(o)
    \/ Rotate(o) \/ RotateDrop(o) \/ RotateMaterial(o) \/ RotateEntry(o)
    \/ Issue(o)
    \/ RevokePreviousKey(o) \/ RetireDrop(o) \/ RetireEntry(o)
    \/ RevokeClient(o) \/ RevokeCurrent(o) \/ RevokePrevious(o) \/ RevokeEntry(o)
    \/ Report(o)

Next == \E o \in Operators : Operation(o) \/ Crash(o)

Spec == Init /\ [][Next]_vars

-----------------------------------------------------------------------------

TypeOK ==
    /\ dir \in Entry
    /\ material \subseteq minted /\ minted \subseteq Keys
    /\ pc \in [Operators -> Steps]
    /\ entry \in [Operators -> Entry]
    /\ key \in [Operators -> minted \cup {NoKey}]
    /\ issued \subseteq minted /\ retired \subseteq minted /\ condemned \subseteq minted
    /\ overlap \in BOOLEAN

\* A keyId reported revoked never verifies again, however many operators
\* run the tool and wherever it is killed.
RevokedStaysRejected == retired \cap material = {}

\* As long as operators take turns, killed or not: a key that was handed out
\* and still verifies is one the directory names, so a revoke will find it.
NoStrayKey ==
    ~overlap => issued \cap material \subseteq {dir.current, dir.previous}

\* As long as operators take turns: the current key verifies, at every
\* point of a rotation and after a crash at any point of one; only a revoke
\* takes it away.
CurrentVerifies ==
    (~overlap /\ IsLiveEntry(dir)) => dir.current \in material \cup condemned

\* As long as operators take turns: when the pointer moves to a new key the
\* old one still verifies and the directory still names it, so requests in
\* flight under it are accepted until someone ends the overlap window.
OverlapWindow ==
    [][ (~overlap /\ IsLiveEntry(dir) /\ IsLiveEntry(dir') /\ dir'.current # dir.current)
        => /\ dir'.previous = dir.current
           /\ dir.current \in material' \cup condemned ]_vars

\* As long as operators take turns: once revokeClient returns, no key the
\* client was ever given verifies.
RevokeRejectsAll ==
    [][ \A o \in Operators :
          (pc[o] = "revoked" /\ retired' # retired /\ ~overlap)
          => issued \cap material' = {} ]_vars

\* The step is operator o's provision taking effect.
Provisioned(o) == pc[o] \in {"provisionEntry", "provisionOver"} /\ pc'[o] = "issue"

\* While the client was never revoked a provision does not replace a live
\* entry: the check-and-set of the directory lets one provision through.
FirstProvisionWins ==
    [][ (condemned = {} /\ IsLiveEntry(dir) /\ dir' # dir)
        => ~\E o \in Operators : Provisioned(o) ]_vars

\* The backend's contract for the check-and-set: of two concurrent
\* provisions of one client, one fails.  (After a revoke both succeed: the
\* tombstone defeats the check and each overwrites it.)
OneProvisionWins ==
    [][ \A o, p \in Operators :
          (o # p /\ pc[p] = "issue" /\ dir = Pointing(key[p], NoKey)) => ~Provisioned(o) ]_vars
=============================================================================
