-------------------------- MODULE McpServer_proofs --------------------------
(***************************************************************************)
(* Proofs about the DataStore port's reference (DataStore.tla), for any    *)
(* set of concurrent calls and any mix of operations, and about the MCP    *)
(* server over the generated operations (McpServer.tla, CrudHandlers.tla), *)
(* for any messages, calls beside them, lines and chunks.                  *)
(*                                                                         *)
(* The store: with tombstones a record's version only grows, so every      *)
(* envelope a caller holds is from the past (EnvelopesArePast), and an     *)
(* envelope whose version is still the record's own has the record's own   *)
(* content (EnvelopesMatchRow).  These two make "no two envelopes share a  *)
(* version and differ" inductive (ChainInv); that a guarded write loses    *)
(* nothing, and that a refusal is final, follow.                           *)
(*                                                                         *)
(* The server: where a call is on its route says what it has done to the   *)
(* store and what it was told (Routed); a batch runs nothing before its    *)
(* gate, and what waits is the rest of it (PostInv); what waits behind the *)
(* first message has not run, so a throw that ends it all leaves it alone  *)
(* (StopInv); on stdin, of the k lines read so far those neither handled   *)
(* nor waiting were long, and they and the garbled ones are the errors     *)
(* written (ReadSoFar, Tally).  Where                                      *)
(* k stands is a fact about the row of symbols the input is: the lines     *)
(* that end among the first t of them (LinesBy) are the first m for some   *)
(* m, by the least line that does not.                                     *)
(***************************************************************************)
EXTENDS McpServer, FiniteSetTheorems, WellFoundedInduction, TLAPS

\* What CrudHandlers keeps of the store's types.
LEMMA CallsTyped == TypeOK => CallsTypeOK
BY DEF TypeOK, CallsTypeOK

\* The record constructors build rows.
LEMMA RowConstructors ==
    ASSUME NEW n \in Nat, NEW v \in SUBSET Calls
    PROVE  /\ Absent \in Row /\ Live(n, v) \in Row /\ Dead(n) \in Row
           /\ EnvelopeOf(Live(n, v)) \in Envelope
           /\ NoEnvelope \in Envelope
BY DEF Absent, Live, Dead, Row, EnvelopeOf, Envelope, NoEnvelope

\* The typing of the operations the back-ends share.
LEMMA InitTypeOK == Init => TypeOK
<1> SUFFICES ASSUME Init PROVE TypeOK
    OBVIOUS
<1>1. row \in Row
  BY RowConstructors
  DEF Init, CallsInit, InitRow, Absent, Live, Dead, Row
<1>2. NoEnvelope \in Envelope
  BY DEF NoEnvelope, Envelope
<1> QED
  BY <1>1, <1>2 DEF Init, CallsInit, TypeOK

\* One call's write keeps the types.
LEMMA CommitTypes ==
    ASSUME CallsTypeOK, NEW c \in Calls, NEW n \in Nat, NEW v \in SUBSET Calls,
           Commit(c, Live(n, v))
    PROVE  CallsTypeOK'
<1>1. Live(n, v) \in Row /\ EnvelopeOf(Live(n, v)) \in Envelope
  BY RowConstructors
<1>2. row' \in Row /\ reply' \in [Calls -> Envelope]
  BY <1>1 DEF Commit, CallsTypeOK
<1>3. pc' \in [Calls -> {"idle", "held"} \cup Outcomes]
  BY DEF Commit, Goto, CallsTypeOK, Outcomes
<1>4. kind' \in [Calls -> Kinds] /\ held' \in [Calls -> Envelope] /\ soft' \in BOOLEAN
  BY DEF Commit, CallsTypeOK
<1> QED
  BY <1>2, <1>3, <1>4 DEF CallsTypeOK

LEMMA CommitDeleteTypes ==
    ASSUME CallsTypeOK, NEW c \in Calls, NEW r \in Row, CommitDelete(c, r)
    PROVE  CallsTypeOK'
BY DEF CommitDelete, Goto, CallsTypeOK, Outcomes

LEMMA StepTypes ==
    ASSUME CallsTypeOK, NEW c \in Calls, NEW l \in Outcomes, Step(c, l)
    PROVE  CallsTypeOK'
BY DEF Step, Goto, CallsTypeOK, Outcomes

\* The values the operations write.
LEMMA WrittenValues ==
    ASSUME CallsTypeOK, NEW c \in Calls
    PROVE  /\ row.ver \in Nat /\ row.ver + 1 \in Nat /\ row.val \in SUBSET Calls
           /\ held[c].val \cup {c} \in SUBSET Calls
           /\ row.val \cup {c} \in SUBSET Calls
           /\ {c} \in SUBSET Calls
BY DEF CallsTypeOK, Row, Envelope

LEMMA TombstoneIsRow ==
    ASSUME CallsTypeOK
    PROVE  (IF soft THEN Dead(row.ver + TombstoneBump) ELSE Absent) \in Row
<1>1. row.ver + TombstoneBump \in Nat
  BY TombstoneBumpAssumption DEF CallsTypeOK, Row
<1> QED
  BY <1>1, RowConstructors DEF Dead, Row, Absent

\* Each operation keeps the types.
StoreStep(c) ==
    \/ Get(c) \/ Create(c) \/ Put(c) \/ Update(c) \/ Patch(c) \/ Delete(c)
    \/ Refuse(c)

LEMMA StoreTypes ==
    ASSUME CallsTypeOK, NEW c \in Calls, StoreStep(c)
    PROVE  CallsTypeOK'
<1>1. CASE Get(c)
  <2>1. EnvelopeOf(row) \in Envelope
    BY DEF CallsTypeOK, Row, EnvelopeOf, Envelope
  <2> QED
    BY <1>1, <2>1 DEF Get, Goto, CallsTypeOK
<1>2. CASE Create(c)
  BY <1>2, WrittenValues, CommitTypes DEF Create
<1>3. CASE Put(c)
  BY <1>3, WrittenValues, CommitTypes DEF Put
<1>4. CASE Update(c)
  BY <1>4, WrittenValues, CommitTypes DEF Update
<1>5. CASE Patch(c)
  BY <1>5, WrittenValues, CommitTypes DEF Patch
<1>6. CASE Delete(c)
  BY <1>6, TombstoneIsRow, CommitDeleteTypes DEF Delete
<1>7. CASE Refuse(c)
  BY <1>7, StepTypes DEF Refuse, Outcomes
<1> QED
  BY <1>1, <1>2, <1>3, <1>4, <1>5, <1>6, <1>7 DEF StoreStep

LEMMA NextTypeOK == TypeOK /\ [Next]_callVars => TypeOK'
<1> SUFFICES ASSUME TypeOK, [Next]_callVars PROVE TypeOK'
    OBVIOUS
<1>1. CASE UNCHANGED callVars
  BY <1>1 DEF callVars, TypeOK
<1>2. ASSUME NEW c \in Calls, StoreStep(c) PROVE TypeOK'
  <2>1. CallsTypeOK'
    BY <1>2, StoreTypes, CallsTyped
  <2>2. \A d \in Calls : pc'[d] = "idle" => held'[d] = NoEnvelope
    <3>1. CASE Get(c)
      BY <3>1 DEF Get, Goto, TypeOK
    <3>2. CASE ~Get(c)
      <4>1. held' = held /\ \E l \in Outcomes : Goto(c, l)
        BY <1>2, <3>2 DEF StoreStep, Create, Put, Update, Patch, Delete, Refuse, Commit,
           CommitDelete, Step, Outcomes
      <4> QED BY <4>1 DEF Goto, TypeOK, Outcomes
    <3> QED BY <3>1, <3>2
  <2> QED BY <2>1, <2>2 DEF TypeOK, CallsTypeOK
<1> QED
  BY <1>1, <1>2 DEF Next, StoreStep

\* The state of the record and of every call is always well formed.
THEOREM TypeCorrect == Spec => []TypeOK
<1>1. Init => TypeOK
  BY InitTypeOK
<1>2. TypeOK /\ [Next]_callVars => TypeOK'
  BY NextTypeOK
<1> QED
  BY <1>1, <1>2, PTL DEF Spec

-----------------------------------------------------------------------------

\* How the record deletes and what each call is never changes.
LEMMA FixedForEver == [Next]_callVars => soft' = soft /\ kind' = kind
BY DEF Next, callVars, Get, Create, Put, Update, Patch, Delete, Refuse, Commit,
       CommitDelete, Step

\* Every call's two envelopes, so that ChainInv can be argued call by call.
LEMMA ChainInit == Init => ChainInv
BY DEF Init, CallsInit, InitRow, Absent, Live, Dead, NoEnvelope, ChainInv,
    EnvelopesArePast, EnvelopesMatchRow, EnvelopesAgree

\* A committed write continues the chain: the envelope it returns is newer
\* than all others and has the record's new content.
LEMMA CommitChain ==
    ASSUME CallsTypeOK, ChainInv, NEW c \in Calls, NEW v \in SUBSET Calls,
           Commit(c, Live(row.ver + 1, v))
    PROVE  ChainInv'
<1> SUFFICES ASSUME soft
             PROVE  EnvelopesArePast' /\ EnvelopesMatchRow' /\ EnvelopesAgree'
  BY DEF ChainInv, Commit
<1> USE DEF CallsTypeOK
<1>1. EnvelopesArePast /\ EnvelopesMatchRow /\ EnvelopesAgree
  BY DEF ChainInv
<1>2. /\ row.ver \in Nat /\ row' = Live(row.ver + 1, v)
      /\ row'.st = "live" /\ row'.ver = row.ver + 1 /\ row'.val = v
  BY DEF Commit, Live, Row
<1>3. held' = held /\ reply' = [reply EXCEPT ![c] = [ver |-> row.ver + 1, val |-> v]]
  BY DEF Commit, EnvelopeOf, Live
<1>4. \A d \in Calls : held[d].ver \in Nat /\ reply[d].ver \in Nat
  BY DEF Envelope
<1>5. EnvelopesArePast'
  BY <1>1, <1>2, <1>3, <1>4 DEF EnvelopesArePast
<1>6. EnvelopesMatchRow'
  BY <1>1, <1>2, <1>3, <1>4 DEF EnvelopesArePast, EnvelopesMatchRow
<1>7. EnvelopesAgree'
  BY <1>1, <1>2, <1>3, <1>4 DEF EnvelopesArePast, EnvelopesAgree
<1> QED
  BY <1>5, <1>6, <1>7

\* A step that leaves the record and the envelopes alone keeps the chain.
LEMMA StepChain ==
    ASSUME ChainInv, UNCHANGED <<soft, row, held, reply>>
    PROVE  ChainInv'
BY DEF ChainInv, EnvelopesArePast, EnvelopesMatchRow, EnvelopesAgree

LEMMA GetChain ==
    ASSUME CallsTypeOK, ChainInv, NEW c \in Calls, Get(c)
    PROVE  ChainInv'
<1> SUFFICES ASSUME soft
             PROVE  EnvelopesArePast' /\ EnvelopesMatchRow' /\ EnvelopesAgree'
  BY DEF ChainInv, Get
<1> USE DEF CallsTypeOK
<1>1. EnvelopesArePast /\ EnvelopesMatchRow /\ EnvelopesAgree
  BY DEF ChainInv
<1>2. /\ row.ver \in Nat /\ row' = row /\ row.st = "live" /\ reply' = reply
      /\ held' = [held EXCEPT ![c] = [ver |-> row.ver, val |-> row.val]]
  BY DEF Get, EnvelopeOf, Row
<1>3. EnvelopesArePast'
  BY <1>1, <1>2 DEF EnvelopesArePast
<1>4. EnvelopesMatchRow'
  BY <1>1, <1>2 DEF EnvelopesMatchRow
<1>5. EnvelopesAgree'
  BY <1>1, <1>2 DEF EnvelopesMatchRow, EnvelopesAgree
<1> QED
  BY <1>3, <1>4, <1>5

\* A tombstone's version is at least that of the record it replaces.
LEMMA DeleteChain ==
    ASSUME CallsTypeOK, ChainInv, NEW c \in Calls, Delete(c)
    PROVE  ChainInv'
<1> SUFFICES ASSUME soft
             PROVE  EnvelopesArePast' /\ EnvelopesMatchRow' /\ EnvelopesAgree'
  BY DEF ChainInv, Delete, CommitDelete
<1> USE DEF CallsTypeOK
<1>1. EnvelopesArePast /\ EnvelopesMatchRow /\ EnvelopesAgree
  BY DEF ChainInv
<1>2. /\ row.ver \in Nat /\ row'.st = "dead" /\ row'.ver = row.ver + TombstoneBump
      /\ held' = held /\ reply' = reply
  BY DEF Delete, CommitDelete, Dead, Row
<1>3. row.ver <= row'.ver
  BY <1>2, TombstoneBumpAssumption
<1>4. \A d \in Calls : held[d].ver \in Nat /\ reply[d].ver \in Nat
  BY DEF Envelope
<1>5. row'.ver \in Nat
  BY <1>2, TombstoneBumpAssumption
<1>6. EnvelopesArePast'
  BY <1>1, <1>2, <1>3, <1>4, <1>5 DEF EnvelopesArePast
<1>7. EnvelopesMatchRow'
  BY <1>2 DEF EnvelopesMatchRow
<1>8. EnvelopesAgree'
  BY <1>1, <1>2 DEF EnvelopesAgree
<1> QED
  BY <1>6, <1>7, <1>8

LEMMA NextChain == CallsTypeOK /\ ChainInv /\ [Next]_callVars => ChainInv'
<1> SUFFICES ASSUME CallsTypeOK, ChainInv, [Next]_callVars PROVE ChainInv'
    OBVIOUS
<1>1. CASE UNCHANGED callVars
  BY <1>1, StepChain DEF callVars
<1>2. ASSUME NEW c \in Calls, Get(c) PROVE ChainInv'
  BY <1>2, GetChain
<1>3. ASSUME NEW c \in Calls, Create(c) PROVE ChainInv'
  BY <1>3, WrittenValues, CommitChain DEF Create
<1>4. ASSUME NEW c \in Calls, Put(c) PROVE ChainInv'
  BY <1>4, WrittenValues, CommitChain DEF Put
<1>5. ASSUME NEW c \in Calls, Update(c) PROVE ChainInv'
  BY <1>5, WrittenValues, CommitChain DEF Update
<1>6. ASSUME NEW c \in Calls, Patch(c) PROVE ChainInv'
  BY <1>6, WrittenValues, CommitChain DEF Patch
<1>7. ASSUME NEW c \in Calls, Delete(c) PROVE ChainInv'
  BY <1>7, DeleteChain
<1>8. ASSUME NEW c \in Calls, Refuse(c) PROVE ChainInv'
  BY <1>8, StepChain DEF Refuse, Step
<1> QED
  BY <1>1, <1>2, <1>3, <1>4, <1>5, <1>6, <1>7, <1>8 DEF Next

\* The version chain of a tombstoning record never restarts or forks.
THEOREM ChainHolds == Spec => []ChainInv
<1>1. Init => TypeOK /\ ChainInv
  BY InitTypeOK, ChainInit
<1>2. TypeOK /\ ChainInv /\ [Next]_callVars => (TypeOK /\ ChainInv)'
  BY NextTypeOK, NextChain, CallsTyped
<1> QED
  BY <1>1, <1>2, PTL DEF Spec

\* Two callers who hold the same version of a record hold the same content.
THEOREM VersionsNameContents == Spec => []VersionNamesContent
<1>1. ChainInv => VersionNamesContent
  BY DEF ChainInv, VersionNamesContent
<1> QED
  BY <1>1, ChainHolds, PTL

-----------------------------------------------------------------------------

\* What one step may do to the record's version.
LEMMA NextMonotone ==
    ASSUME CallsTypeOK, [Next]_callVars, row.st # "absent", row'.st # "absent"
    PROVE  /\ row.ver <= row'.ver
           /\ (row'.st = "live" /\ row'.val # row.val) => row.ver < row'.ver
<1> DEFINE Goal == /\ row.ver <= row'.ver
                   /\ (row'.st = "live" /\ row'.val # row.val) => row.ver < row'.ver
<1> SUFFICES Goal
    OBVIOUS
<1>0. row.ver \in Nat
  BY DEF CallsTypeOK, Row
<1>1. CASE row' = row
  BY <1>0, <1>1
<1>2. ASSUME NEW c \in Calls, NEW v, row' = Live(row.ver + 1, v) PROVE Goal
  BY <1>0, <1>2 DEF Live
<1>3. ASSUME NEW c \in Calls, Delete(c) PROVE Goal
  <2>1. CASE soft
    BY <1>0, <1>3, <2>1, TombstoneBumpAssumption DEF Delete, CommitDelete, Dead
  <2>2. CASE ~soft
    BY <1>3, <2>2 DEF Delete, CommitDelete, Absent
  <2> QED
    BY <2>1, <2>2
<1> HIDE DEF Goal
<1>4. CASE UNCHANGED callVars
  BY <1>1, <1>4 DEF callVars
<1>5. ASSUME NEW c \in Calls,
             Get(c) \/ Create(c) \/ Put(c) \/ Update(c) \/ Patch(c) \/ Refuse(c)
      PROVE  Goal
  BY <1>1, <1>2, <1>5 DEF Get, Create, Put, Update, Patch, Refuse, Commit, Step
<1> QED
  BY <1>3, <1>4, <1>5 DEF Next

\* A record's version never goes back while the record exists, and grows
\* whenever its content changes.
THEOREM VersionsGrow == Spec => VersionMonotone
<1>1. TypeOK /\ [Next]_callVars
        => [ (row.st # "absent" /\ row'.st # "absent") =>
              /\ row.ver <= row'.ver
              /\ (row'.st = "live" /\ row'.val # row.val) => row.ver < row'.ver ]_callVars
  BY NextMonotone, CallsTyped
<1> QED
  BY <1>1, TypeCorrect, PTL DEF Spec, VersionMonotone

\* Only its own call's step completes a call.
LEMMA CompletedByOwnStep ==
    ASSUME CallsTypeOK, Next, NEW c \in Calls, pc[c] # "ok", pc'[c] = "ok",
           kind[c] \in Patches \cup Updates
    PROVE  Update(c) \/ Patch(c)
<1>1. PICK d \in Calls :
        \/ Get(d) \/ Create(d) \/ Put(d) \/ Update(d) \/ Patch(d) \/ Delete(d)
        \/ Refuse(d)
  BY DEF Next
<1>2. pc \in [Calls -> {"idle", "held"} \cup Outcomes]
  BY DEF CallsTypeOK
<1>3. ~Get(d)
  BY <1>2 DEF Get, Goto
<1>4. ~Refuse(d)
  BY <1>2 DEF Refuse, Step, Goto
<1>5. d = c
  BY <1>1, <1>2, <1>3, <1>4
  DEF Create, Put, Update, Patch, Delete, Commit, CommitDelete, Goto
<1>6. ~Create(c) /\ ~Put(c) /\ ~Delete(c)
  BY DEF Create, Put, Delete, Patches, Updates, Deletes
<1> QED
  BY <1>1, <1>3, <1>4, <1>5, <1>6

LEMMA NextLosesNoEdit ==
    ASSUME CallsTypeOK, ChainInv, Next, NEW c \in Calls,
           kind[c] \in Patches \/ (soft /\ kind[c] = "updateIf"),
           pc[c] # "ok", pc'[c] = "ok", row.st = "live"
    PROVE  row.val \subseteq row'.val
<1>1. CASE Patch(c)
  BY <1>1 DEF Patch, Commit, Live
<1>2. CASE Update(c)
  <2>1. soft /\ kind[c] = "updateIf"
    BY <1>2 DEF Update, Patches, Updates
  <2>2. held[c].ver = row.ver
    BY <1>2, <2>1 DEF Update, VersionMatches, Guarded
  <2>3. held[c].val = row.val
    BY <2>1, <2>2 DEF ChainInv, EnvelopesMatchRow
  <2> QED
    BY <1>2, <2>3 DEF Update, Commit, Live
<1>3. kind[c] \in Patches \cup Updates
  BY DEF Updates
<1> QED
  BY <1>1, <1>2, <1>3, CompletedByOwnStep

\* No patch, and with tombstones no guarded update, drops an edit that is
\* stored when it takes effect.
THEOREM NoEditIsLost == Spec => NoLostEdit
<1>1. TypeOK /\ ChainInv /\ [Next]_callVars
        => [ \A c \in Calls :
              (/\ kind[c] \in Patches \/ (soft /\ kind[c] = "updateIf")
               /\ pc[c] # "ok" /\ pc'[c] = "ok" /\ row.st = "live")
              => row.val \subseteq row'.val ]_callVars
  BY NextLosesNoEdit, CallsTyped
<1> QED
  BY <1>1, TypeCorrect, ChainHolds, PTL DEF Spec, NoLostEdit

-----------------------------------------------------------------------------

LEMMA InitConflict == Init => ConflictInv
BY DEF Init, CallsInit, ConflictInv, NoSpuriousConflict

\* The record a past conflict was about stays gone: its version is passed.
LEMMA NextConflict ==
    TypeOK /\ ChainInv /\ ConflictInv /\ [Next]_callVars => ConflictInv'
<1> SUFFICES ASSUME TypeOK, ChainInv, ConflictInv, [Next]_callVars,
                    ~MayLoseRace, soft', NEW c \in Calls,
                    pc'[c] = "conflict", kind'[c] \in Guarded
             PROVE  row'.st = "dead" \/ held'[c].ver < row'.ver
  BY DEF ConflictInv, NoSpuriousConflict
<1> soft
  BY FixedForEver
<1> DEFINE Goal == row'.st = "dead" \/ held'[c].ver < row'.ver
<1>0. /\ row.ver \in Nat /\ held[c].ver \in Nat /\ held[c].ver <= row.ver
      /\ kind' = kind
      /\ pc \in [Calls -> {"idle", "held"} \cup Outcomes]
  BY FixedForEver DEF TypeOK, Row, Envelope, ChainInv, EnvelopesArePast
<1>1. pc[c] = "conflict" => row.st = "dead" \/ held[c].ver < row.ver
  BY <1>0 DEF ConflictInv, NoSpuriousConflict
<1>2. CASE UNCHANGED callVars
  BY <1>1, <1>2 DEF callVars
<1>3. ASSUME NEW d \in Calls, Get(d) PROVE Goal
  <2>1. d # c
    BY <1>0, <1>3 DEF Get, Goto
  <2>2. pc'[c] = pc[c] /\ held'[c] = held[c] /\ row' = row
    BY <1>0, <1>3, <2>1 DEF Get, Goto
  <2> QED
    BY <1>1, <2>2
<1>4. ASSUME NEW d \in Calls, Create(d) \/ Put(d) \/ Update(d) \/ Patch(d) PROVE Goal
  <2>1. row'.ver = row.ver + 1 /\ held' = held
    BY <1>4 DEF Create, Put, Update, Patch, Commit, Live
  <2> QED
    BY <1>0, <2>1
<1>5. ASSUME NEW d \in Calls, Delete(d) PROVE Goal
  BY <1>5 DEF Delete, CommitDelete, Dead
<1>6. ASSUME NEW d \in Calls, Refuse(d) PROVE Goal
  <2>1. row' = row /\ held' = held
    BY <1>6 DEF Refuse, Step
  <2>2. CASE d # c
    <3>1. pc'[c] = pc[c]
      BY <1>0, <1>6, <2>2 DEF Refuse, Step, Goto
    <3> QED
      BY <1>1, <2>1, <3>1
  <2>3. CASE d = c
    <3>1. row.st = "live" /\ ~VersionMatches(c)
      BY <1>0, <1>6, <2>3 DEF Refuse, Step, Goto
    <3>2. held[c].ver # row.ver
      BY <3>1 DEF VersionMatches
    <3> QED
      BY <1>0, <2>1, <3>2
  <2> QED
    BY <2>2, <2>3
<1> QED
  BY <1>2, <1>3, <1>4, <1>5, <1>6 DEF Next

\* In the reference store a caller who is refused for a stale version would
\* be refused for ever: the error never asks for a pointless retry, and never
\* turns away a caller whose version is current.
THEOREM ConflictsAreFinal == ASSUME ~MayLoseRace PROVE Spec => []NoSpuriousConflict
<1>1. Init => TypeOK /\ ChainInv /\ ConflictInv
  BY InitTypeOK, ChainInit, InitConflict
<1>2. TypeOK /\ ChainInv /\ ConflictInv /\ [Next]_callVars
        => (TypeOK /\ ChainInv /\ ConflictInv)'
  BY NextTypeOK, NextChain, NextConflict, CallsTyped
<1>3. ConflictInv => NoSpuriousConflict
  BY DEF ConflictInv
<1> QED
  BY <1>1, <1>2, <1>3, PTL DEF Spec

-----------------------------------------------------------------------------
(* The routes: what a step of a handler does to the store's calls          *)

\* update's handler reads the record it will merge the body into.
Peek(c) ==
    /\ row.st = "live"
    /\ held' = [held EXCEPT ![c] = EnvelopeOf(row)]
    /\ pc' = [pc EXCEPT ![c] = IF kind[c] \in Guarded THEN "held" ELSE @]
    /\ UNCHANGED <<soft, row, kind, reply>>

\* A handler leaves the store alone, is in one of its methods, or reads.
LEMMA HandlerCalls ==
    ASSUME NEW c \in Calls, Handle(c) \/ LibraryCall(c)
    PROVE  StoreStep(c) \/ Peek(c) \/ UNCHANGED callVars
BY DEF Handle, LibraryCall, Validate, ElsewhereItem, CreateItem, PutItem, ReadItem, ListItems,
   ReadExisting, WriteBack, DeleteItem, HandlerThrows, StoreStep, Peek, callVars

LEMMA ServedCalls ==
    ASSUME [McpNext]_vars
    PROVE  (\E c \in Calls : StoreStep(c) \/ Peek(c)) \/ UNCHANGED callVars
<1>1. CASE UNCHANGED vars
  BY <1>1 DEF vars, served
<1>2. CASE \E c \in Calls : Handle(c) \/ LibraryCall(c)
  BY <1>2, HandlerCalls
<1>3. CASE \E c \in Calls : Direct(c)
  BY <1>3 DEF Direct, Route, callVars
<1>4. CASE Mcp
  BY <1>4 DEF Mcp, ResolveBearer, RefusePost, GatePost, FinishPost, Chunk, EndOfInput, FinishStdio,
     HandleGarbled, HandleSimple, Dispatch, CannotRender, CannotBuild, Respond, Escape, Route, End, Settled, served,
     callVars
<1> QED BY <1>1, <1>2, <1>3, <1>4 DEF McpNext

LEMMA PeekTypes ==
    ASSUME CallsTypeOK, NEW c \in Calls, Peek(c)
    PROVE  CallsTypeOK'
<1>1. EnvelopeOf(row) \in Envelope
  BY DEF CallsTypeOK, Row, EnvelopeOf, Envelope
<1> QED BY <1>1 DEF Peek, CallsTypeOK

LEMMA PeekChain ==
    ASSUME CallsTypeOK, ChainInv, NEW c \in Calls, Peek(c)
    PROVE  ChainInv'
<1> SUFFICES ASSUME soft
             PROVE  EnvelopesArePast' /\ EnvelopesMatchRow' /\ EnvelopesAgree'
  BY DEF ChainInv, Peek
<1> USE DEF CallsTypeOK
<1>1. EnvelopesArePast /\ EnvelopesMatchRow /\ EnvelopesAgree
  BY DEF ChainInv
<1>2. /\ row.ver \in Nat /\ row' = row /\ row.st = "live" /\ reply' = reply
      /\ held' = [held EXCEPT ![c] = [ver |-> row.ver, val |-> row.val]]
  BY DEF Peek, EnvelopeOf, Row
<1>3. EnvelopesArePast'
  BY <1>1, <1>2 DEF EnvelopesArePast
<1>4. EnvelopesMatchRow'
  BY <1>1, <1>2 DEF EnvelopesMatchRow
<1>5. EnvelopesAgree'
  BY <1>1, <1>2 DEF EnvelopesMatchRow, EnvelopesAgree
<1> QED
  BY <1>3, <1>4, <1>5

\* Behind the routes, too, the version chain neither restarts nor forks.
LEMMA ServedChain ==
    ASSUME CallsTypeOK, ChainInv, [McpNext]_vars
    PROVE  CallsTypeOK' /\ ChainInv'
<1>1. CASE UNCHANGED callVars
  BY <1>1, StepChain DEF callVars, CallsTypeOK
<1>2. ASSUME NEW c \in Calls, StoreStep(c) PROVE CallsTypeOK' /\ ChainInv'
  BY <1>2, StoreTypes, NextChain DEF Next, StoreStep
<1>3. ASSUME NEW c \in Calls, Peek(c) PROVE CallsTypeOK' /\ ChainInv'
  BY <1>3, PeekTypes, PeekChain
<1> QED BY <1>1, <1>2, <1>3, ServedCalls

-----------------------------------------------------------------------------
(* The routes: what an answer tells                                        *)

Statuses == {0, Done, Invalid, Unauthorized, Forbidden, NotFound, Conflict, InternalError}

\* Where call c is on its route, and what it was told.
Routed(c) ==
    /\ op[c] = "library" => stage[c] = "idle"
    /\ status[c] # 0 <=> stage[c] = "over"
    /\ op[c] # "library" =>
          /\ kind[c] = KindOf(op[c])
          /\ stage[c] \in {"idle", "routed", "running"} => pc[c] = "idle"
          /\ stage[c] = "merging" =>
                /\ op[c] = "update" /\ InScope(c)
                /\ pc[c] = (IF oc THEN "held" ELSE "idle")
    /\ AnsweredTruly(c)

LEMMA StatusesDiffer ==
    /\ Invalid \notin {0, Done} /\ Unauthorized \notin {0, Done} /\ Forbidden \notin {0, Done}
    /\ NotFound \notin {0, Done} /\ Conflict \notin {0, Done} /\ InternalError \notin {0, Done}
    /\ Done # 0
BY DEF Done, Invalid, Unauthorized, Forbidden, NotFound, Conflict, InternalError

\* What of a route stays as it is when another call's route, or hand-written
\* code, takes a step.
LEMMA OthersStay ==
    ASSUME RoutesTypeOK, NEW c \in Calls, NEW d \in Calls, c # d,
           Handle(c) \/ LibraryCall(c)
    PROVE  pc'[d] = pc[d] /\ stage'[d] = stage[d] /\ status'[d] = status[d]
<1>1. pc'[d] = pc[d]
  <2>1. CASE StoreStep(c)
    BY <2>1 DEF StoreStep, Get, Create, Put, Update, Patch, Delete, Refuse, Commit, CommitDelete,
       Step, Goto, RoutesTypeOK, CallsTypeOK
  <2>2. CASE Peek(c)
    BY <2>2 DEF Peek, RoutesTypeOK, CallsTypeOK
  <2>3. CASE UNCHANGED callVars
    BY <2>3 DEF callVars
  <2> QED BY <2>1, <2>2, <2>3, HandlerCalls
<1>2. stage'[d] = stage[d] /\ status'[d] = status[d]
  BY DEF Handle, LibraryCall, Validate, ElsewhereItem, CreateItem, PutItem, ReadItem, ListItems,
     ReadExisting, WriteBack, DeleteItem, HandlerThrows, Concluded, Answer, Enter, RoutesTypeOK, routeVars
<1> QED BY <1>1, <1>2

LEMMA RoutesFixed ==
    ASSUME [McpNext]_vars
    PROVE  UNCHANGED declared /\ kind' = kind /\ UNCHANGED inputVars
<1>1. CASE UNCHANGED vars
  BY <1>1 DEF vars, served, routeVars, callVars, mcpVars
<1>2. ASSUME NEW c \in Calls, Handle(c) \/ LibraryCall(c) PROVE UNCHANGED declared /\ kind' = kind
  <2>1. kind' = kind
    BY <1>2, HandlerCalls DEF StoreStep, Peek, callVars, Get, Create, Put, Update, Patch, Delete,
       Refuse, Commit, CommitDelete, Step
  <2>2. UNCHANGED declared
    BY <1>2 DEF Handle, LibraryCall, Validate, ElsewhereItem, CreateItem, PutItem, ReadItem,
       ListItems, ReadExisting, WriteBack, DeleteItem, HandlerThrows, Concluded, Answer, Enter, routeVars
  <2> QED BY <2>1, <2>2
<1>3. ASSUME NEW c \in Calls, Direct(c) PROVE UNCHANGED declared /\ kind' = kind /\ UNCHANGED inputVars
  BY <1>3 DEF Direct, Route, callVars, mcpVars
<1>4. CASE Mcp
  BY <1>4 DEF Mcp, ResolveBearer, RefusePost, GatePost, FinishPost, Chunk, EndOfInput, FinishStdio,
     HandleGarbled, HandleSimple, Dispatch, CannotRender, CannotBuild, Respond, Escape, Route, End, Settled, served,
     callVars, routeVars, mcpVars, inputVars
<1> QED BY <1>1, <1>2, <1>3, <1>4 DEF McpNext, mcpVars

\* An answer of s to call c keeps its promise if the call stands as it should.
LEMMA AnswerRouted ==
    ASSUME RoutesTypeOK, NEW c \in Calls, NEW s \in Statuses \ {0}, Answer(c, s),
           kind' = kind, Routed(c), op[c] # "library",
           s = Done => op[c] \in {"read", "list"} \/ pc'[c] = "ok" \/ (isolated /\ c \notin own),
           s \notin {Done, InternalError} => pc'[c] # "ok",
           isolated /\ c \notin own =>
               pc'[c] # "ok" /\ (op[c] \in {"read", "update", "delete"} => s # Done)
    PROVE  Routed(c)'
<1>1. /\ stage'[c] = "over" /\ status'[c] = s /\ UNCHANGED <<oc, op, isolated, own, scheme>>
  BY DEF Answer, RoutesTypeOK, declared
<1>2. s # 0
  OBVIOUS
<1>3. AnsweredTruly(c)'
  BY <1>1, <1>2 DEF AnsweredTruly
<1>4. KindOf(op[c])' = KindOf(op[c])
  BY <1>1 DEF KindOf
<1> QED BY <1>1, <1>2, <1>3, <1>4 DEF Routed

\* What a call's own step keeps of the declarations.
LEMMA StepKeeps ==
    ASSUME NEW c \in Calls, Handle(c) \/ LibraryCall(c)
    PROVE  UNCHANGED declared /\ kind' = kind
<1>1. kind' = kind
  BY HandlerCalls DEF StoreStep, Peek, callVars, Get, Create, Put, Update, Patch, Delete,
     Refuse, Commit, CommitDelete, Step
<1>2. UNCHANGED declared
  BY DEF Handle, LibraryCall, Validate, ElsewhereItem, CreateItem, PutItem, ReadItem,
     ListItems, ReadExisting, WriteBack, DeleteItem, HandlerThrows, Concluded, Answer, Enter, routeVars
<1> QED BY <1>1, <1>2

\* A handler that goes on to another stage tells nothing yet.
LEMMA EnterRouted ==
    ASSUME RoutesTypeOK, NEW c \in Calls, NEW s \in {"running", "merging"}, Enter(c, s),
           kind' = kind, Routed(c), op[c] # "library", stage[c] # "over", pc'[c] # "ok",
           s = "running" => pc'[c] = "idle",
           s = "merging" => op[c] = "update" /\ InScope(c) /\ pc'[c] = (IF oc THEN "held" ELSE "idle")
    PROVE  Routed(c)'
<1>1. /\ stage'[c] = s /\ status' = status /\ UNCHANGED <<oc, op, isolated, own, scheme>>
  BY DEF Enter, RoutesTypeOK, declared
<1>2. status[c] = 0 /\ kind[c] = KindOf(op[c])
  BY DEF Routed
<1>3. AnsweredTruly(c)'
  BY <1>1, <1>2, StatusesDiffer DEF AnsweredTruly
<1>4. KindOf(op[c])' = KindOf(op[c]) /\ InScope(c)' = InScope(c)
  BY <1>1 DEF KindOf, InScope
<1> QED BY <1>1, <1>2, <1>3, <1>4 DEF Routed

\* The answer is a status other than success, and nothing was done.
LEMMA RefusalRouted ==
    ASSUME RoutesTypeOK, NEW c \in Calls,
           NEW s \in {Invalid, Unauthorized, Forbidden, NotFound, Conflict, InternalError},
           Answer(c, s), kind' = kind, Routed(c), op[c] # "library", pc'[c] # "ok"
    PROVE  Routed(c)'
<1>1. s \in Statuses \ {0} /\ s # Done
  BY StatusesDiffer DEF Statuses
<1> QED BY <1>1, AnswerRouted

LEMMA DoneIsStatus == {Done, InternalError} \subseteq Statuses \ {0}
BY StatusesDiffer DEF Statuses

\* A write that took effect is answered with success or an internal error.
LEMMA ConcludedRouted ==
    ASSUME RoutesTypeOK, NEW c \in Calls, Concluded(c), kind' = kind, Routed(c),
           op[c] # "library", pc'[c] = "ok", InScope(c)
    PROVE  Routed(c)'
<1>1. PICK s \in {Done, InternalError} : Answer(c, s)
  BY DEF Concluded
<1>2. s \in Statuses \ {0}
  BY DoneIsStatus
<1> QED BY <1>1, <1>2, AnswerRouted DEF InScope

\* The caller's own step on its route keeps the promise to it.
LEMMA HandleRouted ==
    ASSUME RoutesTypeOK, NEW c \in Calls, Routed(c), Handle(c)
    PROVE  Routed(c)'
<1>0. kind' = kind
  BY StepKeeps
<1>1. op[c] # "library" /\ stage[c] # "over" /\ stage[c] # "idle"
  BY DEF Handle, Routed, Validate, ElsewhereItem, CreateItem, PutItem, ReadItem,
     ListItems, ReadExisting, WriteBack, DeleteItem, HandlerThrows, Running
<1>2. CASE Validate(c)
  <2>1. stage[c] = "routed" /\ pc' = pc /\ pc[c] = "idle"
    BY <1>1, <1>2 DEF Validate, callVars, Routed
  <2>2. CASE Enter(c, "running")
    BY <1>0, <1>1, <2>1, <2>2, EnterRouted
  <2>3. CASE \E s \in {Invalid, Unauthorized, Forbidden} : Answer(c, s)
    BY <1>0, <1>1, <2>1, <2>3, RefusalRouted
  <2> QED BY <1>2, <2>2, <2>3 DEF Validate
<1>3. CASE ElsewhereItem(c)
  <2>1. stage[c] = "running" /\ pc' = pc /\ pc[c] = "idle" /\ isolated /\ c \notin own
    BY <1>1, <1>3 DEF ElsewhereItem, callVars, Routed, InScope
  <2>2. CASE op[c] \in {"read", "update", "delete"}
    BY <1>0, <1>1, <1>3, <2>1, <2>2, RefusalRouted DEF ElsewhereItem
  <2>3. CASE op[c] \notin {"read", "update", "delete"}
    BY <1>0, <1>1, <1>3, <2>1, <2>3, AnswerRouted, DoneIsStatus DEF ElsewhereItem
  <2> QED BY <2>2, <2>3
<1>4. CASE CreateItem(c) \/ PutItem(c)
  <2>1. pc'[c] = "ok" /\ InScope(c) /\ Concluded(c)
    BY <1>4 DEF CreateItem, PutItem, Create, Put, Commit, Goto, Running, RoutesTypeOK, CallsTypeOK
  <2> QED BY <1>0, <1>1, <2>1, ConcludedRouted
<1>5. CASE ReadItem(c) \/ ListItems(c)
  <2>1. /\ stage[c] = "running" /\ pc' = pc /\ pc[c] = "idle" /\ InScope(c)
        /\ op[c] \in {"read", "list"}
    BY <1>1, <1>5 DEF ReadItem, ListItems, callVars, Routed, Running
  <2>2. Answer(c, Done) \/ Answer(c, NotFound)
    BY <1>5 DEF ReadItem, ListItems
  <2>3. CASE Answer(c, Done)
    BY <1>0, <1>1, <2>1, <2>3, AnswerRouted, DoneIsStatus DEF InScope
  <2>4. CASE Answer(c, NotFound)
    BY <1>0, <1>1, <2>1, <2>4, RefusalRouted
  <2> QED BY <2>2, <2>3, <2>4
<1>6. CASE ReadExisting(c)
  <2>1. stage[c] = "running" /\ pc[c] = "idle" /\ InScope(c) /\ op[c] = "update"
        /\ kind[c] = KindOf("update")
    BY <1>1, <1>6 DEF ReadExisting, Routed, Running
  <2>2. CASE row.st = "live"
    <3>1. pc'[c] = (IF kind[c] \in Guarded THEN "held" ELSE "idle") /\ Enter(c, "merging")
      BY <1>6, <2>1, <2>2 DEF ReadExisting, RoutesTypeOK, CallsTypeOK
    <3>2. kind[c] \in Guarded <=> oc
      BY <2>1 DEF KindOf, Guarded, RoutesTypeOK
    <3> QED BY <1>0, <1>1, <2>1, <3>1, <3>2, EnterRouted DEF RoutesTypeOK
  <2>3. CASE row.st # "live"
    <3>1. Answer(c, NotFound) /\ pc' = pc
      BY <1>6, <2>3 DEF ReadExisting, callVars
    <3> QED BY <1>0, <1>1, <2>1, <3>1, RefusalRouted
  <2> QED BY <2>2, <2>3
<1>7. CASE WriteBack(c)
  <2>1. InScope(c)
    BY <1>1, <1>7 DEF WriteBack, Routed
  <2>2. CASE Update(c) /\ Concluded(c)
    <3>1. pc'[c] = "ok"
      BY <2>2 DEF Update, Commit, Goto, RoutesTypeOK, CallsTypeOK
    <3> QED BY <1>0, <1>1, <2>1, <2>2, <3>1, ConcludedRouted
  <2>3. CASE Refuse(c) /\ (Answer(c, Conflict) \/ Answer(c, InternalError))
    <3>1. pc'[c] # "ok"
      BY <2>3 DEF Refuse, Step, Goto, RoutesTypeOK, CallsTypeOK
    <3> QED BY <1>0, <1>1, <2>3, <3>1, RefusalRouted
  <2> QED BY <1>7, <2>2, <2>3 DEF WriteBack
<1>8. CASE DeleteItem(c)
  <2>1. InScope(c)
    BY <1>8 DEF DeleteItem, Running
  <2>2. CASE Delete(c) /\ Concluded(c)
    <3>1. pc'[c] = "ok"
      BY <2>2 DEF Delete, CommitDelete, Goto, RoutesTypeOK, CallsTypeOK
    <3> QED BY <1>0, <1>1, <2>1, <2>2, <3>1, ConcludedRouted
  <2>3. CASE Refuse(c) /\ (Answer(c, NotFound) \/ Answer(c, InternalError))
    <3>1. pc'[c] # "ok"
      BY <2>3 DEF Refuse, Step, Goto, RoutesTypeOK, CallsTypeOK
    <3> QED BY <1>0, <1>1, <2>3, <3>1, RefusalRouted
  <2> QED BY <1>8, <2>2, <2>3 DEF DeleteItem
<1>9. CASE HandlerThrows(c)
  <2>1. pc'[c] # "ok" /\ Answer(c, InternalError)
    BY <1>1, <1>9 DEF HandlerThrows, Routed, callVars
  <2> QED BY <1>0, <1>1, <2>1, RefusalRouted
<1> QED BY <1>2, <1>3, <1>4, <1>5, <1>6, <1>7, <1>8, <1>9 DEF Handle

\* A call's route as it is when nothing of the call itself has changed.
LEMMA SameRouted ==
    ASSUME NEW d \in Calls, Routed(d), UNCHANGED declared, kind' = kind,
           pc'[d] = pc[d], stage'[d] = stage[d], status'[d] = status[d]
    PROVE  Routed(d)'
<1>1. UNCHANGED <<oc, op, isolated, own, scheme>>
  BY DEF declared
<1>2. AnsweredTruly(d)'
  BY <1>1 DEF Routed, AnsweredTruly
<1>3. KindOf(op[d])' = KindOf(op[d]) /\ InScope(d)' = InScope(d)
  BY <1>1 DEF KindOf, InScope
<1> QED BY <1>1, <1>2, <1>3 DEF Routed

LEMMA RouteRouted ==
    ASSUME RoutesTypeOK, NEW c \in Calls, NEW p, Route(c, p), NEW d \in Calls, Routed(d)
    PROVE  Routed(d)'
<1>1. UNCHANGED declared /\ pc' = pc /\ kind' = kind /\ status' = status
  BY DEF Route, callVars
<1>2. CASE d # c
  <2>1. stage'[d] = stage[d]
    BY <1>2 DEF Route, RoutesTypeOK
  <2> QED BY <1>1, <2>1, SameRouted
<1>3. CASE d = c
  <2>1. stage'[c] = "routed" /\ stage[c] = "idle" /\ op[c] # "library" /\ status[c] = 0
    BY <1>3 DEF Route, RoutesTypeOK, Routed, CrudOps
  <2>2. AnsweredTruly(c)'
    BY <1>1, <1>3 DEF Routed, AnsweredTruly, declared
  <2>3. pc[c] = "idle" /\ kind[c] = KindOf(op[c])
    BY <1>3, <2>1 DEF Routed
  <2>4. KindOf(op[c])' = KindOf(op[c]) /\ op' = op
    BY <1>1 DEF KindOf, declared
  <2> QED BY <1>1, <1>3, <2>1, <2>2, <2>3, <2>4 DEF Routed
<1> QED BY <1>2, <1>3

LEMMA LibraryRouted ==
    ASSUME RoutesTypeOK, NEW c \in Calls, LibraryCall(c), Routed(c)
    PROVE  Routed(c)'
<1>1. UNCHANGED declared /\ kind' = kind /\ stage' = stage /\ status' = status /\ op' = op
  BY StepKeeps DEF LibraryCall, routeVars, declared
<1>2. op[c] = "library" /\ stage[c] = "idle" /\ status[c] = 0
  BY DEF LibraryCall, Routed
<1>3. AnsweredTruly(c)'
  BY <1>1, <1>2, StatusesDiffer DEF AnsweredTruly
<1> QED BY <1>1, <1>2, <1>3 DEF Routed

\* Routed is an invariant of every step of the server and of its neighbours.
LEMMA ServedRouted ==
    ASSUME RoutesTypeOK, [McpNext]_vars, NEW d \in Calls, Routed(d)
    PROVE  Routed(d)'
<1>1. CASE UNCHANGED served
  <2>1. UNCHANGED declared /\ kind' = kind /\ pc' = pc /\ stage' = stage /\ status' = status
    BY <1>1 DEF served, callVars, routeVars
  <2> QED BY <2>1, SameRouted
<1>2. ASSUME NEW c \in Calls, Handle(c) \/ LibraryCall(c) PROVE Routed(d)'
  <2>1. CASE d = c
    BY <1>2, <2>1, HandleRouted, LibraryRouted
  <2>2. CASE d # c
    BY <1>2, <2>2, OthersStay, StepKeeps, SameRouted
  <2> QED BY <2>1, <2>2
<1>3. ASSUME NEW c \in Calls, NEW p, Route(c, p) PROVE Routed(d)'
  BY <1>3, RouteRouted
<1>4. CASE Mcp
  <2>1. CASE Dispatch
    <3>1. CASE Gated(Current.call)
      BY <1>1, <2>1, <3>1 DEF Dispatch
    <3>2. CASE ~Gated(Current.call)
      <4>1. Route(Current.call, PrincipalFor(Current.call))
        BY <2>1, <3>2 DEF Dispatch
      <4>2. CASE Current.call \in Calls
        BY <1>3, <4>1, <4>2
      <4>3. CASE Current.call \notin Calls
        <5>1. stage' = stage
          BY <4>1, <4>3 DEF Route, RoutesTypeOK
        <5>2. UNCHANGED declared /\ kind' = kind /\ pc' = pc /\ status' = status
          BY <4>1 DEF Route, callVars
        <5> QED BY <5>1, <5>2, SameRouted
      <4> QED BY <4>2, <4>3
    <3> QED BY <3>1, <3>2
  <2>2. CASE ~Dispatch
    BY <1>1, <1>4, <2>2 DEF Mcp, ResolveBearer, RefusePost, GatePost, FinishPost, Chunk, EndOfInput,
       FinishStdio, HandleGarbled, HandleSimple, CannotRender, CannotBuild, Respond, Escape,
       End, Settled
  <2> QED BY <2>1, <2>2
<1> QED BY <1>1, <1>2, <1>3, <1>4 DEF McpNext, Direct, vars

-----------------------------------------------------------------------------
(* The input as a row of symbols                                           *)

LEMMA Times ==
    ASSUME NEW k \in Nat, NEW x \in Nat, NEW y \in Nat, x <= y
    PROVE  k * x \in Nat /\ k * x <= k * y /\ k * (x + 1) = k * x + k
OBVIOUS

\* A line of the input takes its own symbols and one more.
LEMMA EndsGrow ==
    ASSUME NEW i \in Nat
    PROVE  /\ Ends(i) \in Nat
           /\ i + 1 \in long => Ends(i + 1) = Ends(i) + Long + 1
           /\ i + 1 \notin long => Ends(i + 1) = Ends(i) + 2
<1> DEFINE short(j) == (1 .. j) \ long
           wide(j) == (1 .. j) \cap long
<1>1. IsFiniteSet(1 .. i)
  BY FS_Interval
<1>2. /\ IsFiniteSet(short(i)) /\ Cardinality(short(i)) \in Nat
      /\ IsFiniteSet(wide(i)) /\ Cardinality(wide(i)) \in Nat
  <2>1. short(i) \in SUBSET (1 .. i) /\ wide(i) \in SUBSET (1 .. i)
    OBVIOUS
  <2> QED BY <1>1, <2>1, FS_Subset, FS_CardinalityType
<1>3. 1 .. i + 1 = (1 .. i) \cup {i + 1} /\ i + 1 \notin 1 .. i
  OBVIOUS
<1>4. /\ IsFiniteSet(wide(i) \cup {i + 1})
      /\ Cardinality(wide(i) \cup {i + 1}) = Cardinality(wide(i)) + 1
      /\ Cardinality(short(i) \cup {i + 1}) = Cardinality(short(i)) + 1
  BY <1>2, <1>3, FS_AddElement
<1>5. Long \in Nat
  BY LineAssumption
<1>6. Ends(i) = i + Cardinality(short(i)) + Long * Cardinality(wide(i))
  BY DEF Ends
<1>7. Ends(i + 1) = i + 1 + Cardinality(short(i + 1)) + Long * Cardinality(wide(i + 1))
  BY DEF Ends
<1>8. ASSUME i + 1 \in long PROVE Ends(i + 1) = Ends(i) + Long + 1
  <2>1. short(i + 1) = short(i) /\ wide(i + 1) = wide(i) \cup {i + 1}
    BY <1>3, <1>8
  <2> HIDE DEF short, wide
  <2>2. Long * (Cardinality(wide(i)) + 1) = Long * Cardinality(wide(i)) + Long
    BY <1>2, <1>5, Times
  <2>3. Cardinality(short(i + 1)) = Cardinality(short(i))
    BY <2>1
  <2>4. Long * Cardinality(wide(i + 1)) = Long * Cardinality(wide(i)) + Long
    BY <1>4, <2>1, <2>2
  <2>5. Ends(i + 1) = i + 1 + Cardinality(short(i)) + (Long * Cardinality(wide(i)) + Long)
    BY <1>7, <2>3, <2>4
  <2> DEFINE x == Long * Cardinality(wide(i))
  <2>6. x \in Nat
    BY <1>2, <1>5, Times
  <2>7. Ends(i) = i + Cardinality(short(i)) + x
        /\ Ends(i + 1) = i + 1 + Cardinality(short(i)) + (x + Long)
    BY <1>6, <2>5
  <2> HIDE DEF x
  <2> QED BY <1>2, <1>5, <2>6, <2>7
<1>9. ASSUME i + 1 \notin long PROVE Ends(i + 1) = Ends(i) + 2
  <2>1. short(i + 1) = short(i) \cup {i + 1} /\ wide(i + 1) = wide(i)
    BY <1>3, <1>9
  <2> HIDE DEF short, wide
  <2> DEFINE x == Long * Cardinality(wide(i))
  <2>2. x \in Nat
    BY <1>2, <1>5, Times
  <2>3. Ends(i) = i + Cardinality(short(i)) + x
    BY <1>6
  <2>4. Ends(i + 1) = i + 1 + (Cardinality(short(i)) + 1) + x
    BY <1>4, <1>7, <2>1
  <2> HIDE DEF x
  <2> QED BY <1>2, <2>2, <2>3, <2>4
<1>10. Ends(i) \in Nat
  <2> HIDE DEF short, wide
  <2>1. Long * Cardinality(wide(i)) \in Nat
    BY <1>2, <1>5, Times
  <2> QED BY <1>2, <1>6, <2>1
<1> QED BY <1>8, <1>9, <1>10

LEMMA EndsFromZero == Ends(0) = 0
<1>1. 1 .. 0 = {} /\ Cardinality({}) = 0
  BY FS_EmptySet
<1>2. (1 .. 0) \ long = {} /\ (1 .. 0) \cap long = {} /\ Long * 0 = 0
  BY <1>1, LineAssumption
<1> QED BY <1>1, <1>2 DEF Ends

LEMMA EndsMonotone ==
    ASSUME NEW i \in Nat, NEW j \in Nat, i <= j
    PROVE  Ends(i) <= Ends(j)
<1> DEFINE short(n) == (1 .. n) \ long
           wide(n) == (1 .. n) \cap long
<1>1. IsFiniteSet(1 .. i) /\ IsFiniteSet(1 .. j)
  BY FS_Interval
<1>2. /\ short(i) \in SUBSET (1 .. i) /\ wide(i) \in SUBSET (1 .. i)
      /\ short(j) \in SUBSET (1 .. j) /\ wide(j) \in SUBSET (1 .. j)
      /\ short(i) \in SUBSET short(j) /\ wide(i) \in SUBSET wide(j)
  OBVIOUS
<1>3. \A S : IsFiniteSet(S) => Cardinality(S) \in Nat
  BY FS_CardinalityType
<1>4. /\ IsFiniteSet(short(i)) /\ IsFiniteSet(wide(i))
      /\ IsFiniteSet(short(j)) /\ IsFiniteSet(wide(j))
  BY <1>1, <1>2, FS_Subset
<1>5. Cardinality(short(i)) <= Cardinality(short(j)) /\ Cardinality(wide(i)) <= Cardinality(wide(j))
  BY <1>2, <1>4, FS_Subset
<1>6. /\ Cardinality(short(i)) \in Nat /\ Cardinality(wide(i)) \in Nat
      /\ Cardinality(short(j)) \in Nat /\ Cardinality(wide(j)) \in Nat
  BY <1>3, <1>4
<1>7. /\ Ends(i) = i + Cardinality(short(i)) + Long * Cardinality(wide(i))
      /\ Ends(j) = j + Cardinality(short(j)) + Long * Cardinality(wide(j))
  BY DEF Ends
<1> HIDE DEF short, wide
<1>8. /\ Long * Cardinality(wide(i)) \in Nat /\ Long * Cardinality(wide(j)) \in Nat
      /\ Long * Cardinality(wide(i)) <= Long * Cardinality(wide(j))
  BY <1>5, <1>6, Times, LineAssumption
<1> QED BY <1>5, <1>6, <1>7, <1>8

\* k lines end among the first t symbols.
LinesBy(t, k) ==
    /\ k \in 0 .. Len(msgs)
    /\ Ends(k) <= t
    /\ k < Len(msgs) => t < Ends(k + 1)

LEMMA LeastNatural ==
    ASSUME NEW T \in SUBSET Nat, T # {}
    PROVE  \E x \in T : \A y \in T : x <= y
<1>1. PICK x \in T : \A y \in T : ~(<<y, x>> \in OpToRel(<, Nat))
  BY WFMin, NatLessThanWellFounded
<1>2. \A y \in T : ~(y < x)
  BY <1>1 DEF OpToRel
<1> QED BY <1>2

LEMMA SomeLinesEnd ==
    ASSUME Len(msgs) \in Nat, NEW t \in Nat
    PROVE  \E k \in Nat : LinesBy(t, k)
<1> DEFINE T == {i \in 1 .. Len(msgs) : t < Ends(i)}
<1>0. \A i \in Nat : Ends(i) \in Nat
  BY EndsGrow
<1>1. CASE T = {}
  <2>1. CASE Len(msgs) = 0
    BY <2>1, EndsFromZero DEF LinesBy
  <2>2. CASE Len(msgs) # 0
    <3>1. Ends(Len(msgs)) <= t
      <4>1. Len(msgs) \in 1 .. Len(msgs)
        BY <2>2
      <4>2. ~(t < Ends(Len(msgs)))
        BY <1>1, <4>1
      <4>3. Ends(Len(msgs)) \in Nat
        BY <1>0
      <4> QED BY <4>2, <4>3
    <3> QED BY <3>1 DEF LinesBy
  <2> QED BY <2>1, <2>2
<1>2. CASE T # {}
  <2>1. PICK x \in T : \A y \in T : x <= y
    <3> T \in SUBSET Nat
      OBVIOUS
    <3> HIDE DEF T
    <3> QED BY <1>2, LeastNatural
  <2>2. x \in 1 .. Len(msgs) /\ t < Ends(x)
    OBVIOUS
  <2> DEFINE k == x - 1
  <2>3. k \in 0 .. Len(msgs) /\ k \in Nat /\ k + 1 = x
    BY <2>2
  <2>4. Ends(k) <= t
    <3>1. CASE k = 0
      BY <3>1, EndsFromZero
    <3>2. CASE k # 0
      <4>1. k \in 1 .. Len(msgs) /\ ~(x <= k)
        BY <2>2, <3>2
      <4>2. ~(t < Ends(k))
        BY <2>1, <4>1
      <4>3. Ends(k) \in Nat
        BY <1>0, <2>3
      <4> QED BY <4>2, <4>3
    <3> QED BY <3>1, <3>2
  <2> QED BY <2>2, <2>3, <2>4 DEF LinesBy
<1> QED BY <1>1, <1>2

\* The lines a chunk completes are those between two such numbers.
LEMMA CompletedLines ==
    ASSUME Len(msgs) \in Nat, fed \in Nat, NEW t \in Nat, fed <= t,
           NEW k \in Nat, LinesBy(fed, k), NEW m \in Nat, LinesBy(t, m)
    PROVE  k <= m /\ Completed(t) = k + 1 .. m
<1>0. \A i \in Nat : Ends(i) \in Nat
  BY EndsGrow
<1>1. k \in 0 .. Len(msgs) /\ Ends(k) <= fed /\ (k < Len(msgs) => fed < Ends(k + 1))
  BY DEF LinesBy
<1>2. m \in 0 .. Len(msgs) /\ Ends(m) <= t /\ (m < Len(msgs) => t < Ends(m + 1))
  BY DEF LinesBy
<1>3. k <= m
  <2> SUFFICES ASSUME m < k PROVE FALSE
    OBVIOUS
  <2>0. m + 1 \in Nat /\ m + 1 <= k /\ m < Len(msgs)
    BY <1>1, <1>2
  <2>1. t < Ends(m + 1) /\ Ends(m + 1) <= Ends(k)
    BY <1>2, <2>0, EndsMonotone
  <2>2. Ends(k) \in Nat /\ Ends(m + 1) \in Nat
    BY <1>0, <2>0
  <2> QED BY <1>1, <2>1, <2>2
<1>4. ASSUME NEW i \in Completed(t) PROVE i \in k + 1 .. m
  <2>1. i \in 1 .. Len(msgs) /\ fed < Ends(i) /\ Ends(i) <= t /\ i \in Nat
    BY DEF Completed
  <2>2. ~(i <= k)
    <3> SUFFICES ASSUME i <= k PROVE FALSE
      OBVIOUS
    <3>1. Ends(i) <= Ends(k) /\ Ends(i) \in Nat /\ Ends(k) \in Nat
      BY <1>0, <2>1, EndsMonotone
    <3> QED BY <1>1, <2>1, <3>1
  <2>3. ~(m < i)
    <3> SUFFICES ASSUME m < i PROVE FALSE
      OBVIOUS
    <3>0. m + 1 \in Nat /\ m + 1 <= i /\ m < Len(msgs)
      BY <1>2, <2>1
    <3>1. Ends(m + 1) <= Ends(i) /\ Ends(i) \in Nat /\ Ends(m + 1) \in Nat
      BY <1>0, <2>1, <3>0, EndsMonotone
    <3> QED BY <1>2, <2>1, <3>0, <3>1
  <2> QED BY <2>1, <2>2, <2>3
<1>5. ASSUME NEW i \in k + 1 .. m PROVE i \in Completed(t)
  <2>1. i \in Nat /\ i \in 1 .. Len(msgs) /\ i <= m /\ k + 1 <= i /\ k < Len(msgs)
    BY <1>1, <1>2
  <2>2. Ends(i) <= Ends(m) /\ Ends(k + 1) <= Ends(i)
    <3> k + 1 \in Nat
      OBVIOUS
    <3> QED BY <2>1, EndsMonotone
  <2>3. Ends(i) \in Nat /\ Ends(k + 1) \in Nat /\ Ends(m) \in Nat
    <3> k + 1 \in Nat
      OBVIOUS
    <3> QED BY <1>0, <2>1
  <2>4. fed < Ends(i) /\ Ends(i) <= t
    BY <1>1, <1>2, <2>1, <2>2, <2>3
  <2> QED BY <2>1, <2>4 DEF Completed
<1> QED BY <1>3, <1>4, <1>5

LEMMA Bounds ==
    ASSUME NEW a \in Int, NEW b \in Int, a <= b
    PROVE  Least(a .. b) = a /\ Most(a .. b) = b
<1>1. /\ a \in a .. b /\ \A j \in a .. b : a <= j
      /\ b \in a .. b /\ \A j \in a .. b : j <= b
  OBVIOUS
<1>2. /\ Least(a .. b) \in a .. b /\ \A j \in a .. b : Least(a .. b) <= j
  BY <1>1 DEF Least
<1>3. /\ Most(a .. b) \in a .. b /\ \A j \in a .. b : j <= Most(a .. b)
  BY <1>1 DEF Most
<1> QED BY <1>1, <1>2, <1>3

\* Where the buffer begins after a chunk, when lines k + 1 to m have ended;
\* whether it still drops a long line, and whether it holds too much.
Base(k, m) == IF k = m THEN from ELSE Ends(m)
Dropping(k, m) == discarding /\ k = m
Over(k, m, t) == capped /\ t - Base(k, m) > MaxLine

\* What the line buffer makes of a chunk that brings the lines ended from k
\* to m: first is the first of them it hands on.
Pushed(k, m, t, first) ==
    /\ k <= m
    /\ k = m => pending' = <<>>
    /\ k < m =>
          /\ pending' \in Seq([msg : 1 .. Len(msgs), whole : BOOLEAN])
          /\ Len(pending') = m - first + 1
          /\ \A n \in 1 .. m - first + 1 :
                /\ pending'[n].msg = n + (first - 1)
                /\ (n + (first - 1) # k + 1 \/ from = Ends(k)) => pending'[n].whole
    /\ from' = (IF Over(k, m, t) THEN t ELSE Base(k, m))
    /\ discarding' = (Dropping(k, m) \/ Over(k, m, t))
    /\ errors' = (IF Over(k, m, t) /\ ~Dropping(k, m) THEN errors + 1 ELSE errors)

LEMMA ChunkLines ==
    ASSUME McpTypeOK, NEW t \in Nat, Chunk(t), NEW k \in Nat, LinesBy(fed, k),
           NEW m \in Nat, LinesBy(t, m),
           NEW first \in Nat, first = (IF discarding THEN k + 2 ELSE k + 1)
    PROVE  Pushed(k, m, t, first)
<1> DEFINE S == [msg : 1 .. Len(msgs), whole : BOOLEAN]
<1>0. Len(msgs) \in Nat /\ fed \in Nat /\ fed <= t /\ discarding \in BOOLEAN
  BY DEF McpTypeOK, Chunk
<1>1. k <= m /\ Completed(t) = k + 1 .. m
  BY <1>0, CompletedLines
<1>2. k \in 0 .. Len(msgs) /\ m \in 0 .. Len(msgs)
  BY DEF LinesBy
<1>3. Completed(t) = {} <=> k = m
  BY <1>1
<1> USE DEF Base, Over, Dropping, Pushed
<1>4. CASE k = m
  BY <1>1, <1>3, <1>4 DEF Chunk
<1>5. CASE k < m
  <2>1. Least(Completed(t)) = k + 1 /\ Most(Completed(t)) = m
    <3> k + 1 \in Int /\ m \in Int /\ k + 1 <= m
      BY <1>5
    <3> QED BY <1>1, Bounds
  <2>2. Kept(Completed(t)) = first .. m /\ first \in 1 .. m + 1
    <3>1. (k + 1 .. m) \ {k + 1} = k + 2 .. m
      OBVIOUS
    <3>2. CASE discarding
      BY <1>1, <1>5, <2>1, <3>1, <3>2 DEF Kept
    <3>3. CASE ~discarding
      BY <1>1, <1>5, <3>3 DEF Kept
    <3> QED BY <3>2, <3>3
  <2>3. Cardinality(first .. m) = m - first + 1 /\ m - first + 1 \in Nat
    <3>1. first \in Int /\ m \in Int
      OBVIOUS
    <3>2. Cardinality(first .. m) = IF first > m THEN 0 ELSE m - first + 1
      BY <3>1, FS_Interval
    <3>3. m - first + 1 \in Nat /\ (first > m => m - first + 1 = 0)
      BY <2>2
    <3> QED BY <3>2, <3>3
  <2> DEFINE shift == IF first .. m = {} THEN 0 ELSE Least(first .. m) - 1
             p == [n \in 1 .. m - first + 1 |-> LineOf(n + shift, k + 1)]
  <2>4. pending' = p
    <3>1. pending' =
            [n \in 1 .. Cardinality(Kept(Completed(t))) |->
                LineOf(n + (IF Kept(Completed(t)) = {} THEN 0 ELSE Least(Kept(Completed(t))) - 1),
                       Least(Completed(t)))]
      BY <1>3, <1>5 DEF Chunk
    <3> QED BY <2>1, <2>2, <2>3, <3>1
  <2>5. first .. m # {} => shift = first - 1
    <3> SUFFICES ASSUME first <= m PROVE Least(first .. m) = first
      BY <2>2
    <3> QED BY <2>2, Bounds
  <2>6. ASSUME NEW n \in 1 .. m - first + 1
        PROVE  /\ n + shift = n + (first - 1) /\ n + (first - 1) \in 1 .. Len(msgs)
               /\ p[n] = LineOf(n + (first - 1), k + 1)
    <3>1. first \in first .. m
      BY <2>2, <2>3, <2>6
    <3>2. shift = first - 1
      BY <2>5, <3>1
    <3> HIDE DEF shift
    <3>3. p[n] = LineOf(n + shift, k + 1)
      OBVIOUS
    <3>4. n + (first - 1) \in 1 .. Len(msgs)
      BY <1>2, <2>2, <2>3, <2>6
    <3> QED BY <3>2, <3>3, <3>4
  <2> HIDE DEF p, shift
  <2>7. ASSUME NEW i \in 1 .. Len(msgs)
        PROVE  /\ LineOf(i, k + 1) \in S /\ LineOf(i, k + 1).msg = i
               /\ (i # k + 1 \/ from = Ends(k)) => LineOf(i, k + 1).whole
    <3>1. (k + 1) - 1 = k
      OBVIOUS
    <3> QED BY <3>1 DEF LineOf, Line
  <2> HIDE DEF S
  <2>8. p \in [1 .. m - first + 1 -> S]
    BY <2>6, <2>7 DEF p
  <2>9. p \in Seq(S) /\ Len(p) = m - first + 1
    BY <2>3, <2>8
  <2>10. \A n \in 1 .. m - first + 1 :
            /\ p[n].msg = n + (first - 1)
            /\ (n + (first - 1) # k + 1 \/ from = Ends(k)) => p[n].whole
    BY <2>6, <2>7
  <2> QED BY <1>1, <1>3, <1>5, <2>1, <2>4, <2>9, <2>10 DEF Chunk, S
<1> QED BY <1>1, <1>4, <1>5

-----------------------------------------------------------------------------
(* The server's own state                                                  *)

LEMMA AppendFacts ==
    ASSUME NEW S, NEW s \in Seq(S), NEW e \in S
    PROVE  /\ Append(s, e) \in Seq(S) /\ Len(Append(s, e)) = Len(s) + 1
           /\ DOMAIN Append(s, e) = 1 .. Len(s) + 1 /\ DOMAIN s = 1 .. Len(s) /\ Len(s) \in Nat
           /\ \A i \in 1 .. Len(s) : Append(s, e)[i] = s[i]
           /\ Append(s, e)[Len(s) + 1] = e
           /\ ToSet(Append(s, e)) = ToSet(s) \cup {e}
<1>1. /\ Append(s, e) \in Seq(S) /\ Len(Append(s, e)) = Len(s) + 1
      /\ DOMAIN Append(s, e) = 1 .. Len(s) + 1 /\ DOMAIN s = 1 .. Len(s) /\ Len(s) \in Nat
      /\ \A i \in 1 .. Len(s) : Append(s, e)[i] = s[i]
      /\ Append(s, e)[Len(s) + 1] = e
  OBVIOUS
<1>2. ToSet(Append(s, e)) = ToSet(s) \cup {e}
  BY <1>1 DEF ToSet
<1> QED BY <1>1, <1>2

LEMMA TailFacts ==
    ASSUME NEW S, NEW s \in Seq(S), s # <<>>
    PROVE  /\ Tail(s) \in Seq(S) /\ Len(Tail(s)) = Len(s) - 1 /\ Len(s) >= 1 /\ Len(s) \in Nat
           /\ DOMAIN s = 1 .. Len(s) /\ DOMAIN Tail(s) = 1 .. Len(s) - 1
           /\ Head(s) = s[1] /\ s[1] \in S
           /\ \A i \in 1 .. Len(s) - 1 : Tail(s)[i] = s[i + 1]
OBVIOUS

LEMMA ElementFacts ==
    ASSUME NEW S, NEW s \in Seq(S)
    PROVE  \A m \in DOMAIN s : s[m] \in S
OBVIOUS

LEMMA OneFacts ==
    ASSUME NEW S
    PROVE  <<>> \in Seq(S) /\ \A e \in S : <<e>> \in Seq(S)
OBVIOUS

\* A step of the routes keeps their state well formed.
LEMMA RoutesTypes ==
    ASSUME RoutesTypeOK, ChainInv, [McpNext]_vars
    PROVE  RoutesTypeOK'
<1>0. CallsTypeOK' /\ UNCHANGED declared
  BY ServedChain, RoutesFixed DEF RoutesTypeOK
<1> SUFFICES /\ stage' \in [Calls -> Stages] /\ principal' \in [Calls -> Principals]
             /\ status' \in [Calls -> Statuses]
  BY <1>0 DEF RoutesTypeOK, declared, Statuses
<1> USE DEF RoutesTypeOK
<1> status \in [Calls -> Statuses]
  BY DEF Statuses
<1>1. CASE UNCHANGED served
  BY <1>1 DEF served, routeVars
<1>2. ASSUME NEW c \in Calls, NEW s \in Stages, Enter(c, s)
      PROVE  /\ stage' \in [Calls -> Stages] /\ principal' \in [Calls -> Principals]
             /\ status' \in [Calls -> Statuses]
  BY <1>2 DEF Enter
<1>3. ASSUME NEW c \in Calls, NEW s \in Statuses, Answer(c, s)
      PROVE  /\ stage' \in [Calls -> Stages] /\ principal' \in [Calls -> Principals]
             /\ status' \in [Calls -> Statuses]
  BY <1>3 DEF Answer, Stages
<1>4. ASSUME NEW c \in Calls, Handle(c)
      PROVE  (\E s \in Stages : Enter(c, s)) \/ (\E s \in Statuses : Answer(c, s))
  <2>1. /\ Done \in Statuses /\ Invalid \in Statuses /\ Unauthorized \in Statuses
        /\ Forbidden \in Statuses /\ NotFound \in Statuses /\ Conflict \in Statuses
        /\ InternalError \in Statuses /\ "running" \in Stages /\ "merging" \in Stages
    BY DEF Statuses, Stages
  <2>2. CASE Validate(c)
    BY <2>1, <2>2 DEF Validate
  <2>3. CASE ElsewhereItem(c) \/ ReadItem(c) \/ ListItems(c) \/ HandlerThrows(c)
    BY <2>1, <2>3 DEF ElsewhereItem, ReadItem, ListItems, HandlerThrows
  <2>4. CASE CreateItem(c) \/ PutItem(c) \/ DeleteItem(c) \/ WriteBack(c)
    BY <2>1, <2>4 DEF CreateItem, PutItem, DeleteItem, WriteBack, Concluded
  <2>5. CASE ReadExisting(c)
    BY <2>1, <2>5 DEF ReadExisting
  <2> QED BY <1>4, <2>2, <2>3, <2>4, <2>5 DEF Handle
<1>5. ASSUME NEW c, NEW p \in Principals, Route(c, p)
      PROVE  /\ stage' \in [Calls -> Stages] /\ principal' \in [Calls -> Principals]
             /\ status' \in [Calls -> Statuses]
  BY <1>5 DEF Route, Stages
<1>6. CASE \E c \in Calls : Direct(c)
  BY <1>5, <1>6 DEF Direct
<1>7. CASE \E c \in Calls : LibraryCall(c)
  BY <1>7 DEF LibraryCall, routeVars
<1>8. CASE Mcp
  <2>1. CASE Dispatch /\ ~Gated(Current.call)
    <3>1. PrincipalFor(Current.call) \in Principals
      BY <2>1 DEF Gated, PrincipalFor, Principals
    <3> QED BY <1>5, <2>1, <3>1 DEF Dispatch
  <2>2. CASE Dispatch /\ Gated(Current.call)
    BY <1>1, <2>2 DEF Dispatch
  <2>3. CASE ~Dispatch
    BY <1>1, <1>8, <2>3 DEF Mcp, ResolveBearer, RefusePost, GatePost, FinishPost, Chunk, EndOfInput,
       FinishStdio, HandleGarbled, HandleSimple, CannotRender, CannotBuild, Respond, Escape,
       End, Settled
  <2> QED BY <2>1, <2>2, <2>3
<1> QED BY <1>1, <1>2, <1>3, <1>4, <1>6, <1>7, <1>8 DEF McpNext, vars

\* The variables of the line transport and of the POST, apart from the routes.
ServerTypeOK ==
    /\ claims \in {"unread"} \cup Principals
    /\ phase \in {"reading", "serving", "challenged", "refused", "failed", "over"}
    /\ fed \in Nat /\ from \in 0 .. fed /\ discarding \in BOOLEAN /\ errors \in Nat
    /\ pending \in Seq([msg : DOMAIN msgs, whole : BOOLEAN])
    /\ answers \in Seq(DOMAIN msgs) /\ handled \in Seq(DOMAIN msgs)

\* Every message waiting is one of the client's.
LEMMA PendingMessage ==
    ASSUME McpTypeOK, pending # <<>>
    PROVE  /\ First.msg \in DOMAIN msgs /\ First = pending[1] /\ First.whole \in BOOLEAN
           /\ msgs[First.msg] \in Message /\ Current = msgs[First.msg]
           /\ Len(pending) \in Nat /\ Len(pending) >= 1
<1>1. pending \in Seq([msg : DOMAIN msgs, whole : BOOLEAN]) /\ msgs \in Seq(Message)
  BY DEF McpTypeOK
<1>2. First = pending[1] /\ First \in [msg : DOMAIN msgs, whole : BOOLEAN] /\ Len(pending) >= 1
  BY <1>1, TailFacts DEF First
<1> QED BY <1>1, <1>2 DEF Current

LEMMA SettledTypes ==
    ASSUME McpTypeOK, pending # <<>>, NEW b \in BOOLEAN, Settled(b)
    PROVE  ServerTypeOK'
<1>1. First.msg \in DOMAIN msgs
  BY PendingMessage
<1>2. msgs' = msgs /\ UNCHANGED <<claims, phase, lineVars>>
  BY DEF Settled, inputVars
<1>3. Tail(pending) \in Seq([msg : DOMAIN msgs, whole : BOOLEAN])
  BY TailFacts DEF McpTypeOK
<1>4. Append(answers, First.msg) \in Seq(DOMAIN msgs) /\ Append(handled, First.msg) \in Seq(DOMAIN msgs)
  BY <1>1, AppendFacts DEF McpTypeOK
<1>5. /\ pending' = Tail(pending) /\ handled' = Append(handled, First.msg)
      /\ answers' \in {answers, Append(answers, First.msg)}
  BY DEF Settled
<1>6. answers' \in Seq(DOMAIN msgs)
  BY <1>4, <1>5 DEF McpTypeOK
<1> QED BY <1>2, <1>3, <1>4, <1>5, <1>6 DEF McpTypeOK, ServerTypeOK, lineVars

LEMMA ChunkTypes ==
    ASSUME McpTypeOK, NEW t \in Nat, Chunk(t)
    PROVE  ServerTypeOK'
<1>0. Len(msgs) \in Nat /\ fed \in Nat /\ DOMAIN msgs = 1 .. Len(msgs) /\ discarding \in BOOLEAN
  BY DEF McpTypeOK
<1>1. PICK k \in Nat : LinesBy(fed, k)
  BY <1>0, SomeLinesEnd
<1>2. PICK m \in Nat : LinesBy(t, m)
  BY <1>0, SomeLinesEnd
<1>3. PICK first \in Nat : first = IF discarding THEN k + 2 ELSE k + 1
  OBVIOUS
<1>4. /\ k <= m
      /\ k = m => pending' = <<>>
      /\ k < m => pending' \in Seq([msg : 1 .. Len(msgs), whole : BOOLEAN])
      /\ from' = (IF Over(k, m, t) THEN t ELSE Base(k, m))
      /\ discarding' = (Dropping(k, m) \/ Over(k, m, t))
      /\ errors' = (IF Over(k, m, t) /\ ~Dropping(k, m) THEN errors + 1 ELSE errors)
  <2>1. Pushed(k, m, t, first)
    BY <1>1, <1>2, <1>3, ChunkLines
  <2> QED BY <2>1 DEF Pushed
<1>5. Base(k, m) \in 0 .. t
  <2>1. Ends(m) \in Nat /\ Ends(m) <= t
    BY <1>2, EndsGrow DEF LinesBy
  <2>2. from \in 0 .. fed /\ fed < t
    BY DEF McpTypeOK, Chunk
  <2> QED BY <1>0, <2>1, <2>2 DEF Base
<1>6. from' \in 0 .. t /\ discarding' \in BOOLEAN /\ errors' \in Nat
  <2>1. from' = t \/ from' = Base(k, m)
    BY <1>4
  <2>2. errors' = errors + 1 \/ errors' = errors
    BY <1>4
  <2>3. t \in 0 .. t
    OBVIOUS
  <2>4. from' \in 0 .. t
    BY <1>5, <2>1, <2>3
  <2>5. discarding' \in BOOLEAN
    BY <1>4
  <2>6. errors' \in Nat
    BY <2>2 DEF McpTypeOK
  <2> QED BY <2>4, <2>5, <2>6
<1>7. pending' \in Seq([msg : DOMAIN msgs, whole : BOOLEAN])
  <2>1. CASE k = m
    BY <1>4, <2>1, OneFacts
  <2>2. CASE k # m
    BY <1>0, <1>4, <2>2
  <2> QED BY <2>1, <2>2
<1>8. fed' = t /\ msgs' = msgs /\ UNCHANGED <<claims, phase, answers, handled>>
  BY DEF Chunk, inputVars
<1> QED BY <1>4, <1>6, <1>7, <1>8 DEF McpTypeOK, ServerTypeOK

LEMMA EndOfInputTypes ==
    ASSUME McpTypeOK, EndOfInput
    PROVE  ServerTypeOK'
<1>0. Len(msgs) \in Nat /\ fed \in Nat /\ DOMAIN msgs = 1 .. Len(msgs) /\ from \in 0 .. fed
  BY DEF McpTypeOK
<1>1. pending' \in Seq([msg : DOMAIN msgs, whole : BOOLEAN])
  <2>1. CASE from < fed
    <3>1. Len(msgs) # 0
      <4> SUFFICES ASSUME Len(msgs) = 0 PROVE FALSE
        OBVIOUS
      <4>1. fed = Ends(0) \/ fed = Ends(0) - 1
        BY DEF EndOfInput, Input
      <4> QED BY <1>0, <2>1, <4>1, EndsFromZero
    <3>2. Line(from, Len(msgs)) \in [msg : DOMAIN msgs, whole : BOOLEAN]
      BY <1>0, <3>1 DEF Line
    <3>3. pending' = <<Line(from, Len(msgs))>> \/ pending' = <<>>
      BY DEF EndOfInput
    <3> QED BY <3>2, <3>3, OneFacts
  <2>2. CASE ~(from < fed)
    BY <2>2 DEF EndOfInput
  <2> QED BY <2>1, <2>2
<1>2. /\ fed' = fed /\ from' = fed /\ discarding' = FALSE /\ phase' = "serving"
      /\ msgs' = msgs /\ UNCHANGED <<claims, errors, answers, handled>>
  BY DEF EndOfInput, inputVars
<1>3. fed \in 0 .. fed
  BY <1>0
<1> QED BY <1>0, <1>1, <1>2, <1>3 DEF McpTypeOK, ServerTypeOK

LEMMA ServerTypes ==
    ASSUME McpTypeOK, [McpNext]_vars
    PROVE  ServerTypeOK'
<1>0. msgs' = msgs
  BY RoutesFixed DEF inputVars
<1>1. CASE UNCHANGED mcpVars
  BY <1>0, <1>1 DEF McpTypeOK, ServerTypeOK, mcpVars, lineVars
<1>2. CASE Mcp
  <2>1. CASE \E p \in Principals : ResolveBearer(p)
    BY <1>0, <2>1 DEF ResolveBearer, McpTypeOK, ServerTypeOK, lineVars, Principals
  <2>2. CASE RefusePost \/ FinishPost \/ FinishStdio
    BY <1>0, <2>2 DEF RefusePost, FinishPost, FinishStdio, End, McpTypeOK, ServerTypeOK, lineVars
  <2>3. CASE GatePost
    <3>1. [i \in DOMAIN msgs |-> [msg |-> i, whole |-> TRUE]]
            \in Seq([msg : DOMAIN msgs, whole : BOOLEAN])
      <4>1. DOMAIN msgs = 1 .. Len(msgs) /\ Len(msgs) \in Nat
        BY DEF McpTypeOK
      <4> QED BY <4>1
    <3> QED BY <1>0, <2>3, <3>1 DEF GatePost, End, McpTypeOK, ServerTypeOK, lineVars
  <2>4. CASE \E t \in 1 .. Input : Chunk(t)
    <3>1. PICK t \in 1 .. Input : Chunk(t)
      BY <2>4
    <3>2. t \in Nat
      OBVIOUS
    <3> QED BY <3>1, <3>2, ChunkTypes
  <2>5. CASE EndOfInput
    BY <2>5, EndOfInputTypes
  <2>6. CASE HandleGarbled
    <3>1. First.msg \in DOMAIN msgs
      BY <2>6, PendingMessage DEF HandleGarbled
    <3>2. Tail(pending) \in Seq([msg : DOMAIN msgs, whole : BOOLEAN])
      BY <2>6, TailFacts DEF HandleGarbled, McpTypeOK
    <3>3. Append(handled, First.msg) \in Seq(DOMAIN msgs)
      BY <3>1, AppendFacts DEF McpTypeOK
    <3>4. handled' \in Seq(DOMAIN msgs)
      BY <2>6, <3>3 DEF HandleGarbled, McpTypeOK
    <3>5. errors' \in Nat /\ pending' = Tail(pending)
      BY <2>6 DEF HandleGarbled, McpTypeOK
    <3>6. UNCHANGED <<claims, phase, fed, from, discarding, answers>>
      BY <2>6 DEF HandleGarbled
    <3> QED BY <1>0, <3>2, <3>4, <3>5, <3>6 DEF McpTypeOK, ServerTypeOK
  <2>7. CASE HandleSimple \/ CannotRender \/ CannotBuild \/ Respond
    <3>1. CASE \E b \in BOOLEAN : Settled(b)
      <4>1. pending # <<>>
        BY <2>7 DEF HandleSimple, CannotRender, CannotBuild, Respond, Whole
      <4> QED BY <3>1, <4>1, SettledTypes
    <3>2. CASE Escape
      <4>1. <<>> \in Seq([msg : DOMAIN msgs, whole : BOOLEAN])
        OBVIOUS
      <4>2. phase' = "failed" /\ pending' = <<>> /\ UNCHANGED <<claims, lineVars, answers, handled>>
        BY <3>2 DEF Escape
      <4> QED BY <1>0, <4>1, <4>2 DEF McpTypeOK, ServerTypeOK, lineVars
    <3> QED BY <2>7, <3>1, <3>2 DEF HandleSimple, CannotRender, CannotBuild, Respond, Answered
  <2>8. CASE Dispatch
    <3>1. CASE Gated(Current.call)
      BY <1>0, <2>8, <3>1 DEF Dispatch, McpTypeOK, ServerTypeOK, lineVars
    <3>2. CASE ~Gated(Current.call)
      BY <1>1, <2>8, <3>2 DEF Dispatch
    <3> QED BY <3>1, <3>2
  <2> QED BY <1>2, <2>1, <2>2, <2>3, <2>4, <2>5, <2>6, <2>7, <2>8 DEF Mcp
<1> QED BY <1>1, <1>2 DEF McpNext, Direct, vars

LEMMA McpTypes ==
    ASSUME McpTypeOK, ChainInv, [McpNext]_vars
    PROVE  McpTypeOK'
<1>1. RoutesTypeOK'
  BY RoutesTypes DEF McpTypeOK
<1>2. UNCHANGED inputVars
  BY RoutesFixed
<1>3. ServerTypeOK'
  BY ServerTypes
<1> QED BY <1>1, <1>2, <1>3 DEF McpTypeOK, ServerTypeOK, inputVars

LEMMA McpInitTypes == McpInit => McpTypeOK /\ ChainInv
<1> SUFFICES ASSUME McpInit PROVE McpTypeOK /\ ChainInv
  OBVIOUS
<1>1. Init
  BY DEF McpInit, RoutesInit, Init
<1>2. TypeOK /\ ChainInv
  BY <1>1, InitTypeOK, ChainInit
<1>3. RoutesTypeOK
  BY <1>2, CallsTyped DEF McpInit, RoutesInit, RoutesTypeOK, Stages, Principals
<1>4. <<>> \in Seq([msg : DOMAIN msgs, whole : BOOLEAN]) /\ <<>> \in Seq(DOMAIN msgs)
  OBVIOUS
<1>5. from \in 0 .. fed
  BY DEF McpInit
<1>6. long \subseteq DOMAIN msgs
  BY DEF McpInit
<1> QED BY <1>2, <1>3, <1>4, <1>5, <1>6 DEF McpInit, McpTypeOK

\* The state of the server, of the routes behind it and of the store behind
\* these is always well formed.
THEOREM ServerTypeCorrect == McpSpec => []McpTypeOK
<1>1. McpInit => McpTypeOK /\ ChainInv
  BY McpInitTypes
<1>2. McpTypeOK /\ ChainInv /\ [McpNext]_vars => (McpTypeOK /\ ChainInv)'
  BY McpTypes, ServedChain DEF McpTypeOK, RoutesTypeOK
<1> QED BY <1>1, <1>2, PTL DEF McpSpec

-----------------------------------------------------------------------------
(* A POST: gated as a whole, then handled message by message               *)

\* Nothing of a batch runs before the gate, or ever if it is challenged; what
\* waits is the rest of the batch.
PostInv ==
    transport = "post" =>
        /\ phase # "serving" => pending = <<>>
        /\ phase = "reading" => handled = <<>>
        /\ phase \in {"reading", "refused", "challenged"} =>
              \A c \in CalledBy(msgs) : stage[c] = "idle"
        /\ phase \in {"serving", "failed", "over"} => ~SomeGated(msgs)
        /\ phase \in {"serving", "over"} =>
              /\ Len(handled) + Len(pending) = Len(msgs)
              /\ \A n \in 1 .. Len(handled) : handled[n] = n
              /\ \A n \in 1 .. Len(pending) : pending[n].msg = Len(handled) + n

\* stdin is not challenged.
StdioPhases == transport = "stdio" => phase \in {"reading", "serving", "failed", "over"}

\* A call on no route takes no step of one.
LEMMA IdleRests ==
    ASSUME RoutesTypeOK, NEW c \in Calls, NEW d \in Calls, Handle(c) \/ LibraryCall(c),
           stage[d] = "idle"
    PROVE  stage'[d] = "idle"
<1>1. CASE d # c
  BY <1>1, OthersStay
<1>2. CASE d = c
  <2>1. ~Handle(c)
    BY <1>2 DEF Handle, Validate, ElsewhereItem, CreateItem, PutItem, ReadItem,
       ListItems, ReadExisting, WriteBack, DeleteItem, HandlerThrows, Running
  <2> QED BY <1>2, <2>1 DEF LibraryCall, routeVars
<1> QED BY <1>1, <1>2

\* Beside the server's own steps, its calls stay where no message put them.
LEMMA BesideMcp ==
    ASSUME McpTypeOK, [McpNext]_vars, ~Mcp
    PROVE  /\ UNCHANGED mcpVars
           /\ \A c \in CalledBy(msgs) : c \in Calls /\ stage[c] = "idle" => stage'[c] = "idle"
<1>1. CASE UNCHANGED vars
  BY <1>1 DEF vars, served, routeVars
<1>2. ASSUME NEW c \in Calls, Handle(c) \/ LibraryCall(c), UNCHANGED mcpVars
      PROVE  \A d \in CalledBy(msgs) : d \in Calls /\ stage[d] = "idle" => stage'[d] = "idle"
  BY <1>2, IdleRests DEF McpTypeOK
<1>3. ASSUME NEW c \in Calls, Direct(c)
      PROVE  /\ UNCHANGED mcpVars
             /\ \A d \in CalledBy(msgs) : d \in Calls /\ stage[d] = "idle" => stage'[d] = "idle"
  BY <1>3 DEF Direct, Route, McpTypeOK, RoutesTypeOK
<1> QED BY <1>1, <1>2, <1>3 DEF McpNext

LEMMA CallsOfMessages ==
    ASSUME msgs \in Seq(Message)
    PROVE  CalledBy(msgs) \subseteq Calls
<1>1. \A i \in DOMAIN msgs : msgs[i] \in Message
  OBVIOUS
<1>2. ASSUME NEW m \in Message, Dispatched(m) PROVE m.call \in Calls
  BY <1>2 DEF Message, Dispatched, Simple
<1> QED BY <1>1, <1>2 DEF CalledBy

\* A message of a batch that passed the gate is not gated.
LEMMA NotGated ==
    ASSUME McpTypeOK, StdioPhases, PostInv, pending # <<>>, Dispatched(Current)
    PROVE  ~Gated(Current.call)
<1>1. First.msg \in DOMAIN msgs /\ Current = msgs[First.msg]
  BY PendingMessage
<1>2. CASE transport = "stdio"
  BY <1>2 DEF Gated, NeedsPrincipal
<1>3. CASE transport = "post"
  BY <1>1, <1>3 DEF PostInv, SomeGated
<1> QED BY <1>2, <1>3 DEF McpTypeOK

\* Whether a batch is gated is settled with its claims.
LEMMA GateStays ==
    ASSUME UNCHANGED <<inputVars, declared, claims>>
    PROVE  SomeGated(msgs)' = SomeGated(msgs)
BY DEF SomeGated, Gated, NeedsPrincipal, BearerEligible, Dispatched, inputVars, declared

\* A message is handled: it leaves the front of those waiting.
LEMMA FirstHandled ==
    ASSUME McpTypeOK, PostInv, transport = "post", pending # <<>>,
           pending' = Tail(pending), handled' = Append(handled, First.msg), msgs' = msgs
    PROVE  /\ Len(handled') + Len(pending') = Len(msgs')
           /\ \A n \in 1 .. Len(handled') : handled'[n] = n
           /\ \A n \in 1 .. Len(pending') : pending'[n].msg = Len(handled') + n
<1>1. /\ Len(handled) + Len(pending) = Len(msgs)
      /\ \A n \in 1 .. Len(handled) : handled[n] = n
      /\ \A n \in 1 .. Len(pending) : pending[n].msg = Len(handled) + n
  BY DEF PostInv
<1>2. /\ First.msg \in DOMAIN msgs /\ First = pending[1] /\ Len(pending) \in Nat /\ Len(pending) >= 1
  BY PendingMessage
<1>3. /\ Len(pending') = Len(pending) - 1
      /\ \A n \in 1 .. Len(pending) - 1 : pending'[n] = pending[n + 1]
  BY TailFacts DEF McpTypeOK
<1>4. /\ Len(handled') = Len(handled) + 1 /\ Len(handled) \in Nat
      /\ \A n \in 1 .. Len(handled) : handled'[n] = handled[n]
      /\ handled'[Len(handled) + 1] = First.msg
  BY <1>2, AppendFacts DEF McpTypeOK
<1>5. First.msg = Len(handled) + 1
  BY <1>1, <1>2
<1>6. \A n \in 1 .. Len(pending') : pending'[n].msg = Len(handled') + n
  <2> SUFFICES ASSUME NEW n \in 1 .. Len(pending) - 1 PROVE pending'[n].msg = Len(handled') + n
    BY <1>3
  <2>1. n + 1 \in 1 .. Len(pending)
    BY <1>2
  <2>2. pending'[n].msg = Len(handled) + (n + 1)
    BY <1>1, <1>3, <2>1
  <2> QED BY <1>4, <2>2
<1>7. \A n \in 1 .. Len(handled') : handled'[n] = n
  <2> SUFFICES ASSUME NEW n \in 1 .. Len(handled) + 1 PROVE handled'[n] = n
    BY <1>4
  <2>1. CASE n = Len(handled) + 1
    BY <1>4, <1>5, <2>1
  <2>2. CASE n # Len(handled) + 1
    <3>1. n \in 1 .. Len(handled)
      BY <1>4, <2>2
    <3> QED BY <1>1, <1>4, <3>1
  <2> QED BY <2>1, <2>2
<1>8. Len(handled') + Len(pending') = Len(msgs')
  BY <1>1, <1>2, <1>3, <1>4
<1> QED BY <1>6, <1>7, <1>8

\* The messages waiting, and all that were not lost so far.
Waiting == {pending[m].msg : m \in DOMAIN pending}
Taken == ToSet(handled) \cup Waiting

\* Messages wait in the order sent, whole, behind those handled.
Ordered ==
    /\ Increasing(handled) /\ Increasing(answers)
    /\ ToSet(answers) = {i \in ToSet(handled) : Answered(msgs[i])}
    /\ \A n \in DOMAIN handled, m \in DOMAIN pending : handled[n] < pending[m].msg
    /\ \A m, n \in DOMAIN pending : m < n => pending[m].msg < pending[n].msg
    /\ \A m \in DOMAIN pending : pending[m].whole

\* The first message waiting is handled.
Take ==
    /\ pending # <<>>
    /\ pending' = Tail(pending)
    /\ handled' = Append(handled, First.msg)
    /\ answers' = IF Answered(Current) THEN Append(answers, First.msg) ELSE answers
    /\ errors' = IF Current.type = "garbled" THEN errors + 1 ELSE errors
    /\ UNCHANGED <<inputVars, claims, phase, fed, from, discarding>>

LEMMA HandlersTake ==
    ASSUME McpTypeOK, Ordered,
           HandleGarbled \/ HandleSimple \/ CannotRender \/ CannotBuild \/ Respond
    PROVE  (Take /\ UNCHANGED served) \/ (Whole /\ Escape)
<1>1. pending # <<>> /\ Whole
  <2>1. pending # <<>>
    BY DEF HandleGarbled, HandleSimple, CannotRender, CannotBuild, Respond, Whole
  <2>2. First = pending[1] /\ 1 \in DOMAIN pending
    BY <2>1, PendingMessage DEF McpTypeOK
  <2> QED BY <2>1, <2>2 DEF Ordered, Whole
<1>2. CASE HandleGarbled
  BY <1>1, <1>2 DEF HandleGarbled, Whole, Take, Answered
<1>3. CASE HandleSimple
  BY <1>1, <1>3 DEF HandleSimple, Settled, Take, Simple, lineVars
<1>4. ASSUME CannotBuild \/ Respond, Settled(TRUE), UNCHANGED served PROVE Take
  <2>1. Answered(Current) /\ Current.type # "garbled" /\ Settled(TRUE)
    BY <1>4 DEF CannotBuild, Respond, Dispatched, Answered
  <2> QED BY <1>1, <2>1 DEF Settled, Take, lineVars
<1>5. CASE CannotRender \/ CannotBuild \/ Respond
  BY <1>1, <1>4, <1>5 DEF CannotRender, CannotBuild, Respond
<1>6. HandleGarbled \/ HandleSimple => UNCHANGED served
  BY DEF HandleGarbled, HandleSimple
<1> QED BY <1>2, <1>3, <1>5, <1>6

\* Every step of the server reads, ends, takes a message, or routes a call.
LEMMA McpSteps ==
    ASSUME McpTypeOK, StdioPhases, PostInv, Ordered, Mcp
    PROVE  \/ \E p \in Principals : ResolveBearer(p)
           \/ RefusePost \/ GatePost \/ FinishPost \/ FinishStdio
           \/ \E t \in Nat : Chunk(t)
           \/ EndOfInput
           \/ Take /\ UNCHANGED served
           \/ Whole /\ Escape
           \/ /\ pending # <<>> /\ UNCHANGED mcpVars /\ Dispatched(Current)
              /\ \E p : Route(Current.call, p)
<1>1. CASE Dispatch
  <2>1. pending # <<>> /\ Dispatched(Current)
    BY <1>1 DEF Dispatch, Whole
  <2> QED BY <1>1, <2>1, NotGated DEF Dispatch
<1>2. CASE HandleGarbled \/ HandleSimple \/ CannotRender \/ CannotBuild \/ Respond
  BY <1>2, HandlersTake
<1>3. CASE \E t \in 1 .. Input : Chunk(t)
  BY <1>3
<1> QED BY <1>1, <1>2, <1>3 DEF Mcp

LEMMA PostKept ==
    ASSUME McpTypeOK, StdioPhases, PostInv, Ordered, [McpNext]_vars
    PROVE  PostInv' /\ StdioPhases'
<1>0. UNCHANGED inputVars /\ UNCHANGED declared /\ transport' = transport /\ msgs' = msgs
  BY RoutesFixed DEF inputVars
<1>1. transport \in {"post", "stdio"} /\ msgs \in Seq(Message) /\ stage \in [Calls -> Stages]
  BY DEF McpTypeOK, RoutesTypeOK
<1>2. CalledBy(msgs) \subseteq Calls
  BY <1>1, CallsOfMessages
<1>3. claims' = claims => SomeGated(msgs)' = SomeGated(msgs)
  BY <1>0, GateStays
<1>4. CASE ~Mcp
  <2>1. UNCHANGED <<phase, claims, pending, handled>>
    BY <1>4, BesideMcp DEF mcpVars
  <2>2. \A c \in CalledBy(msgs) : stage[c] = "idle" => stage'[c] = "idle"
    BY <1>2, <1>4, BesideMcp
  <2> QED BY <1>0, <1>3, <2>1, <2>2 DEF PostInv, StdioPhases
<1>5. ASSUME UNCHANGED served, phase' = phase, pending = <<>>, pending' = <<>>, handled' = handled,
             claims' = claims
      PROVE  PostInv' /\ StdioPhases'
  BY <1>0, <1>3, <1>5 DEF PostInv, StdioPhases, served, routeVars
<1>6. CASE \E p \in Principals : ResolveBearer(p)
  <2>1. /\ transport = "post" /\ phase = "reading" /\ phase' = phase /\ pending' = pending
        /\ handled' = handled /\ stage' = stage
    BY <1>6 DEF ResolveBearer, served, routeVars
  <2> QED BY <1>0, <2>1 DEF PostInv, StdioPhases
<1>7. CASE RefusePost
  <2>1. /\ transport = "post" /\ phase = "reading" /\ phase' = "refused" /\ pending' = pending
        /\ handled' = handled /\ stage' = stage
    BY <1>7 DEF RefusePost, End, served, routeVars
  <2> QED BY <1>0, <2>1 DEF PostInv, StdioPhases
<1>8. CASE GatePost
  <2>1. /\ transport = "post" /\ phase = "reading" /\ handled' = handled /\ stage' = stage
        /\ claims' = claims /\ handled = <<>> /\ pending = <<>>
    BY <1>8 DEF GatePost, End, served, routeVars, PostInv
  <2>2. CASE SomeGated(msgs)
    BY <1>0, <1>8, <2>1, <2>2 DEF GatePost, End, PostInv, StdioPhases
  <2>3. CASE ~SomeGated(msgs)
    <3>1. phase' = "serving" /\ pending' = [i \in DOMAIN msgs |-> [msg |-> i, whole |-> TRUE]]
      BY <1>8, <2>3 DEF GatePost, End
    <3>2. DOMAIN msgs = 1 .. Len(msgs) /\ Len(msgs) \in Nat
      BY <1>1
    <3>3. Len(pending') = Len(msgs) /\ \A n \in 1 .. Len(msgs) : pending'[n].msg = n
      BY <3>1, <3>2
    <3>4. Len(handled') = 0
      BY <2>1
    <3>5. /\ Len(handled') + Len(pending') = Len(msgs)
          /\ \A n \in 1 .. Len(handled') : handled'[n] = n
          /\ \A n \in 1 .. Len(pending') : pending'[n].msg = Len(handled') + n
      BY <3>2, <3>3, <3>4
    <3> QED BY <1>0, <1>3, <2>1, <2>3, <3>1, <3>5 DEF PostInv, StdioPhases
  <2> QED BY <2>2, <2>3
<1>9. CASE FinishPost
  <2>1. /\ transport = "post" /\ phase = "serving" /\ phase' = "over" /\ pending' = pending
        /\ pending = <<>> /\ handled' = handled /\ claims' = claims
    BY <1>9 DEF FinishPost, End
  <2> QED BY <1>0, <1>3, <2>1 DEF PostInv, StdioPhases
<1>10. CASE FinishStdio \/ EndOfInput \/ \E t \in Nat : Chunk(t)
  <2>1. transport = "stdio" /\ phase' \in {"reading", "serving", "over"}
    BY <1>10 DEF FinishStdio, End, EndOfInput, Chunk
  <2> QED BY <1>0, <2>1 DEF PostInv, StdioPhases
<1>11. CASE Take
  <2>1. pending # <<>> /\ phase' = phase /\ claims' = claims
    BY <1>11 DEF Take
  <2>2. CASE transport = "post"
    <3>1. phase = "serving" /\ ~SomeGated(msgs)
      BY <2>1, <2>2 DEF PostInv
    <3>2. /\ Len(handled') + Len(pending') = Len(msgs')
          /\ \A n \in 1 .. Len(handled') : handled'[n] = n
          /\ \A n \in 1 .. Len(pending') : pending'[n].msg = Len(handled') + n
      BY <1>0, <1>11, <2>2, FirstHandled DEF Take
    <3> QED BY <1>0, <1>3, <2>1, <2>2, <3>1, <3>2 DEF PostInv, StdioPhases
  <2>3. CASE transport = "stdio"
    BY <1>0, <2>1, <2>3 DEF PostInv, StdioPhases
  <2> QED BY <1>1, <2>2, <2>3
<1>12. CASE pending # <<>> /\ UNCHANGED mcpVars
  <2>1. UNCHANGED <<phase, claims, pending, handled>> /\ (transport = "post" => phase = "serving")
    BY <1>12 DEF mcpVars, PostInv
  <2> QED BY <1>0, <1>3, <2>1 DEF PostInv, StdioPhases
<1>13. CASE Whole /\ Escape
  <2>1. /\ phase' = "failed" /\ pending' = <<>> /\ pending # <<>> /\ claims' = claims
        /\ handled' = handled
    BY <1>13 DEF Whole, Escape
  <2> QED BY <1>0, <1>3, <2>1 DEF PostInv, StdioPhases
<1> QED BY <1>4, <1>6, <1>7, <1>8, <1>9, <1>10, <1>11, <1>12, <1>13, McpSteps

-----------------------------------------------------------------------------
(* Order, and the lines that are lost                                      *)

LEMMA OrderedTake ==
    ASSUME McpTypeOK, Ordered, Take
    PROVE  Ordered'
<1> DEFINE f == First.msg
<1>0. msgs' = msgs /\ DOMAIN msgs \in SUBSET Nat
  BY DEF Take, inputVars, McpTypeOK
<1>1. f \in DOMAIN msgs /\ First = pending[1] /\ Len(pending) >= 1 /\ Len(pending) \in Nat
  BY PendingMessage DEF Take
<1>2. /\ pending' = Tail(pending)
      /\ DOMAIN pending = 1 .. Len(pending) /\ DOMAIN pending' = 1 .. Len(pending) - 1
      /\ \A n \in 1 .. Len(pending) - 1 : pending'[n] = pending[n + 1]
  BY TailFacts DEF Take, McpTypeOK
<1>3. /\ DOMAIN handled = 1 .. Len(handled) /\ DOMAIN handled' = 1 .. Len(handled) + 1
      /\ Len(handled) \in Nat /\ \A n \in 1 .. Len(handled) : handled'[n] = handled[n]
      /\ handled'[Len(handled) + 1] = f
      /\ ToSet(handled') = ToSet(handled) \cup {f}
  <2>1. handled' = Append(handled, f) /\ handled \in Seq(DOMAIN msgs)
    BY DEF Take, McpTypeOK
  <2> QED BY <1>1, <2>1, AppendFacts
<1>4. /\ Increasing(handled) /\ Increasing(answers)
      /\ ToSet(answers) = {i \in ToSet(handled) : Answered(msgs[i])}
      /\ \A n \in DOMAIN handled, m \in DOMAIN pending : handled[n] < pending[m].msg
      /\ \A m, n \in DOMAIN pending : m < n => pending[m].msg < pending[n].msg
      /\ \A m \in DOMAIN pending : pending[m].whole
  BY DEF Ordered
<1>5. \A n \in 1 .. Len(handled) : handled[n] < f /\ handled[n] \in Nat
  <2>1. 1 \in DOMAIN pending
    BY <1>1, <1>2
  <2>2. \A n \in 1 .. Len(handled) : handled[n] \in DOMAIN msgs
    BY <1>3 DEF McpTypeOK
  <2>3. \A n \in 1 .. Len(handled) : handled[n] < pending[1].msg
    BY <1>3, <1>4, <2>1
  <2> QED BY <1>0, <1>1, <2>2, <2>3
<1>6. \A i \in ToSet(handled) : i < f
  BY <1>3, <1>5 DEF ToSet
<1>7. \A n \in DOMAIN answers : answers[n] < f
  <2>1. \A n \in DOMAIN answers : answers[n] \in ToSet(answers)
    BY DEF ToSet
  <2> QED BY <1>4, <1>6, <2>1
<1> HIDE DEF f
<1>8. Increasing(handled')
  <2> SUFFICES ASSUME NEW i \in DOMAIN handled', NEW j \in DOMAIN handled', i < j
               PROVE  handled'[i] < handled'[j]
    BY DEF Increasing
  <2>1. i \in 1 .. Len(handled)
    BY <1>3
  <2>2. CASE j \in 1 .. Len(handled)
    BY <1>3, <1>4, <2>1, <2>2 DEF Increasing
  <2>3. CASE j \notin 1 .. Len(handled)
    <3>1. j = Len(handled) + 1
      BY <1>3, <2>3
    <3> QED BY <1>3, <1>5, <2>1, <3>1
  <2> QED BY <2>2, <2>3
<1>9. Increasing(answers') /\ ToSet(answers') = {i \in ToSet(handled') : Answered(msgs[i])}
  <2>1. CASE Answered(Current)
    <3>1. /\ answers' = Append(answers, f)
          /\ DOMAIN answers = 1 .. Len(answers) /\ DOMAIN answers' = 1 .. Len(answers) + 1
          /\ Len(answers) \in Nat /\ \A n \in 1 .. Len(answers) : answers'[n] = answers[n]
          /\ answers'[Len(answers) + 1] = f
          /\ ToSet(answers') = ToSet(answers) \cup {f}
      BY <1>1, <2>1, AppendFacts DEF Take, McpTypeOK, f
    <3>2. Increasing(answers')
      <4> SUFFICES ASSUME NEW i \in DOMAIN answers', NEW j \in DOMAIN answers', i < j
                   PROVE  answers'[i] < answers'[j]
        BY DEF Increasing
      <4>1. i \in 1 .. Len(answers)
        BY <3>1
      <4>2. CASE j \in 1 .. Len(answers)
        BY <1>4, <3>1, <4>1, <4>2 DEF Increasing
      <4>3. CASE j \notin 1 .. Len(answers)
        <5>1. j = Len(answers) + 1
          BY <3>1, <4>3
        <5> QED BY <1>7, <3>1, <4>1, <5>1
      <4> QED BY <4>2, <4>3
    <3>3. ToSet(answers') = {i \in ToSet(handled') : Answered(msgs[i])}
      BY <1>3, <1>4, <2>1, <3>1 DEF Current, f
    <3> QED BY <3>2, <3>3
  <2>2. CASE ~Answered(Current)
    <3>1. answers' = answers
      BY <2>2 DEF Take
    <3> QED BY <1>3, <1>4, <2>2, <3>1 DEF Current, f
  <2> QED BY <2>1, <2>2
<1>10. \A n \in DOMAIN handled', m \in DOMAIN pending' : handled'[n] < pending'[m].msg
  <2> SUFFICES ASSUME NEW n \in 1 .. Len(handled) + 1, NEW m \in 1 .. Len(pending) - 1
               PROVE  handled'[n] < pending'[m].msg
    BY <1>2, <1>3
  <2>1. m + 1 \in 1 .. Len(pending) /\ 1 \in 1 .. Len(pending) /\ pending'[m] = pending[m + 1]
    BY <1>1, <1>2
  <2>2. CASE n \in 1 .. Len(handled)
    BY <1>2, <1>3, <1>4, <2>1, <2>2
  <2>3. CASE n \notin 1 .. Len(handled)
    <3>1. n = Len(handled) + 1
      BY <1>3, <2>3
    <3>2. pending[1].msg < pending[m + 1].msg
      BY <1>2, <1>4, <2>1
    <3> QED BY <1>1, <1>3, <2>1, <3>1, <3>2 DEF f
  <2> QED BY <2>2, <2>3
<1>11. \A m, n \in DOMAIN pending' : m < n => pending'[m].msg < pending'[n].msg
  <2> SUFFICES ASSUME NEW m \in 1 .. Len(pending) - 1, NEW n \in 1 .. Len(pending) - 1, m < n
               PROVE  pending'[m].msg < pending'[n].msg
    BY <1>2
  <2>1. /\ m + 1 \in 1 .. Len(pending) /\ n + 1 \in 1 .. Len(pending) /\ m + 1 < n + 1
        /\ pending'[m] = pending[m + 1] /\ pending'[n] = pending[n + 1]
    BY <1>1, <1>2
  <2> QED BY <1>2, <1>4, <2>1
<1>12. \A m \in DOMAIN pending' : pending'[m].whole
  <2> SUFFICES ASSUME NEW m \in 1 .. Len(pending) - 1 PROVE pending'[m].whole
    BY <1>2
  <2>1. m + 1 \in 1 .. Len(pending) /\ pending'[m] = pending[m + 1]
    BY <1>1, <1>2
  <2> QED BY <1>2, <1>4, <2>1
<1> QED BY <1>0, <1>8, <1>9, <1>10, <1>11, <1>12 DEF Ordered

Garbled == {n \in DOMAIN handled : msgs[handled[n]].type = "garbled"}

\* Of the first k lines those not taken were long; they, the garbled ones and
\* e more have been reported.
Tally(k, e) ==
    /\ Taken \subseteq 1 .. k
    /\ (1 .. k) \ Taken \subseteq long
    /\ errors = Cardinality((1 .. k) \ Taken) + Cardinality(Garbled) + e

\* k lines have been read; the next one is being dropped, or the buffer holds
\* its beginning.
ReadSoFar(k) ==
    /\ LinesBy(fed, k)
    /\ Ends(k) <= from
    /\ discarding => k < Len(msgs) /\ k + 1 \in long
    /\ ~discarding => from = Ends(k)
    /\ Tally(k, IF discarding THEN 1 ELSE 0)

Lines ==
    transport = "stdio" =>
        /\ msgs = <<>> => closed
        /\ fed <= Input
        /\ phase = "over" => pending = <<>>
        /\ phase = "reading" => \E k \in Nat : ReadSoFar(k)
        /\ phase \in {"serving", "over"} => Tally(Len(msgs), 0)

\* Taking a message loses none, and reports it if it is garbled.
LEMMA TakeTallies ==
    ASSUME McpTypeOK, Take, NEW k \in Nat, NEW e \in Nat, Tally(k, e)
    PROVE  Tally(k, e)'
<1>0. UNCHANGED <<msgs, long>>
  BY DEF Take, inputVars
<1>1. First.msg \in DOMAIN msgs /\ First = pending[1] /\ Len(pending) >= 1 /\ Len(pending) \in Nat
  BY PendingMessage DEF Take
<1>2. /\ DOMAIN pending = 1 .. Len(pending) /\ DOMAIN pending' = 1 .. Len(pending) - 1
      /\ \A n \in 1 .. Len(pending) - 1 : pending'[n] = pending[n + 1]
  BY TailFacts DEF Take, McpTypeOK
<1>3. /\ DOMAIN handled = 1 .. Len(handled) /\ DOMAIN handled' = 1 .. Len(handled) + 1
      /\ Len(handled) \in Nat /\ \A n \in 1 .. Len(handled) : handled'[n] = handled[n]
      /\ handled'[Len(handled) + 1] = First.msg
      /\ ToSet(handled') = ToSet(handled) \cup {First.msg}
  BY <1>1, AppendFacts DEF Take, McpTypeOK
<1>4. Waiting = Waiting' \cup {First.msg}
  <2>1. ASSUME NEW m \in 1 .. Len(pending) PROVE pending[m].msg \in Waiting' \cup {First.msg}
    <3>1. CASE m = 1
      BY <1>1, <3>1
    <3>2. CASE m # 1
      <4>1. m - 1 \in 1 .. Len(pending) - 1 /\ (m - 1) + 1 = m
        BY <1>1, <3>2
      <4>2. pending'[m - 1] = pending[m]
        BY <1>2, <4>1
      <4>3. pending'[m - 1].msg \in Waiting'
        BY <1>2, <4>1 DEF Waiting
      <4> QED BY <4>2, <4>3
    <3> QED BY <3>1, <3>2
  <2>2. ASSUME NEW m \in 1 .. Len(pending) - 1 PROVE pending'[m].msg \in Waiting
    <3>1. m + 1 \in DOMAIN pending /\ pending'[m] = pending[m + 1]
      BY <1>1, <1>2
    <3> QED BY <3>1 DEF Waiting
  <2>3. First.msg \in Waiting
    <3>1. 1 \in DOMAIN pending
      BY <1>1, <1>2
    <3> QED BY <1>1, <3>1 DEF Waiting
  <2>4. Waiting' \subseteq Waiting
    BY <1>2, <2>2 DEF Waiting
  <2>5. Waiting \subseteq Waiting' \cup {First.msg}
    BY <1>2, <2>1 DEF Waiting
  <2> QED BY <2>3, <2>4, <2>5
<1>5. Taken' = Taken
  BY <1>3, <1>4 DEF Taken
<1>6. IsFiniteSet(Garbled) /\ Cardinality(Garbled) \in Nat
  <2>1. Garbled \in SUBSET (1 .. Len(handled)) /\ IsFiniteSet(1 .. Len(handled))
    BY <1>3, FS_Interval DEF Garbled
  <2>2. IsFiniteSet(Garbled)
    BY <2>1, FS_Subset
  <2> QED BY <2>2, FS_CardinalityType
<1>7. Current = msgs[First.msg] /\ Len(handled) + 1 \notin Garbled
  BY <1>3 DEF Current, Garbled
<1>8. errors' = errors + (Cardinality(Garbled') - Cardinality(Garbled)) /\ Cardinality(Garbled') \in Nat
  <2>1. CASE Current.type = "garbled"
    <3>1. Garbled' = Garbled \cup {Len(handled) + 1}
      BY <1>0, <1>3, <1>7, <2>1 DEF Garbled
    <3>2. Cardinality(Garbled') = Cardinality(Garbled) + 1
      BY <1>6, <1>7, <3>1, FS_AddElement
    <3>3. errors' = errors + 1
      BY <2>1 DEF Take
    <3> QED BY <1>6, <3>2, <3>3 DEF McpTypeOK
  <2>2. CASE Current.type # "garbled"
    <3>1. Garbled' = Garbled
      BY <1>0, <1>3, <1>7, <2>2 DEF Garbled
    <3>2. errors' = errors
      BY <2>2 DEF Take
    <3> QED BY <1>6, <3>1, <3>2 DEF McpTypeOK
  <2> QED BY <2>1, <2>2
<1>9. Cardinality((1 .. k) \ Taken) \in Nat
  <2>1. (1 .. k) \ Taken \in SUBSET (1 .. k) /\ IsFiniteSet(1 .. k)
    BY FS_Interval
  <2>2. IsFiniteSet((1 .. k) \ Taken)
    BY <2>1, FS_Subset
  <2> QED BY <2>2, FS_CardinalityType
<1>10. errors' = Cardinality((1 .. k) \ Taken) + Cardinality(Garbled') + e
  BY <1>6, <1>8, <1>9 DEF Tally
<1> QED BY <1>0, <1>5, <1>10 DEF Tally

\* A chunk: between what is lost before it and after it lies at most the line
\* whose end it brings.
LEMMA ChunkTallies ==
    ASSUME McpTypeOK, transport = "stdio", Lines, NEW t \in Nat, Chunk(t)
    PROVE  \E m \in Nat : ReadSoFar(m)'
<1>0. /\ Len(msgs) \in Nat /\ fed \in Nat /\ discarding \in BOOLEAN /\ capped \in BOOLEAN
      /\ errors \in Nat /\ from \in 0 .. fed /\ long \subseteq DOMAIN msgs
  BY DEF McpTypeOK
<1>1. /\ phase = "reading" /\ pending = <<>> /\ fed < t /\ t <= Input
      /\ fed' = t /\ handled' = handled /\ UNCHANGED <<msgs, long, capped, closed>>
  <2>1. Input \in Int
    BY <1>0, EndsGrow DEF Input
  <2> QED BY <1>0, <2>1 DEF Chunk, inputVars
<1>2. PICK k \in Nat : ReadSoFar(k)
  BY <1>1 DEF Lines
<1>3. LinesBy(fed, k) /\ Ends(k) <= from /\ (discarding => k < Len(msgs) /\ k + 1 \in long)
      /\ (~discarding => from = Ends(k)) /\ Tally(k, IF discarding THEN 1 ELSE 0)
  BY <1>2 DEF ReadSoFar
<1>4. PICK m \in Nat : LinesBy(t, m)
  BY <1>0, SomeLinesEnd
<1>5. PICK first \in Nat : first = IF discarding THEN k + 2 ELSE k + 1
  OBVIOUS
<1>6. Pushed(k, m, t, first)
  BY <1>3, <1>4, <1>5, ChunkLines
<1>7. /\ m \in 0 .. Len(msgs) /\ Ends(m) <= t /\ (m < Len(msgs) => t < Ends(m + 1))
      /\ Ends(m) \in Nat /\ k <= m
  BY <1>4, <1>6, EndsGrow DEF LinesBy, Pushed
<1>8. LinesBy(fed, m)'
  BY <1>1, <1>4 DEF LinesBy, Ends
<1>9. Ends(m)' = Ends(m)
  BY <1>1 DEF Ends
<1>10. /\ from' = (IF Over(k, m, t) THEN t ELSE Base(k, m))
       /\ discarding' = (Dropping(k, m) \/ Over(k, m, t))
       /\ errors' = (IF Over(k, m, t) /\ ~Dropping(k, m) THEN errors + 1 ELSE errors)
  BY <1>6 DEF Pushed
<1>11. Ends(m) <= Base(k, m) /\ (~Dropping(k, m) => Base(k, m) = Ends(m))
  <2>1. CASE k = m
    BY <1>3, <2>1 DEF Base, Dropping
  <2>2. CASE k # m
    BY <1>7, <2>2 DEF Base
  <2> QED BY <2>1, <2>2
<1>12. Ends(m)' <= from' /\ (~discarding' => from' = Ends(m)')
  BY <1>7, <1>9, <1>10, <1>11
<1>13. discarding' => m < Len(msgs) /\ m + 1 \in long
  <2>1. CASE Dropping(k, m)
    BY <1>3, <2>1 DEF Dropping
  <2>2. CASE ~Dropping(k, m) /\ Over(k, m, t)
    <3>1. t - Ends(m) > MaxLine
      BY <1>11, <2>2 DEF Over
    <3>2. Ends(m) + 1 < t
      BY <1>7, <3>1, LineAssumption
    <3>3. m < Len(msgs)
      <4> SUFFICES ASSUME m = Len(msgs) PROVE FALSE
        BY <1>0, <1>7
      <4>1. Input = Ends(m) \/ Input = Ends(m) - 1
        BY DEF Input
      <4> QED BY <1>1, <1>7, <3>2, <4>1
    <3>4. t < Ends(m + 1)
      BY <1>7, <3>3
    <3>5. m + 1 \in long
      <4> SUFFICES ASSUME m + 1 \notin long PROVE FALSE
        OBVIOUS
      <4>1. Ends(m + 1) = Ends(m) + 2
        BY EndsGrow
      <4> QED BY <1>7, <3>2, <3>4, <4>1
    <3> QED BY <3>3, <3>5
  <2>3. CASE ~Dropping(k, m) /\ ~Over(k, m, t)
    BY <1>10, <2>3
  <2> QED BY <2>1, <2>2, <2>3
<1>14. Waiting = {} /\ Garbled' = Garbled
  BY <1>1 DEF Waiting, Garbled
<1>15. Waiting' = IF k = m THEN {} ELSE first .. m
  <2>1. CASE k = m
    BY <1>6, <2>1 DEF Pushed, Waiting
  <2>2. CASE k # m
    <3>1. k < m
      BY <1>7, <2>2
    <3>2. /\ DOMAIN pending' = 1 .. m - first + 1
          /\ \A n \in 1 .. m - first + 1 : pending'[n].msg = n + (first - 1)
      BY <1>6, <3>1 DEF Pushed
    <3>3. ASSUME NEW i \in first .. m PROVE i \in Waiting'
      <4>1. i - first + 1 \in 1 .. m - first + 1 /\ (i - first + 1) + (first - 1) = i
        BY <3>1
      <4>2. pending'[i - first + 1].msg = i
        BY <3>2, <4>1
      <4> QED BY <3>2, <4>1, <4>2 DEF Waiting
    <3>4. ASSUME NEW n \in 1 .. m - first + 1 PROVE pending'[n].msg \in first .. m
      BY <3>1, <3>2
    <3>5. Waiting' \subseteq first .. m
      BY <3>2, <3>4 DEF Waiting
    <3> QED BY <2>2, <3>3, <3>5
  <2> QED BY <2>1, <2>2
<1>16. Taken' = Taken \cup Waiting'
  BY <1>1, <1>14 DEF Taken
<1>17. Taken \subseteq 1 .. k /\ (1 .. k) \ Taken \subseteq long
       /\ errors = Cardinality((1 .. k) \ Taken) + Cardinality(Garbled) + (IF discarding THEN 1 ELSE 0)
  BY <1>3 DEF Tally
<1>18. Taken' \subseteq 1 .. m
  <2>1. Waiting' \subseteq 1 .. m
    BY <1>5, <1>15
  <2> QED BY <1>7, <1>16, <1>17, <2>1
<1>19. (1 .. m) \ Taken' = ((1 .. k) \ Taken) \cup (IF discarding /\ k # m THEN {k + 1} ELSE {})
  <2>1. CASE k = m
    BY <1>15, <1>16, <2>1
  <2>2. CASE k # m /\ discarding
    <3>1. Taken' = Taken \cup (k + 2 .. m) /\ k < m
      BY <1>5, <1>7, <1>15, <1>16, <2>2
    <3>2. 1 .. m = (1 .. k) \cup {k + 1} \cup (k + 2 .. m)
      BY <3>1
    <3>3. /\ k + 1 \notin 1 .. k /\ k + 1 \notin k + 2 .. m
          /\ \A i \in 1 .. k : i \notin k + 2 .. m
      OBVIOUS
    <3> QED BY <1>17, <2>2, <3>1, <3>2, <3>3
  <2>3. CASE k # m /\ ~discarding
    <3>1. Taken' = Taken \cup (k + 1 .. m) /\ k < m
      BY <1>5, <1>7, <1>15, <1>16, <2>3
    <3>2. 1 .. m = (1 .. k) \cup (k + 1 .. m) /\ \A i \in 1 .. k : i \notin k + 1 .. m
      BY <3>1
    <3> QED BY <1>17, <2>3, <3>1, <3>2
  <2> QED BY <1>0, <2>1, <2>2, <2>3
<1>20. (1 .. m) \ Taken' \subseteq long
  BY <1>3, <1>17, <1>19
<1>21. IsFiniteSet((1 .. k) \ Taken) /\ Cardinality((1 .. k) \ Taken) \in Nat
  <2>1. (1 .. k) \ Taken \in SUBSET (1 .. k) /\ IsFiniteSet(1 .. k)
    BY FS_Interval
  <2>2. IsFiniteSet((1 .. k) \ Taken)
    BY <2>1, FS_Subset
  <2> QED BY <2>2, FS_CardinalityType
<1>22. Cardinality((1 .. m) \ Taken') =
          Cardinality((1 .. k) \ Taken) + (IF discarding /\ k # m THEN 1 ELSE 0)
  <2>1. CASE discarding /\ k # m
    <3>1. k + 1 \notin (1 .. k) \ Taken
      OBVIOUS
    <3>2. Cardinality(((1 .. k) \ Taken) \cup {k + 1}) = Cardinality((1 .. k) \ Taken) + 1
      BY <1>21, <3>1, FS_AddElement
    <3> QED BY <1>19, <2>1, <3>2
  <2>2. CASE ~(discarding /\ k # m)
    <3>1. (1 .. m) \ Taken' = (1 .. k) \ Taken
      BY <1>19, <2>2
    <3> QED BY <1>21, <2>2, <3>1
  <2> QED BY <2>1, <2>2
<1>23. Cardinality(Garbled) \in Nat
  <2>1. Garbled \in SUBSET (1 .. Len(handled)) /\ IsFiniteSet(1 .. Len(handled))
    BY FS_Interval DEF Garbled, McpTypeOK
  <2>2. IsFiniteSet(Garbled)
    BY <2>1, FS_Subset
  <2> QED BY <2>2, FS_CardinalityType
<1>24. errors' = Cardinality((1 .. m) \ Taken') + Cardinality(Garbled') + (IF discarding' THEN 1 ELSE 0)
  <2> DEFINE a == Cardinality((1 .. k) \ Taken)
             b == Cardinality(Garbled)
             c == Cardinality((1 .. m) \ Taken')
  <2>1. /\ a \in Nat /\ b \in Nat /\ errors = a + b + (IF discarding THEN 1 ELSE 0)
        /\ c = a + (IF discarding /\ k # m THEN 1 ELSE 0)
    BY <1>17, <1>21, <1>22, <1>23
  <2> HIDE DEF a, b, c
  <2>2. errors' = c + b + (IF discarding' THEN 1 ELSE 0)
    <3>1. CASE Dropping(k, m)
      <4>1. errors' = errors /\ discarding'
        BY <1>10, <3>1
      <4>2. discarding /\ k = m
        BY <3>1 DEF Dropping
      <4>3. c = a /\ errors = a + b + 1
        BY <2>1, <4>2
      <4> QED BY <2>1, <4>1, <4>3
    <3>2. CASE ~Dropping(k, m) /\ Over(k, m, t)
      <4>1. errors' = errors + 1 /\ discarding'
        BY <1>10, <3>2
      <4>2. discarding => k # m
        BY <3>2 DEF Dropping
      <4>3. errors = c + b
        BY <2>1, <4>2
      <4> QED BY <2>1, <4>1, <4>3
    <3>3. CASE ~Dropping(k, m) /\ ~Over(k, m, t)
      <4>1. errors' = errors /\ ~discarding'
        BY <1>10, <3>3
      <4>2. discarding => k # m
        BY <3>3 DEF Dropping
      <4>3. errors = c + b /\ errors \in Nat
        BY <1>0, <2>1, <4>2
      <4> QED BY <2>1, <4>1, <4>3
    <3> QED BY <3>1, <3>2, <3>3
  <2> QED BY <1>14, <2>2 DEF b, c
<1>25. Tally(m, IF discarding THEN 1 ELSE 0)'
  BY <1>1, <1>18, <1>20, <1>24 DEF Tally
<1> QED BY <1>1, <1>7, <1>8, <1>12, <1>13, <1>25 DEF ReadSoFar

\* At the end of the input all lines have been read, or all but the last one,
\* which had no newline.
LEMMA LastLine ==
    ASSUME McpTypeOK, msgs = <<>> => closed, fed = Input, NEW k \in Nat, LinesBy(fed, k)
    PROVE  /\ closed => k = Len(msgs) /\ fed = Ends(k)
           /\ ~closed => k + 1 = Len(msgs) /\ Ends(k) < fed
<1>0. Len(msgs) \in Nat /\ closed \in BOOLEAN /\ Ends(Len(msgs)) \in Nat
      /\ (Len(msgs) = 0 => msgs = <<>>)
  BY EndsGrow DEF McpTypeOK
<1>1. k \in 0 .. Len(msgs) /\ Ends(k) <= fed /\ (k < Len(msgs) => fed < Ends(k + 1))
  BY DEF LinesBy
<1>2. k < Len(msgs) => Ends(k + 1) <= Ends(Len(msgs)) /\ Ends(k + 1) \in Nat
  BY <1>0, <1>1, EndsMonotone, EndsGrow
<1>3. CASE closed
  <2>1. fed = Ends(Len(msgs))
    BY <1>3 DEF Input
  <2>2. k = Len(msgs)
    BY <1>0, <1>1, <1>2, <2>1
  <2> QED BY <1>3, <2>1, <2>2
<1>4. CASE ~closed
  <2>1. fed = Ends(Len(msgs)) - 1 /\ Len(msgs) # 0
    BY <1>0, <1>4 DEF Input
  <2>2. k < Len(msgs)
    BY <1>0, <1>1, <2>1
  <2>3. k + 1 = Len(msgs)
    <3> SUFFICES ASSUME k + 1 < Len(msgs) PROVE FALSE
      BY <1>0, <1>1, <2>2
    <3>1. Ends(k + 1) \in Nat /\ Ends((k + 1) + 1) \in Nat /\ Ends(k + 1) + 2 <= Ends((k + 1) + 1)
      <4> k + 1 \in Nat /\ (k + 1) + 1 \in Nat
        OBVIOUS
      <4>1. Ends(k + 1) \in Nat /\ Ends((k + 1) + 1) \in Nat
        BY EndsGrow
      <4>2. Ends((k + 1) + 1) = Ends(k + 1) + Long + 1 \/ Ends((k + 1) + 1) = Ends(k + 1) + 2
        BY EndsGrow
      <4> QED BY <4>1, <4>2, LineAssumption
    <3>2. Ends((k + 1) + 1) <= Ends(Len(msgs))
      <4> (k + 1) + 1 \in Nat /\ (k + 1) + 1 <= Len(msgs)
        BY <1>0
      <4> QED BY <1>0, EndsMonotone
    <3> QED BY <1>0, <1>1, <2>1, <2>2, <3>1, <3>2
  <2>4. Ends(k) \in Nat /\ Ends(k) + 2 <= Ends(k + 1)
    <3>1. Ends(k) \in Nat /\ (Ends(k + 1) = Ends(k) + Long + 1 \/ Ends(k + 1) = Ends(k) + 2)
      BY EndsGrow
    <3> QED BY <3>1, LineAssumption
  <2> QED BY <1>0, <1>4, <2>1, <2>3, <2>4
<1> QED BY <1>3, <1>4

\* With the end of the input the last line is handed on, or reported already.
LEMMA EndTallies ==
    ASSUME McpTypeOK, transport = "stdio", Lines, EndOfInput
    PROVE  Tally(Len(msgs), 0)'
<1>0. /\ Len(msgs) \in Nat /\ fed \in Nat /\ discarding \in BOOLEAN /\ errors \in Nat
      /\ from \in 0 .. fed /\ DOMAIN msgs = 1 .. Len(msgs) /\ closed \in BOOLEAN
  BY DEF McpTypeOK
<1>1. /\ phase = "reading" /\ pending = <<>> /\ fed = Input
      /\ handled' = handled /\ errors' = errors /\ UNCHANGED <<msgs, long>>
      /\ pending' = IF from < fed /\ ~discarding THEN <<Line(from, Len(msgs))>> ELSE <<>>
  BY DEF EndOfInput, inputVars
<1>2. PICK k \in Nat : ReadSoFar(k)
  BY <1>1 DEF Lines
<1>3. LinesBy(fed, k) /\ Ends(k) <= from /\ (discarding => k < Len(msgs) /\ k + 1 \in long)
      /\ (~discarding => from = Ends(k)) /\ Tally(k, IF discarding THEN 1 ELSE 0)
  BY <1>2 DEF ReadSoFar
<1>4. /\ closed => k = Len(msgs) /\ fed = Ends(k)
      /\ ~closed => k + 1 = Len(msgs) /\ Ends(k) < fed
  <2>1. msgs = <<>> => closed
    BY DEF Lines
  <2> QED BY <1>1, <1>3, <2>1, LastLine
<1>5. Waiting = {} /\ Garbled' = Garbled
  BY <1>1 DEF Waiting, Garbled
<1>6. Taken' = Taken \cup Waiting'
  BY <1>1, <1>5 DEF Taken
<1>7. /\ Taken \subseteq 1 .. k /\ (1 .. k) \ Taken \subseteq long
      /\ errors = Cardinality((1 .. k) \ Taken) + Cardinality(Garbled) + (IF discarding THEN 1 ELSE 0)
  BY <1>3 DEF Tally
<1>8. IsFiniteSet((1 .. k) \ Taken) /\ Cardinality((1 .. k) \ Taken) \in Nat /\ Cardinality(Garbled) \in Nat
  <2>1. (1 .. k) \ Taken \in SUBSET (1 .. k) /\ IsFiniteSet(1 .. k)
    BY FS_Interval
  <2>2. Garbled \in SUBSET (1 .. Len(handled)) /\ IsFiniteSet(1 .. Len(handled))
    BY FS_Interval DEF Garbled, McpTypeOK
  <2>3. IsFiniteSet((1 .. k) \ Taken) /\ IsFiniteSet(Garbled)
    BY <2>1, <2>2, FS_Subset
  <2> QED BY <2>3, FS_CardinalityType
<1>9. CASE closed
  <2>1. ~discarding /\ k = Len(msgs) /\ from = fed
    <3>1. k = Len(msgs) /\ fed = Ends(k)
      BY <1>4, <1>9
    <3>2. from = fed
      BY <1>0, <1>3, <3>1
    <3>3. ~(k < Len(msgs))
      BY <1>0, <3>1
    <3> QED BY <1>3, <3>1, <3>2, <3>3
  <2>2. pending' = <<>>
    BY <1>0, <1>1, <2>1
  <2>3. Taken' = Taken
    BY <1>6, <2>2 DEF Waiting
  <2>4. errors' = Cardinality((1 .. k) \ Taken) + Cardinality(Garbled) + 0
    BY <1>1, <1>7, <1>8, <2>1
  <2> QED BY <1>1, <1>5, <1>7, <2>1, <2>3, <2>4 DEF Tally
<1>10. CASE ~closed /\ discarding
  <2>1. pending' = <<>> /\ k + 1 = Len(msgs) /\ k + 1 \in long
    BY <1>1, <1>3, <1>4, <1>10
  <2>2. Taken' = Taken
    BY <1>6, <2>1 DEF Waiting
  <2>3. 1 .. k + 1 = (1 .. k) \cup {k + 1} /\ k + 1 \notin 1 .. k
    OBVIOUS
  <2>4. (1 .. k + 1) \ Taken = ((1 .. k) \ Taken) \cup {k + 1}
    BY <1>7, <2>3
  <2>5. Cardinality((1 .. k + 1) \ Taken) = Cardinality((1 .. k) \ Taken) + 1
    BY <1>8, <2>3, <2>4, FS_AddElement
  <2>6. errors' = Cardinality((1 .. k + 1) \ Taken) + Cardinality(Garbled) + 0
    BY <1>1, <1>7, <1>8, <1>10, <2>5
  <2>7. Taken \subseteq 1 .. k + 1 /\ (1 .. k + 1) \ Taken \subseteq long
    BY <1>7, <2>1, <2>3, <2>4
  <2> QED BY <1>1, <1>5, <2>1, <2>2, <2>6, <2>7 DEF Tally
<1>11. CASE ~closed /\ ~discarding
  <2>1. pending' = <<Line(from, Len(msgs))>> /\ k + 1 = Len(msgs)
    BY <1>0, <1>1, <1>3, <1>4, <1>11
  <2>2. Waiting' = {k + 1}
    BY <2>1 DEF Waiting, Line
  <2>3. 1 .. k + 1 = (1 .. k) \cup {k + 1} /\ k + 1 \notin 1 .. k
    OBVIOUS
  <2>4. (1 .. k + 1) \ Taken' = (1 .. k) \ Taken /\ Taken' \subseteq 1 .. k + 1
    BY <1>6, <1>7, <2>2, <2>3
  <2>5. errors' = Cardinality((1 .. k + 1) \ Taken') + Cardinality(Garbled) + 0
    BY <1>1, <1>7, <1>8, <1>11, <2>4
  <2> QED BY <1>1, <1>5, <1>7, <2>1, <2>4, <2>5 DEF Tally
<1> QED BY <1>9, <1>10, <1>11

\* What is handed on is whole, beyond all before it, and in order.
LEMMA OrderedChunk ==
    ASSUME McpTypeOK, transport = "stdio", Lines, Ordered, NEW t \in Nat, Chunk(t)
    PROVE  Ordered'
<1>0. Len(msgs) \in Nat /\ fed \in Nat /\ discarding \in BOOLEAN /\ DOMAIN handled = 1 .. Len(handled)
  BY DEF McpTypeOK
<1>1. /\ phase = "reading" /\ pending = <<>> /\ UNCHANGED <<msgs, handled, answers>>
  BY DEF Chunk, inputVars
<1>2. PICK k \in Nat : ReadSoFar(k)
  BY <1>1 DEF Lines
<1>3. LinesBy(fed, k) /\ (~discarding => from = Ends(k)) /\ Taken \subseteq 1 .. k
  BY <1>2 DEF ReadSoFar, Tally
<1>4. PICK m \in Nat : LinesBy(t, m)
  BY <1>0, SomeLinesEnd
<1>5. PICK first \in Nat : first = IF discarding THEN k + 2 ELSE k + 1
  OBVIOUS
<1>6. Pushed(k, m, t, first)
  BY <1>3, <1>4, <1>5, ChunkLines
<1>7. \A n \in DOMAIN handled : handled[n] \in 1 .. k
  BY <1>3 DEF Taken, ToSet
<1>8. CASE pending' = <<>>
  BY <1>1, <1>8 DEF Ordered
<1>9. CASE pending' # <<>>
  <2>1. /\ DOMAIN pending' = 1 .. m - first + 1
        /\ \A n \in 1 .. m - first + 1 :
              /\ pending'[n].msg = n + (first - 1)
              /\ (n + (first - 1) # k + 1 \/ from = Ends(k)) => pending'[n].whole
    BY <1>6, <1>9 DEF Pushed
  <2>2. \A n \in 1 .. m - first + 1 : pending'[n].whole
    <3>1. CASE discarding
      <4>1. \A n \in 1 .. m - first + 1 : n + (first - 1) # k + 1
        BY <1>5, <3>1
      <4> QED BY <2>1, <4>1
    <3>2. CASE ~discarding
      BY <1>3, <2>1, <3>2
    <3> QED BY <1>0, <3>1, <3>2
  <2>3. \A n \in 1 .. m - first + 1 : pending'[n].msg > k
    <3>1. \A n \in 1 .. m - first + 1 : n + (first - 1) > k
      BY <1>5
    <3> QED BY <2>1, <3>1
  <2>4. \A n \in DOMAIN handled', p \in DOMAIN pending' : handled'[n] < pending'[p].msg
    <3> SUFFICES ASSUME NEW n \in DOMAIN handled, NEW p \in 1 .. m - first + 1
                 PROVE  handled[n] < pending'[p].msg
      BY <1>1, <2>1
    <3>1. handled[n] \in 1 .. k /\ pending'[p].msg > k /\ pending'[p].msg = p + (first - 1)
      BY <1>7, <2>1, <2>3
    <3> QED BY <3>1
  <2>5. \A p, n \in DOMAIN pending' : p < n => pending'[p].msg < pending'[n].msg
    <3> SUFFICES ASSUME NEW p \in 1 .. m - first + 1, NEW n \in 1 .. m - first + 1, p < n
                 PROVE  pending'[p].msg < pending'[n].msg
      BY <2>1
    <3>1. pending'[p].msg = p + (first - 1) /\ pending'[n].msg = n + (first - 1)
      BY <2>1
    <3> QED BY <3>1
  <2>6. /\ Increasing(handled') /\ Increasing(answers')
        /\ ToSet(answers') = {i \in ToSet(handled') : Answered(msgs'[i])}
    BY <1>1 DEF Ordered
  <2> QED BY <2>1, <2>2, <2>4, <2>5, <2>6 DEF Ordered
<1> QED BY <1>8, <1>9

LEMMA OrderedEnd ==
    ASSUME McpTypeOK, transport = "stdio", Lines, Ordered, EndOfInput
    PROVE  Ordered'
<1>0. /\ Len(msgs) \in Nat /\ fed \in Nat /\ discarding \in BOOLEAN /\ from \in 0 .. fed
      /\ closed \in BOOLEAN
  BY DEF McpTypeOK
<1>1. /\ phase = "reading" /\ pending = <<>> /\ fed = Input /\ UNCHANGED <<msgs, handled, answers>>
      /\ pending' = IF from < fed /\ ~discarding THEN <<Line(from, Len(msgs))>> ELSE <<>>
  BY DEF EndOfInput, inputVars
<1>2. PICK k \in Nat : ReadSoFar(k)
  BY <1>1 DEF Lines
<1>3. LinesBy(fed, k) /\ (~discarding => from = Ends(k)) /\ Taken \subseteq 1 .. k
  BY <1>2 DEF ReadSoFar, Tally
<1>4. /\ closed => k = Len(msgs) /\ fed = Ends(k)
      /\ ~closed => k + 1 = Len(msgs) /\ Ends(k) < fed
  <2>1. msgs = <<>> => closed
    BY DEF Lines
  <2> QED BY <1>1, <1>3, <2>1, LastLine
<1>5. CASE pending' = <<>>
  BY <1>1, <1>5 DEF Ordered
<1>6. CASE pending' # <<>>
  <2>1. pending' = <<Line(from, Len(msgs))>> /\ from = Ends(k) /\ from < fed
    BY <1>1, <1>3, <1>6
  <2>2. k + 1 = Len(msgs) /\ Len(msgs) - 1 = k
    BY <1>0, <1>4, <2>1
  <2>3. Line(from, Len(msgs)) = [msg |-> k + 1, whole |-> TRUE]
    BY <2>1, <2>2 DEF Line
  <2>4. pending' = <<[msg |-> k + 1, whole |-> TRUE]>>
    BY <2>1, <2>3
  <2>5. DOMAIN pending' = {1} /\ pending'[1].msg = k + 1 /\ pending'[1].whole
    BY <2>4
  <2>6. \A n \in DOMAIN handled : handled[n] < k + 1
    <3>1. \A n \in DOMAIN handled : handled[n] \in 1 .. k
      BY <1>3 DEF Taken, ToSet
    <3> QED BY <3>1
  <2>7. /\ Increasing(handled') /\ Increasing(answers')
        /\ ToSet(answers') = {i \in ToSet(handled') : Answered(msgs'[i])}
    BY <1>1 DEF Ordered
  <2>8. \A n \in DOMAIN handled', p \in DOMAIN pending' : handled'[n] < pending'[p].msg
    BY <1>1, <2>5, <2>6
  <2> HIDE DEF Ordered
  <2>9. /\ \A p, n \in DOMAIN pending' : p < n => pending'[p].msg < pending'[n].msg
        /\ \A p \in DOMAIN pending' : pending'[p].whole
    BY <2>5
  <2> QED BY <2>7, <2>8, <2>9 DEF Ordered
<1> QED BY <1>5, <1>6

LEMMA OrderKept ==
    ASSUME McpTypeOK, StdioPhases, PostInv, Ordered, Lines, [McpNext]_vars
    PROVE  Ordered'
<1>0. msgs' = msgs /\ msgs \in Seq(Message)
  BY RoutesFixed DEF inputVars, McpTypeOK
<1>1. ASSUME UNCHANGED <<pending, handled, answers>> PROVE Ordered'
  BY <1>0, <1>1 DEF Ordered
<1>2. CASE ~Mcp
  BY <1>1, <1>2, BesideMcp DEF mcpVars
<1>3. CASE (\E p \in Principals : ResolveBearer(p)) \/ RefusePost \/ FinishPost \/ FinishStdio
  BY <1>1, <1>3 DEF ResolveBearer, RefusePost, FinishPost, FinishStdio, End
<1>4. CASE GatePost
  <2>1. transport = "post" /\ phase = "reading" /\ UNCHANGED <<handled, answers>>
    BY <1>4 DEF GatePost, End
  <2>2. CASE SomeGated(msgs)
    BY <1>1, <1>4, <2>1, <2>2 DEF GatePost
  <2>3. CASE ~SomeGated(msgs)
    <3>1. pending' = [i \in DOMAIN msgs |-> [msg |-> i, whole |-> TRUE]]
      BY <1>4, <2>3 DEF GatePost
    <3>2. handled = <<>> /\ DOMAIN handled = {}
      BY <2>1 DEF PostInv
    <3>3. /\ \A m, n \in DOMAIN pending' : m < n => pending'[m].msg < pending'[n].msg
          /\ \A m \in DOMAIN pending' : pending'[m].whole
      BY <3>1
    <3> QED BY <1>0, <2>1, <3>2, <3>3 DEF Ordered
  <2> QED BY <2>2, <2>3
<1>5. CASE \E t \in Nat : Chunk(t)
  BY <1>5, OrderedChunk DEF Chunk
<1>6. CASE EndOfInput
  BY <1>6, OrderedEnd DEF EndOfInput
<1>7. CASE Take
  BY <1>7, OrderedTake
<1>8. CASE UNCHANGED mcpVars
  BY <1>1, <1>8 DEF mcpVars
<1>9. CASE Escape
  <2>1. pending' = <<>> /\ DOMAIN pending' = {} /\ UNCHANGED <<handled, answers>>
    BY <1>9 DEF Escape
  <2> QED BY <1>0, <2>1 DEF Ordered
<1> QED BY <1>2, <1>3, <1>4, <1>5, <1>6, <1>7, <1>8, <1>9, McpSteps

\* What a step leaves of the count and of the line buffer.
LEMMA SameTally ==
    ASSUME UNCHANGED <<msgs, long, handled, pending, errors>>, NEW k, NEW e, Tally(k, e)
    PROVE  Tally(k, e)'
BY DEF Tally, Taken, Waiting, Garbled

LEMMA SameInput ==
    ASSUME UNCHANGED inputVars
    PROVE  Input' = Input /\ \A i : Ends(i)' = Ends(i)
BY DEF Input, Ends, inputVars

LEMMA LinesKept ==
    ASSUME McpTypeOK, StdioPhases, PostInv, Ordered, Lines, [McpNext]_vars
    PROVE  Lines'
<1>0. UNCHANGED inputVars
  BY RoutesFixed
<1>1. CASE transport # "stdio"
  BY <1>0, <1>1 DEF Lines, inputVars
<1>2. CASE transport = "stdio"
  <2>1. /\ msgs = <<>> => closed
        /\ fed <= Input
        /\ phase = "over" => pending = <<>>
        /\ phase = "reading" => \E k \in Nat : ReadSoFar(k)
        /\ phase \in {"serving", "over"} => Tally(Len(msgs), 0)
    BY <1>2 DEF Lines
  <2>2. UNCHANGED <<transport, msgs, long, closed>> /\ Input' = Input
    BY <1>0, SameInput DEF inputVars
  <2>3. ASSUME UNCHANGED mcpVars PROVE Lines'
    <3>1. \A k : ReadSoFar(k)' = ReadSoFar(k)
      BY <2>2, <2>3 DEF ReadSoFar, LinesBy, Ends, Tally, Taken, Waiting, Garbled, mcpVars, lineVars
    <3>2. Tally(Len(msgs), 0)' = Tally(Len(msgs), 0)
      BY <2>2, <2>3 DEF Tally, Taken, Waiting, Garbled, mcpVars, lineVars
    <3>3. UNCHANGED <<fed, phase, pending>>
      BY <2>3 DEF mcpVars, lineVars
    <3> QED BY <2>1, <2>2, <3>1, <3>2, <3>3 DEF Lines
  <2>4. CASE ~Mcp
    BY <2>3, <2>4, BesideMcp
  <2>5. ~RefusePost /\ ~GatePost /\ ~FinishPost /\ ~(\E p \in Principals : ResolveBearer(p))
    BY <1>2 DEF RefusePost, GatePost, FinishPost, ResolveBearer
  <2>6. CASE FinishStdio
    <3>1. /\ phase = "serving" /\ phase' = "over" /\ pending = <<>>
          /\ UNCHANGED <<fed, errors, handled, pending>>
      BY <2>6 DEF FinishStdio, End, lineVars
    <3>2. Tally(Len(msgs), 0)'
      BY <2>1, <2>2, <3>1, SameTally
    <3> QED BY <2>1, <2>2, <3>1, <3>2 DEF Lines
  <2>7. ASSUME NEW t \in Nat, Chunk(t) PROVE Lines'
    <3>1. \E m \in Nat : ReadSoFar(m)'
      BY <1>2, <2>7, ChunkTallies
    <3>2. phase' = "reading" /\ fed' = t /\ t \in fed + 1 .. Input
      BY <2>7 DEF Chunk
    <3> QED BY <2>1, <2>2, <3>1, <3>2 DEF Lines
  <2>8. CASE EndOfInput
    <3>1. Tally(Len(msgs), 0)'
      BY <1>2, <2>8, EndTallies
    <3>2. phase' = "serving" /\ fed' = fed
      BY <2>8 DEF EndOfInput
    <3> QED BY <2>1, <2>2, <3>1, <3>2 DEF Lines
  <2>9. CASE Take
    <3>1. phase' = phase /\ fed' = fed /\ from' = from /\ discarding' = discarding /\ pending # <<>>
      BY <2>9 DEF Take
    <3>2. ASSUME NEW k \in Nat, ReadSoFar(k) PROVE ReadSoFar(k)'
      <4>1. Tally(k, IF discarding THEN 1 ELSE 0)'
        <5>1. PICK e \in Nat : e = IF discarding THEN 1 ELSE 0
          OBVIOUS
        <5>2. Tally(k, e)'
          BY <2>9, <3>2, <5>1, TakeTallies DEF ReadSoFar
        <5> QED BY <3>1, <5>1, <5>2 DEF Tally
      <4>2. Ends(k)' = Ends(k) /\ LinesBy(fed, k)'
        BY <2>2, <3>1, <3>2 DEF Ends, LinesBy, ReadSoFar
      <4> QED BY <2>2, <3>1, <3>2, <4>1, <4>2 DEF ReadSoFar
    <3>3. ASSUME Tally(Len(msgs), 0) PROVE Tally(Len(msgs), 0)'
      <4>1. Len(msgs) \in Nat
        BY DEF McpTypeOK
      <4> QED BY <2>2, <2>9, <3>3, <4>1, TakeTallies DEF Tally
    <3> QED BY <2>1, <2>2, <3>1, <3>2, <3>3 DEF Lines
  <2>10. CASE Escape
    <3>1. phase' = "failed" /\ fed' = fed
      BY <2>10 DEF Escape, lineVars
    <3> QED BY <2>1, <2>2, <3>1 DEF Lines
  <2> QED BY <2>3, <2>4, <2>5, <2>6, <2>7, <2>8, <2>9, <2>10, McpSteps
<1> QED BY <1>1, <1>2

-----------------------------------------------------------------------------
(* What a throw that nothing catches leaves behind                         *)

\* No two messages call alike.
Apart ==
    \A i, j \in DOMAIN msgs :
        (i # j /\ Dispatched(msgs[i]) /\ Dispatched(msgs[j])) => msgs[i].call # msgs[j].call

\* Only the first message waiting, and those handled, have run.
Untouched ==
    \A j \in DOMAIN msgs :
        (Dispatched(msgs[j]) /\ j \notin ToSet(handled) /\ (pending # <<>> => j # First.msg))
            => stage[msgs[j].call] = "idle"

StopInv ==
    /\ Apart
    /\ phase # "failed" => Untouched
    /\ phase = "failed" => pending = <<>> /\ \E i \in DOMAIN msgs : StoppedAt(i)

\* Where a throw ends it, the messages before are handled or were dropped.
LEMMA EscapeStops ==
    ASSUME McpTypeOK, PostInv, StdioPhases, Ordered, Lines, Untouched, phase # "failed",
           Whole, Escape
    PROVE  StoppedAt(First.msg)
<1> DEFINE i == First.msg
<1>1. /\ i \in DOMAIN msgs /\ First = pending[1] /\ 1 \in DOMAIN pending /\ pending # <<>>
      /\ Uncaught(msgs[i]) /\ DOMAIN msgs = 1 .. Len(msgs) /\ Len(msgs) \in Nat
  <2>1. pending # <<>> /\ Uncaught(Current)
    BY DEF Whole, Escape
  <2> QED BY <2>1, PendingMessage, TailFacts DEF McpTypeOK
<1>2. /\ \A n \in DOMAIN handled : handled[n] < i
      /\ \A m \in DOMAIN pending : i <= pending[m].msg
  <2>1. \A m \in DOMAIN pending : pending[m].msg \in DOMAIN msgs
    <3>1. pending \in Seq([msg : DOMAIN msgs, whole : BOOLEAN])
      BY DEF McpTypeOK
    <3>2. \A m \in DOMAIN pending : pending[m] \in [msg : DOMAIN msgs, whole : BOOLEAN]
      BY <3>1, ElementFacts
    <3> QED BY <3>2
  <2>2. DOMAIN pending = 1 .. Len(pending) /\ Len(pending) \in Nat
    BY DEF McpTypeOK
  <2>3. \A m \in DOMAIN pending : m = 1 \/ 1 < m
    BY <2>2
  <2> QED BY <1>1, <2>1, <2>3 DEF Ordered
<1>3. DOMAIN handled = 1 .. Len(handled) /\ Len(handled) \in Nat
  BY DEF McpTypeOK
<1> HIDE DEF i
<1>4. ASSUME NEW j \in Unhandled, j < i PROVE transport = "stdio" /\ j \in long
  <2>1. j \in 1 .. Len(msgs) /\ i \in 1 .. Len(msgs) /\ \A n \in DOMAIN handled : handled[n] # j
    BY <1>1, <1>4 DEF Unhandled
  <2>2. CASE transport = "post"
    <3>1. phase = "serving"
      BY <1>1, <2>2 DEF PostInv
    <3>2. /\ \A n \in 1 .. Len(handled) : handled[n] = n
          /\ pending[1].msg = Len(handled) + 1
      <4>1. 1 \in 1 .. Len(pending)
        <5>1. DOMAIN pending = 1 .. Len(pending)
          BY TailFacts, <1>1 DEF McpTypeOK
        <5> QED BY <1>1, <5>1
      <4> QED BY <2>2, <3>1, <4>1 DEF PostInv
    <3>3. j \in 1 .. Len(handled)
      BY <1>1, <1>3, <1>4, <2>1, <3>2 DEF i
    <3> QED BY <1>3, <2>1, <3>2, <3>3
  <2>3. ASSUME transport = "stdio", NEW k \in Nat, NEW e, Tally(k, e) PROVE j \in long
    <3>1. i \in Waiting
      BY <1>1 DEF Waiting, i
    <3>2. j \in 1 .. k
      BY <1>4, <2>1, <2>3, <3>1 DEF Tally, Taken
    <3>3. j \notin ToSet(handled)
      BY <2>1 DEF ToSet
    <3>4. j \notin Waiting
      BY <1>1, <1>2, <1>4, <2>1 DEF Waiting, McpTypeOK
    <3> QED BY <2>3, <3>2, <3>3, <3>4 DEF Tally, Taken
  <2>4. CASE transport = "stdio"
    <3>1. phase \in {"reading", "serving"}
      BY <1>1, <2>4 DEF Lines, StdioPhases
    <3>2. CASE phase = "reading"
      <4>1. PICK k \in Nat : ReadSoFar(k)
        BY <2>4, <3>2 DEF Lines
      <4>2. Tally(k, IF discarding THEN 1 ELSE 0)
        BY <4>1 DEF ReadSoFar
      <4> QED BY <2>3, <2>4, <4>2
    <3>3. CASE phase = "serving"
      <4>1. Tally(Len(msgs), 0)
        BY <2>4, <3>3 DEF Lines
      <4> QED BY <1>1, <2>3, <2>4, <4>1
    <3> QED BY <3>1, <3>2, <3>3
  <2> QED BY <2>2, <2>4 DEF McpTypeOK
<1>5. ASSUME NEW j \in DOMAIN msgs, j > i, Dispatched(msgs[j]) PROVE stage[msgs[j].call] = "idle"
  <2>1. j \notin ToSet(handled)
    <3>1. \A n \in DOMAIN handled : handled[n] # j
      BY <1>1, <1>2, <1>3, <1>5 DEF McpTypeOK
    <3> QED BY <3>1 DEF ToSet
  <2>2. j # First.msg
    BY <1>1, <1>5 DEF i
  <2> QED BY <1>5, <2>1, <2>2 DEF Untouched
<1> QED BY <1>1, <1>2, <1>4, <1>5 DEF StoppedAt, i

\* What is handled only grows, and the first message leaves by being handled.
LEMMA StaysUntouched ==
    ASSUME Untouched, msgs' = msgs, stage' = stage, ToSet(handled) \subseteq ToSet(handled'),
           pending # <<>> => First.msg \in ToSet(handled')
    PROVE  Untouched'
BY DEF Untouched, Dispatched

LEMMA StopKept ==
    ASSUME McpTypeOK, PostInv, StdioPhases, Ordered, Lines, StopInv, [McpNext]_vars
    PROVE  StopInv'
<1>0. UNCHANGED inputVars /\ msgs' = msgs /\ transport' = transport /\ long' = long
      /\ msgs \in Seq(Message) /\ Apart'
  BY RoutesFixed DEF inputVars, McpTypeOK, StopInv, Apart, Dispatched
<1>1. ASSUME UNCHANGED <<phase, pending, handled>>,
             \A c \in CalledBy(msgs) : stage[c] = "idle" => stage'[c] = "idle"
      PROVE  StopInv'
  <2>1. \A j \in DOMAIN msgs : Dispatched(msgs[j]) => msgs[j].call \in CalledBy(msgs)
    BY DEF CalledBy
  <2>2. phase # "failed" => Untouched'
    BY <1>0, <1>1, <2>1 DEF StopInv, Untouched, Dispatched, First
  <2>3. ASSUME NEW i \in DOMAIN msgs, StoppedAt(i) PROVE StoppedAt(i)'
    BY <1>0, <1>1, <2>1, <2>3 DEF StoppedAt, Unhandled, Uncaught, Dispatched
  <2> QED BY <1>0, <1>1, <2>2, <2>3 DEF StopInv
<1>2. CASE ~Mcp
  <2>1. CalledBy(msgs) \subseteq Calls
    BY <1>0, CallsOfMessages
  <2> QED BY <1>1, <1>2, <2>1, BesideMcp DEF mcpVars
<1>3. ASSUME phase # "failed", phase' # "failed", stage' = stage, handled' = handled, pending = <<>>
      PROVE  StopInv'
  BY <1>0, <1>3, StaysUntouched DEF StopInv
<1>4. CASE \E p \in Principals : ResolveBearer(p)
  BY <1>1, <1>4 DEF ResolveBearer, served, routeVars
<1>5. CASE RefusePost \/ GatePost \/ FinishPost \/ FinishStdio
  <2>1. pending = <<>>
    BY <1>5 DEF RefusePost, GatePost, FinishPost, FinishStdio, PostInv
  <2>2. phase # "failed" /\ phase' # "failed" /\ stage' = stage /\ handled' = handled
    BY <1>5 DEF RefusePost, GatePost, FinishPost, FinishStdio, End, served, routeVars
  <2> QED BY <1>3, <2>1, <2>2
<1>6. CASE EndOfInput \/ \E t \in Nat : Chunk(t)
  <2>1. /\ pending = <<>> /\ phase # "failed" /\ phase' # "failed" /\ stage' = stage
        /\ handled' = handled
    BY <1>6 DEF EndOfInput, Chunk, served, routeVars
  <2> QED BY <1>3, <2>1
<1>7. CASE Take /\ UNCHANGED served
  <2>1. /\ pending # <<>> /\ phase' = phase /\ handled' = Append(handled, First.msg)
        /\ stage' = stage
    BY <1>7 DEF Take, served, routeVars
  <2>2. ToSet(handled') = ToSet(handled) \cup {First.msg}
    BY <2>1, PendingMessage, AppendFacts DEF McpTypeOK
  <2>3. phase # "failed"
    BY <2>1 DEF StopInv
  <2> QED BY <1>0, <2>1, <2>2, <2>3, StaysUntouched DEF StopInv
<1>8. CASE Whole /\ Escape
  <2>1. /\ pending # <<>> /\ phase' = "failed" /\ pending' = <<>> /\ handled' = handled
        /\ stage' = stage
    BY <1>8 DEF Whole, Escape, served, routeVars
  <2>2. phase # "failed" /\ Untouched
    BY <2>1 DEF StopInv
  <2>3. StoppedAt(First.msg) /\ First.msg \in DOMAIN msgs
    BY <1>8, <2>1, <2>2, EscapeStops, PendingMessage
  <2>4. ASSUME NEW i \in DOMAIN msgs, StoppedAt(i) PROVE StoppedAt(i)'
    BY <1>0, <2>1, <2>4 DEF StoppedAt, Unhandled, Uncaught, Dispatched
  <2> QED BY <1>0, <2>1, <2>3, <2>4 DEF StopInv
<1>9. ASSUME pending # <<>>, UNCHANGED mcpVars, Dispatched(Current), NEW p, Route(Current.call, p)
      PROVE  StopInv'
  <2>1. phase # "failed" /\ phase' = phase /\ pending' = pending /\ handled' = handled
    BY <1>9 DEF StopInv, mcpVars
  <2>2. First.msg \in DOMAIN msgs /\ Current = msgs[First.msg]
    BY <1>9, PendingMessage
  <2>3. \A c : c \in Calls /\ c # Current.call => stage'[c] = stage[c]
    BY <1>9 DEF Route, McpTypeOK, RoutesTypeOK
  <2>4. ASSUME NEW j \in DOMAIN msgs, Dispatched(msgs[j]), j # First.msg
        PROVE  stage'[msgs[j].call] = stage[msgs[j].call]
    <3>1. msgs[j].call \in Calls
      <4>1. msgs[j].call \in CalledBy(msgs)
        BY <2>4 DEF CalledBy
      <4> QED BY <1>0, <4>1, CallsOfMessages
    <3>2. msgs[j].call # Current.call
      BY <1>9, <2>2, <2>4 DEF StopInv, Apart
    <3> QED BY <2>3, <3>1, <3>2
  <2>5. Untouched'
    BY <1>0, <1>9, <2>1, <2>4 DEF StopInv, Untouched, Dispatched, First
  <2> QED BY <1>0, <2>1, <2>5 DEF StopInv
<1> QED BY <1>2, <1>4, <1>5, <1>6, <1>7, <1>8, <1>9, McpSteps

LEMMA McpInitInv ==
    McpInit => /\ PostInv /\ StdioPhases /\ Ordered /\ Lines /\ StopInv
               /\ \A c \in Calls : Routed(c)
<1> SUFFICES ASSUME McpInit
             PROVE  /\ PostInv /\ StdioPhases /\ Ordered /\ Lines /\ StopInv
                    /\ \A c \in Calls : Routed(c)
  OBVIOUS
<1>0. /\ msgs \in Seq(Message) /\ phase = "reading" /\ transport \in {"post", "stdio"}
      /\ pending = <<>> /\ handled = <<>> /\ answers = <<>> /\ errors = 0
      /\ fed = 0 /\ from = 0 /\ discarding = FALSE /\ closed \in BOOLEAN /\ (msgs = <<>> => closed)
      /\ stage = [c \in Calls |-> "idle"] /\ status = [c \in Calls |-> 0]
      /\ pc = [c \in Calls |-> "idle"]
  BY DEF McpInit, RoutesInit, CallsInit
<1>1. PostInv /\ StdioPhases
  BY <1>0, CallsOfMessages DEF PostInv, StdioPhases
<1>2. Ordered
  BY <1>0 DEF Ordered, Increasing, ToSet
<1>3. \A c \in Calls : Routed(c)
  <2> TAKE c \in Calls
  <2>1. stage[c] = "idle" /\ status[c] = 0 /\ pc[c] = "idle" /\ (op[c] # "library" => kind[c] = KindOf(op[c]))
    BY <1>0 DEF McpInit, RoutesInit
  <2>2. AnsweredTruly(c)
    BY <2>1, StatusesDiffer DEF AnsweredTruly
  <2> QED BY <2>1, <2>2 DEF Routed
<1>4. Lines
  <2>0. Len(msgs) \in Nat /\ Ends(Len(msgs)) \in Nat /\ (Len(msgs) = 0 => msgs = <<>>)
    BY <1>0, EndsGrow
  <2>1. 0 <= Input
    <3>1. CASE Len(msgs) = 0
      BY <1>0, <2>0, <3>1 DEF Input
    <3>2. CASE Len(msgs) # 0
      <4>1. Ends(1) <= Ends(Len(msgs)) /\ Ends(1) \in Nat /\ Ends(0) + 2 <= Ends(0 + 1)
        <5>1. Ends(0 + 1) = Ends(0) + Long + 1 \/ Ends(0 + 1) = Ends(0) + 2
          BY EndsGrow
        <5>2. 1 \in Nat /\ 1 <= Len(msgs) /\ 0 + 1 = 1
          BY <2>0, <3>2
        <5>3. Ends(0) \in Nat /\ Ends(1) \in Nat
          BY EndsGrow
        <5>4. Ends(1) <= Ends(Len(msgs))
          BY <2>0, <5>2, EndsMonotone
        <5> QED BY <5>1, <5>3, <5>4, LineAssumption
      <4> QED BY <1>0, <2>0, <4>1, EndsFromZero DEF Input
    <3> QED BY <3>1, <3>2
  <2>2. LinesBy(fed, 0)
    <3>1. Ends(0 + 1) = Ends(0) + Long + 1 \/ Ends(0 + 1) = Ends(0) + 2
      BY EndsGrow
    <3> QED BY <1>0, <2>0, <3>1, EndsFromZero, LineAssumption DEF LinesBy
  <2>3. Tally(0, 0)
    <3>1. Taken = {} /\ Garbled = {} /\ (1 .. 0) \ Taken = {}
      BY <1>0 DEF Taken, Waiting, Garbled, ToSet
    <3>2. Cardinality({}) = 0
      BY FS_EmptySet
    <3> QED BY <1>0, <3>1, <3>2 DEF Tally
  <2>4. ReadSoFar(0)
    BY <1>0, <2>2, <2>3, EndsFromZero DEF ReadSoFar
  <2> QED BY <1>0, <2>1, <2>4 DEF Lines
<1>5. StopInv
  <2>1. Apart
    BY DEF McpInit, Apart
  <2>2. \A j \in DOMAIN msgs : Dispatched(msgs[j]) => msgs[j].call \in Calls
    <3>1. \A j \in DOMAIN msgs : Dispatched(msgs[j]) => msgs[j].call \in CalledBy(msgs)
      BY DEF CalledBy
    <3> QED BY <1>0, <3>1, CallsOfMessages
  <2> QED BY <1>0, <2>1, <2>2 DEF StopInv, Untouched
<1> QED BY <1>1, <1>2, <1>3, <1>4, <1>5

\* The inductive invariant of the server over the routes and the store.
McpInv ==
    /\ McpTypeOK /\ ChainInv
    /\ \A c \in Calls : Routed(c)
    /\ StdioPhases /\ PostInv /\ Ordered /\ Lines /\ StopInv

LEMMA McpInvHolds == McpSpec => []McpInv
<1>1. McpInit => McpInv
  BY McpInitTypes, McpInitInv DEF McpInv
<1>2. McpInv /\ [McpNext]_vars => McpInv'
  <2> SUFFICES ASSUME McpInv, [McpNext]_vars PROVE McpInv'
    OBVIOUS
  <2>1. /\ McpTypeOK /\ ChainInv /\ (\A c \in Calls : Routed(c))
        /\ StdioPhases /\ PostInv /\ Ordered /\ Lines /\ StopInv
        /\ RoutesTypeOK /\ CallsTypeOK
    BY DEF McpInv, McpTypeOK, RoutesTypeOK
  <2>2. McpTypeOK' /\ ChainInv'
    BY <2>1, McpTypes, ServedChain
  <2>3. \A c \in Calls : Routed(c)'
    BY <2>1, ServedRouted
  <2>4. StdioPhases' /\ PostInv' /\ Ordered' /\ Lines' /\ StopInv'
    BY <2>1, PostKept, OrderKept, LinesKept, StopKept
  <2> QED BY <2>2, <2>3, <2>4 DEF McpInv
<1> QED BY <1>1, <1>2, PTL DEF McpSpec

\* Behind the routes as before them, a version names one content.
THEOREM ServedVersionsNameContents == McpSpec => []VersionNamesContent
<1>1. McpInv => VersionNamesContent
  BY DEF McpInv, ChainInv, VersionNamesContent
<1> QED BY <1>1, McpInvHolds, PTL

\* No patch, and with tombstones no guarded update, whoever makes it, drops an
\* edit that is stored when it takes effect.
THEOREM ServedNoEditIsLost == McpSpec => NoLostEdit
<1>1. McpInv /\ [McpNext]_vars
        => [ \A c \in Calls :
              (/\ kind[c] \in Patches \/ (soft /\ kind[c] = "updateIf")
               /\ pc[c] # "ok" /\ pc'[c] = "ok" /\ row.st = "live")
              => row.val \subseteq row'.val ]_callVars
  <2> SUFFICES ASSUME McpInv, [McpNext]_vars, ~UNCHANGED callVars, NEW c \in Calls,
                      kind[c] \in Patches \/ (soft /\ kind[c] = "updateIf"),
                      pc[c] # "ok", pc'[c] = "ok", row.st = "live"
               PROVE  row.val \subseteq row'.val
    OBVIOUS
  <2>1. CallsTypeOK /\ ChainInv
    BY DEF McpInv, McpTypeOK, RoutesTypeOK
  <2>2. PICK d \in Calls : StoreStep(d) \/ Peek(d)
    BY ServedCalls
  <2>3. ~Peek(d)
    BY <2>1 DEF Peek, CallsTypeOK
  <2>4. Next
    BY <2>2, <2>3 DEF Next, StoreStep
  <2> QED BY <2>1, <2>4, NextLosesNoEdit
<1> QED BY <1>1, McpInvHolds, PTL DEF McpSpec, NoLostEdit

\* A POST that is answered with a challenge has run none of its operations,
\* and no operation ever runs on a bearer that does not carry it.
THEOREM ChallengeRunsNothing == McpSpec => []ChallengedRanNothing
<1>1. McpInv => ChallengedRanNothing
  <2> SUFFICES ASSUME McpInv, NEW c \in CalledBy(msgs), stage[c] # "idle"
               PROVE  phase # "challenged" /\ ~Gated(c)
    BY DEF ChallengedRanNothing
  <2>1. CASE transport = "stdio"
    BY <2>1 DEF McpInv, StdioPhases, Gated, NeedsPrincipal
  <2>2. CASE transport = "post"
    <3>1. phase \in {"serving", "failed", "over"} /\ ~SomeGated(msgs)
      BY <2>2 DEF McpInv, McpTypeOK, PostInv
    <3>2. PICK i \in DOMAIN msgs : Dispatched(msgs[i]) /\ c = msgs[i].call
      BY DEF CalledBy
    <3> QED BY <3>1, <3>2 DEF SomeGated
  <2> QED BY <2>1, <2>2 DEF McpInv, McpTypeOK
<1> QED BY <1>1, McpInvHolds, PTL

\* Every message is handled once, in the order sent, and answered truly,
\* however stdin is cut into chunks and however long its lines are; what is
\* dropped were long lines, and each of them is one error.  What ends a POST
\* or a session early is a resource or a prompt, after all that came before it
\* was handled and before anything behind it was.
THEOREM AnswersComeInOrder == McpSpec => []AnsweredInOrder
<1>1. McpInv => AnsweredInOrder
  <2> SUFFICES ASSUME McpInv PROVE AnsweredInOrder
    OBVIOUS
  <2>0. /\ Ordered /\ PostInv /\ Lines /\ StopInv /\ (\A c \in Calls : Routed(c))
        /\ handled \in Seq(DOMAIN msgs) /\ msgs \in Seq(Message) /\ errors \in Nat
    BY DEF McpInv, McpTypeOK
  <2>1. /\ Increasing(handled)
        /\ Increasing(answers) /\ ToSet(answers) = {i \in ToSet(handled) : Answered(msgs[i])}
    BY <2>0 DEF Ordered
  <2>2. \A c \in Calls : AnsweredTruly(c)
    BY <2>0 DEF Routed
  <2>3. ASSUME phase = "over", transport = "post" PROVE Unhandled = {}
    <3>1. /\ pending = <<>> /\ Len(handled) + Len(pending) = Len(msgs) /\ Len(handled) \in Nat
          /\ \A n \in 1 .. Len(handled) : handled[n] = n
      BY <2>0, <2>3 DEF PostInv
    <3>2. Len(pending) = 0
      BY <3>1
    <3>3. DOMAIN handled = 1 .. Len(handled) /\ DOMAIN msgs = 1 .. Len(msgs)
      BY <2>0
    <3> QED BY <3>1, <3>2, <3>3 DEF Unhandled
  <2>4. ASSUME phase = "over", transport = "stdio"
        PROVE  LET garbled == {n \in DOMAIN handled : msgs[handled[n]].type = "garbled"}
               IN  /\ Unhandled \subseteq long
                   /\ errors = Cardinality(Unhandled) + Cardinality(garbled)
    <3>1. pending = <<>> /\ Tally(Len(msgs), 0)
      BY <2>0, <2>4 DEF Lines
    <3>2. DOMAIN msgs = 1 .. Len(msgs)
      BY <2>0
    <3>3. Unhandled = (1 .. Len(msgs)) \ Taken
      BY <3>1, <3>2 DEF Unhandled, Taken, Waiting, ToSet
    <3>4. IsFiniteSet(Garbled) /\ Cardinality(Garbled) \in Nat
      <4>1. Garbled \in SUBSET (1 .. Len(handled)) /\ IsFiniteSet(1 .. Len(handled))
        BY <2>0, FS_Interval DEF Garbled
      <4>2. IsFiniteSet(Garbled)
        BY <4>1, FS_Subset
      <4> QED BY <4>2, FS_CardinalityType
    <3>5. IsFiniteSet((1 .. Len(msgs)) \ Taken) /\ Cardinality((1 .. Len(msgs)) \ Taken) \in Nat
      <4>1. (1 .. Len(msgs)) \ Taken \in SUBSET (1 .. Len(msgs)) /\ IsFiniteSet(1 .. Len(msgs))
        BY <2>0, FS_Interval
      <4>2. IsFiniteSet((1 .. Len(msgs)) \ Taken)
        BY <4>1, FS_Subset
      <4> QED BY <4>2, FS_CardinalityType
    <3>6. errors = Cardinality((1 .. Len(msgs)) \ Taken) + Cardinality(Garbled)
      BY <3>1, <3>4, <3>5 DEF Tally
    <3> QED BY <3>1, <3>3, <3>6 DEF Tally, Garbled
  <2>5. phase = "failed" => \E i \in DOMAIN msgs : StoppedAt(i)
    BY <2>0 DEF StopInv
  <2> QED BY <2>1, <2>2, <2>3, <2>4, <2>5 DEF AnsweredInOrder
<1> QED BY <1>1, McpInvHolds, PTL
=============================================================================
