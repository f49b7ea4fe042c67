------------------------ MODULE KeyLifecycle_proofs ------------------------
(***************************************************************************)
(* Proofs about the operators' tools.  First KeyLifecycle, for any number  *)
(* of keys and of operators who run the key tool at once, with a kill      *)
(* possible between any two requests; then Deploy, for any secrets and any *)
(* number of failures, events and runs.                                    *)
(*                                                                         *)
(* The key tool: a keyId is in nobody's sight until the request that puts  *)
(* it in the directory (PublishInv), so material is only ever added for a  *)
(* key no revoke can have read; what a revoke has deleted therefore stays  *)
(* deleted until it reports (DeletedInv).  While operators take turns, the *)
(* entry an operation read is still the directory's until the operation    *)
(* writes it (TurnInv), so no key it does not know of can be left behind.  *)
(*                                                                         *)
(* The deployment tools: a run looks at every declared secret once         *)
(* (LeftInv), and one it is through with is bound (PutInv, CacheInv,       *)
(* UseInv, PodInv); what is saved exists and exists once (ResourceInv);    *)
(* what is bound the state file knows of, or is excused from knowing       *)
(* (KnownInv, CacheInv).  Migrations are sorted by rank, and a tag the     *)
(* configuration may add leaves the ranks of the others alone              *)
(* (NewTagGoesLast), so what a Worker has been through stays a prefix      *)
(* (TagInv).                                                               *)
(***************************************************************************)
EXTENDS KeyLifecycle, Deploy, FiniteSetTheorems, TLAPS

\* An operation at one of these steps has not published its key.
Unpublished ==
    {"provisionMaterial", "provisionEntry", "provisionReread", "provisionOver",
     "rotateDrop", "rotateMaterial", "rotateEntry"}

\* An operation at one of these steps has not written the directory.
Unwritten ==
    Unpublished \cup {"retireDrop", "retireEntry", "revokeCurrent", "revokePrevious",
                      "revokeEntry"}

Named(k) ==
    \/ k \in {dir.current, dir.previous} \cup retired \cup issued
    \/ \E p \in Operators : k \in {entry[p].current, entry[p].previous}

DirInv ==
    /\ dir.current = NoKey => dir.previous = NoKey
    /\ ~dir.known => dir.current = NoKey

PublishInv ==
    /\ \A k \in Keys : Named(k) => k \in minted
    /\ \A o \in Operators : pc[o] \in Unpublished \cup {"issue"} => key[o] \in minted
    /\ \A o \in Operators : pc[o] \in Unpublished => ~Named(key[o])
    /\ \A o, p \in Operators :
          (o # p /\ pc[o] \in Unpublished /\ pc[p] \in Unpublished \cup {"issue"})
             => key[o] # key[p]

DeletedInv ==
    \A o \in Operators :
        /\ pc[o] \in {"rotateMaterial", "rotateEntry", "retireEntry", "retired",
                      "revokeEntry", "revoked"} => entry[o].previous \notin material
        /\ pc[o] \in {"revokePrevious", "revokeEntry", "revoked"}
              => entry[o].current \notin material

TurnInv ==
    ~overlap =>
        /\ \A o, p \in Operators : o # p => pc[o] = "idle" \/ pc[p] = "idle"
        /\ \A o \in Operators :
              /\ pc[o] \in Unwritten => entry[o] = dir
              /\ pc[o] = "issue" => dir.current = key[o]
              /\ pc[o] = "revoked" => dir = Tombstone
              /\ pc[o] \in {"provisionMaterial", "provisionEntry", "provisionReread",
                            "provisionOver"} => ~IsLiveEntry(dir)
        /\ NoStrayKey

\* Under way to the directory, a key's material is already there.
CurrentInv ==
    /\ dir.current = dir.previous => dir.current = NoKey
    /\ \A o \in Operators :
          pc[o] \in {"provisionEntry", "provisionReread", "provisionOver", "rotateEntry"}
             => key[o] \in material
    /\ \A o \in Operators :
          (~overlap /\ pc[o] \in {"revokePrevious", "revokeEntry", "revokeCurrent"})
             => entry[o].current \in condemned \cup {NoKey}
    /\ CurrentVerifies

IInv ==
    /\ TypeOK
    /\ DirInv
    /\ PublishInv
    /\ DeletedInv
    /\ RevokedStaysRejected
    /\ TurnInv
    /\ CurrentInv

-----------------------------------------------------------------------------

\* The invariant holds before the client exists.
LEMMA InitIInv == Init => IInv
<1> SUFFICES ASSUME Init PROVE IInv
    OBVIOUS
<1> USE NoKeyAssumption DEF Init
<1>1. TypeOK
  BY DEF TypeOK, Entry, NoEntry, Steps
<1>2. DirInv
  BY DEF DirInv, NoEntry
<1>3. PublishInv
  BY DEF PublishInv, Unpublished, Named, NoEntry
<1>4. DeletedInv /\ RevokedStaysRejected
  BY DEF DeletedInv, RevokedStaysRejected
<1>5. TurnInv
  BY DEF TurnInv, NoStrayKey, Unwritten, Unpublished
<1>6. CurrentInv
  BY DEF CurrentInv, CurrentVerifies, NoEntry, IsLiveEntry
<1> QED
  BY <1>1, <1>2, <1>3, <1>4, <1>5, <1>6 DEF IInv

\* Every operation keeps the types.
LEMMA NextTypeOK ==
    ASSUME TypeOK, PublishInv, [Next]_vars
    PROVE  TypeOK'
<1> USE NoKeyAssumption DEF TypeOK, Entry, Steps, PublishInv, Unpublished,
       Named, storeVars, opVars, toldVars, pastVars
<1>0. CASE UNCHANGED vars
  BY <1>0 DEF vars
<1>1. ASSUME NEW o \in Operators, Provision(o) PROVE TypeOK'
  BY <1>1 DEF Provision, Begin, Mint, Goto
<1>2. ASSUME NEW o \in Operators, ProvisionMaterial(o) PROVE TypeOK'
  BY <1>2 DEF ProvisionMaterial, PutMaterial, Goto
<1>3. ASSUME NEW o \in Operators, ProvisionEntry(o) PROVE TypeOK'
  <2>1. key[o] \in Keys /\ dir \in Entry
    BY <1>3 DEF ProvisionEntry, PutEntry, TypeOK, PublishInv, Unpublished
  <2>2. Pointing(key[o], NoKey) \in Entry
    BY <2>1 DEF Pointing, Entry
  <2>3. dir' = dir \/ dir' = Pointing(key[o], NoKey)
    BY <1>3 DEF ProvisionEntry, PutEntry
  <2>4. pc' \in [Operators -> Steps]
    BY <1>3 DEF ProvisionEntry, PutEntry, Goto, TypeOK, Steps
  <2> QED
    BY <1>3, <2>1, <2>2, <2>3, <2>4 DEF ProvisionEntry, PutEntry, TypeOK, toldVars, pastVars
<1>4. ASSUME NEW o \in Operators, ProvisionReread(o) PROVE TypeOK'
  BY <1>4 DEF ProvisionReread, PutEntry, Goto
<1>5. ASSUME NEW o \in Operators, ProvisionOver(o) PROVE TypeOK'
  BY <1>5 DEF ProvisionOver, PutEntry, Pointing, Goto
<1>6. ASSUME NEW o \in Operators, Rotate(o) PROVE TypeOK'
  BY <1>6 DEF Rotate, Begin, Mint, Goto
<1>7. ASSUME NEW o \in Operators, RotateDrop(o) PROVE TypeOK'
  BY <1>7 DEF RotateDrop, DeleteMaterial, Goto
<1>8. ASSUME NEW o \in Operators, RotateMaterial(o) PROVE TypeOK'
  BY <1>8 DEF RotateMaterial, PutMaterial, Goto
<1>9. ASSUME NEW o \in Operators, RotateEntry(o) PROVE TypeOK'
  BY <1>9 DEF RotateEntry, PutEntry, Pointing, Goto
<1>10. ASSUME NEW o \in Operators, Issue(o) PROVE TypeOK'
  BY <1>10 DEF Issue, Goto
<1>11. ASSUME NEW o \in Operators, RevokePreviousKey(o) PROVE TypeOK'
  BY <1>11 DEF RevokePreviousKey, Begin, Goto
<1>12. ASSUME NEW o \in Operators, RetireDrop(o) PROVE TypeOK'
  BY <1>12 DEF RetireDrop, DeleteMaterial, Goto
<1>13. ASSUME NEW o \in Operators, RetireEntry(o) PROVE TypeOK'
  BY <1>13 DEF RetireEntry, PutEntry, Pointing, Goto
<1>14. ASSUME NEW o \in Operators, RevokeClient(o) PROVE TypeOK'
  BY <1>14 DEF RevokeClient, Begin, Goto
<1>15. ASSUME NEW o \in Operators, RevokeCurrent(o) PROVE TypeOK'
  BY <1>15 DEF RevokeCurrent, DeleteMaterial, Goto
<1>16. ASSUME NEW o \in Operators, RevokePrevious(o) PROVE TypeOK'
  BY <1>16 DEF RevokePrevious, DeleteMaterial, Goto
<1>17. ASSUME NEW o \in Operators, RevokeEntry(o) PROVE TypeOK'
  BY <1>17 DEF RevokeEntry, PutEntry, Tombstone, Pointing, Goto
<1>18. ASSUME NEW o \in Operators, Report(o) PROVE TypeOK'
  BY <1>18 DEF Report, Goto
<1>19. ASSUME NEW o \in Operators, Crash(o) PROVE TypeOK'
  BY <1>19 DEF Crash, Goto
<1> QED
  BY <1>0, <1>1, <1>2, <1>3, <1>4, <1>5, <1>6, <1>7, <1>8, <1>9, <1>10,
     <1>11, <1>12, <1>13, <1>14, <1>15, <1>16, <1>17, <1>18, <1>19 DEF Next,
     Operation

\* A directory without a current key has no previous one.
LEMMA NextDirInv ==
    ASSUME TypeOK, PublishInv, DirInv, [Next]_vars
    PROVE  DirInv'
<1> USE NoKeyAssumption DEF TypeOK, Entry, PublishInv, Unpublished, DirInv,
       storeVars, opVars, toldVars, pastVars
<1>0. CASE UNCHANGED vars
  BY <1>0 DEF vars
<1>1. ASSUME NEW o \in Operators, Provision(o) PROVE DirInv'
  BY <1>1 DEF Provision, Begin, Mint, Goto
<1>2. ASSUME NEW o \in Operators, ProvisionMaterial(o) PROVE DirInv'
  BY <1>2 DEF ProvisionMaterial, PutMaterial, Goto
<1>3. ASSUME NEW o \in Operators, ProvisionEntry(o) PROVE DirInv'
  BY <1>3 DEF ProvisionEntry, PutEntry, Pointing, Goto
<1>4. ASSUME NEW o \in Operators, ProvisionReread(o) PROVE DirInv'
  BY <1>4 DEF ProvisionReread, PutEntry, Goto
<1>5. ASSUME NEW o \in Operators, ProvisionOver(o) PROVE DirInv'
  BY <1>5 DEF ProvisionOver, PutEntry, Pointing, Goto
<1>6. ASSUME NEW o \in Operators, Rotate(o) PROVE DirInv'
  BY <1>6 DEF Rotate, Begin, Mint, Goto
<1>7. ASSUME NEW o \in Operators, RotateDrop(o) PROVE DirInv'
  BY <1>7 DEF RotateDrop, DeleteMaterial, Goto
<1>8. ASSUME NEW o \in Operators, RotateMaterial(o) PROVE DirInv'
  BY <1>8 DEF RotateMaterial, PutMaterial, Goto
<1>9. ASSUME NEW o \in Operators, RotateEntry(o) PROVE DirInv'
  BY <1>9 DEF RotateEntry, PutEntry, Pointing, Goto
<1>10. ASSUME NEW o \in Operators, Issue(o) PROVE DirInv'
  BY <1>10 DEF Issue, Goto
<1>11. ASSUME NEW o \in Operators, RevokePreviousKey(o) PROVE DirInv'
  BY <1>11 DEF RevokePreviousKey, Begin, Goto
<1>12. ASSUME NEW o \in Operators, RetireDrop(o) PROVE DirInv'
  BY <1>12 DEF RetireDrop, DeleteMaterial, Goto
<1>13. ASSUME NEW o \in Operators, RetireEntry(o) PROVE DirInv'
  BY <1>13 DEF RetireEntry, PutEntry, Pointing, Goto
<1>14. ASSUME NEW o \in Operators, RevokeClient(o) PROVE DirInv'
  BY <1>14 DEF RevokeClient, Begin, Goto
<1>15. ASSUME NEW o \in Operators, RevokeCurrent(o) PROVE DirInv'
  BY <1>15 DEF RevokeCurrent, DeleteMaterial, Goto
<1>16. ASSUME NEW o \in Operators, RevokePrevious(o) PROVE DirInv'
  BY <1>16 DEF RevokePrevious, DeleteMaterial, Goto
<1>17. ASSUME NEW o \in Operators, RevokeEntry(o) PROVE DirInv'
  BY <1>17 DEF RevokeEntry, PutEntry, Tombstone, Pointing, Goto
<1>18. ASSUME NEW o \in Operators, Report(o) PROVE DirInv'
  BY <1>18 DEF Report, Goto
<1>19. ASSUME NEW o \in Operators, Crash(o) PROVE DirInv'
  BY <1>19 DEF Crash, Goto
<1> QED
  BY <1>0, <1>1, <1>2, <1>3, <1>4, <1>5, <1>6, <1>7, <1>8, <1>9, <1>10,
     <1>11, <1>12, <1>13, <1>14, <1>15, <1>16, <1>17, <1>18, <1>19 DEF Next,
     Operation

\* No key is named anywhere before its operation publishes it.
LEMMA NextPublishInv ==
    ASSUME TypeOK, PublishInv, [Next]_vars
    PROVE  PublishInv'
<1> USE NoKeyAssumption DEF TypeOK, Entry, Steps, PublishInv, Unpublished,
       Named, storeVars, opVars, toldVars, pastVars
<1>0. CASE UNCHANGED vars
  BY <1>0 DEF vars
<1>1. ASSUME NEW o \in Operators, Provision(o) PROVE PublishInv'
  BY <1>1 DEF Provision, Begin, Mint, Goto
<1>2. ASSUME NEW o \in Operators, ProvisionMaterial(o) PROVE PublishInv'
  BY <1>2 DEF ProvisionMaterial, PutMaterial, Goto
<1>3. ASSUME NEW o \in Operators, ProvisionEntry(o) PROVE PublishInv'
  <2>1. CASE ~dir.known
    BY <1>3, <2>1 DEF ProvisionEntry, PutEntry, Pointing, Goto, TypeOK, PublishInv,
       Unpublished, Named, toldVars, pastVars
  <2>2. CASE dir.known
    BY <1>3, <2>2 DEF ProvisionEntry, PutEntry, Goto, TypeOK, PublishInv,
       Unpublished, Named, toldVars, pastVars
  <2> QED
    BY <2>1, <2>2
<1>4. ASSUME NEW o \in Operators, ProvisionReread(o) PROVE PublishInv'
  BY <1>4 DEF ProvisionReread, PutEntry, Goto
<1>5. ASSUME NEW o \in Operators, ProvisionOver(o) PROVE PublishInv'
  BY <1>5 DEF ProvisionOver, PutEntry, Pointing, Goto
<1>6. ASSUME NEW o \in Operators, Rotate(o) PROVE PublishInv'
  BY <1>6 DEF Rotate, Begin, Mint, Goto
<1>7. ASSUME NEW o \in Operators, RotateDrop(o) PROVE PublishInv'
  BY <1>7 DEF RotateDrop, DeleteMaterial, Goto
<1>8. ASSUME NEW o \in Operators, RotateMaterial(o) PROVE PublishInv'
  BY <1>8 DEF RotateMaterial, PutMaterial, Goto
<1>9. ASSUME NEW o \in Operators, RotateEntry(o) PROVE PublishInv'
  BY <1>9 DEF RotateEntry, PutEntry, Pointing, Goto
<1>10. ASSUME NEW o \in Operators, Issue(o) PROVE PublishInv'
  BY <1>10 DEF Issue, Goto
<1>11. ASSUME NEW o \in Operators, RevokePreviousKey(o) PROVE PublishInv'
  BY <1>11 DEF RevokePreviousKey, Begin, Goto
<1>12. ASSUME NEW o \in Operators, RetireDrop(o) PROVE PublishInv'
  BY <1>12 DEF RetireDrop, DeleteMaterial, Goto
<1>13. ASSUME NEW o \in Operators, RetireEntry(o) PROVE PublishInv'
  BY <1>13 DEF RetireEntry, PutEntry, Pointing, Goto
<1>14. ASSUME NEW o \in Operators, RevokeClient(o) PROVE PublishInv'
  BY <1>14 DEF RevokeClient, Begin, Goto
<1>15. ASSUME NEW o \in Operators, RevokeCurrent(o) PROVE PublishInv'
  BY <1>15 DEF RevokeCurrent, DeleteMaterial, Goto
<1>16. ASSUME NEW o \in Operators, RevokePrevious(o) PROVE PublishInv'
  BY <1>16 DEF RevokePrevious, DeleteMaterial, Goto
<1>17. ASSUME NEW o \in Operators, RevokeEntry(o) PROVE PublishInv'
  BY <1>17 DEF RevokeEntry, PutEntry, Tombstone, Pointing, Goto
<1>18. ASSUME NEW o \in Operators, Report(o) PROVE PublishInv'
  BY <1>18 DEF Report, Goto
<1>19. ASSUME NEW o \in Operators, Crash(o) PROVE PublishInv'
  BY <1>19 DEF Crash, Goto
<1> QED
  BY <1>0, <1>1, <1>2, <1>3, <1>4, <1>5, <1>6, <1>7, <1>8, <1>9, <1>10,
     <1>11, <1>12, <1>13, <1>14, <1>15, <1>16, <1>17, <1>18, <1>19 DEF Next,
     Operation

\* What a revoke has deleted stays deleted until it reports.
LEMMA NextDeletedInv ==
    ASSUME TypeOK, PublishInv, DeletedInv, [Next]_vars
    PROVE  DeletedInv'
<1> USE NoKeyAssumption DEF TypeOK, Entry, Steps, PublishInv, Unpublished,
       Named, DeletedInv, storeVars, opVars, toldVars, pastVars
<1>0. CASE UNCHANGED vars
  BY <1>0 DEF vars
<1>1. ASSUME NEW o \in Operators, Provision(o) PROVE DeletedInv'
  BY <1>1 DEF Provision, Begin, Mint, Goto
<1>2. ASSUME NEW o \in Operators, ProvisionMaterial(o) PROVE DeletedInv'
  BY <1>2 DEF ProvisionMaterial, PutMaterial, Goto
<1>3. ASSUME NEW o \in Operators, ProvisionEntry(o) PROVE DeletedInv'
  BY <1>3 DEF ProvisionEntry, PutEntry, Pointing, Goto
<1>4. ASSUME NEW o \in Operators, ProvisionReread(o) PROVE DeletedInv'
  BY <1>4 DEF ProvisionReread, PutEntry, Goto
<1>5. ASSUME NEW o \in Operators, ProvisionOver(o) PROVE DeletedInv'
  BY <1>5 DEF ProvisionOver, PutEntry, Pointing, Goto
<1>6. ASSUME NEW o \in Operators, Rotate(o) PROVE DeletedInv'
  BY <1>6 DEF Rotate, Begin, Mint, Goto
<1>7. ASSUME NEW o \in Operators, RotateDrop(o) PROVE DeletedInv'
  BY <1>7 DEF RotateDrop, DeleteMaterial, Goto
<1>8. ASSUME NEW o \in Operators, RotateMaterial(o) PROVE DeletedInv'
  BY <1>8 DEF RotateMaterial, PutMaterial, Goto
<1>9. ASSUME NEW o \in Operators, RotateEntry(o) PROVE DeletedInv'
  BY <1>9 DEF RotateEntry, PutEntry, Pointing, Goto
<1>10. ASSUME NEW o \in Operators, Issue(o) PROVE DeletedInv'
  BY <1>10 DEF Issue, Goto
<1>11. ASSUME NEW o \in Operators, RevokePreviousKey(o) PROVE DeletedInv'
  BY <1>11 DEF RevokePreviousKey, Begin, Goto
<1>12. ASSUME NEW o \in Operators, RetireDrop(o) PROVE DeletedInv'
  BY <1>12 DEF RetireDrop, DeleteMaterial, Goto
<1>13. ASSUME NEW o \in Operators, RetireEntry(o) PROVE DeletedInv'
  BY <1>13 DEF RetireEntry, PutEntry, Pointing, Goto
<1>14. ASSUME NEW o \in Operators, RevokeClient(o) PROVE DeletedInv'
  BY <1>14 DEF RevokeClient, Begin, Goto
<1>15. ASSUME NEW o \in Operators, RevokeCurrent(o) PROVE DeletedInv'
  BY <1>15 DEF RevokeCurrent, DeleteMaterial, Goto
<1>16. ASSUME NEW o \in Operators, RevokePrevious(o) PROVE DeletedInv'
  BY <1>16 DEF RevokePrevious, DeleteMaterial, Goto
<1>17. ASSUME NEW o \in Operators, RevokeEntry(o) PROVE DeletedInv'
  BY <1>17 DEF RevokeEntry, PutEntry, Tombstone, Pointing, Goto
<1>18. ASSUME NEW o \in Operators, Report(o) PROVE DeletedInv'
  BY <1>18 DEF Report, Goto
<1>19. ASSUME NEW o \in Operators, Crash(o) PROVE DeletedInv'
  BY <1>19 DEF Crash, Goto
<1> QED
  BY <1>0, <1>1, <1>2, <1>3, <1>4, <1>5, <1>6, <1>7, <1>8, <1>9, <1>10,
     <1>11, <1>12, <1>13, <1>14, <1>15, <1>16, <1>17, <1>18, <1>19 DEF Next,
     Operation

\* A key reported revoked is not added again: only an unpublished key is.
LEMMA NextRevoked ==
    ASSUME TypeOK, PublishInv, DeletedInv, RevokedStaysRejected, [Next]_vars
    PROVE  RevokedStaysRejected'
<1> USE NoKeyAssumption DEF TypeOK, Entry, PublishInv, Unpublished, Named,
       DeletedInv, RevokedStaysRejected, storeVars, opVars, toldVars,
       pastVars
<1>0. CASE UNCHANGED vars
  BY <1>0 DEF vars
<1>1. ASSUME NEW o \in Operators, Provision(o) PROVE RevokedStaysRejected'
  BY <1>1 DEF Provision, Begin, Mint, Goto
<1>2. ASSUME NEW o \in Operators, ProvisionMaterial(o) PROVE RevokedStaysRejected'
  BY <1>2 DEF ProvisionMaterial, PutMaterial, Goto
<1>3. ASSUME NEW o \in Operators, ProvisionEntry(o) PROVE RevokedStaysRejected'
  BY <1>3 DEF ProvisionEntry, PutEntry, Pointing, Goto
<1>4. ASSUME NEW o \in Operators, ProvisionReread(o) PROVE RevokedStaysRejected'
  BY <1>4 DEF ProvisionReread, PutEntry, Goto
<1>5. ASSUME NEW o \in Operators, ProvisionOver(o) PROVE RevokedStaysRejected'
  BY <1>5 DEF ProvisionOver, PutEntry, Pointing, Goto
<1>6. ASSUME NEW o \in Operators, Rotate(o) PROVE RevokedStaysRejected'
  BY <1>6 DEF Rotate, Begin, Mint, Goto
<1>7. ASSUME NEW o \in Operators, RotateDrop(o) PROVE RevokedStaysRejected'
  BY <1>7 DEF RotateDrop, DeleteMaterial, Goto
<1>8. ASSUME NEW o \in Operators, RotateMaterial(o) PROVE RevokedStaysRejected'
  BY <1>8 DEF RotateMaterial, PutMaterial, Goto
<1>9. ASSUME NEW o \in Operators, RotateEntry(o) PROVE RevokedStaysRejected'
  BY <1>9 DEF RotateEntry, PutEntry, Pointing, Goto
<1>10. ASSUME NEW o \in Operators, Issue(o) PROVE RevokedStaysRejected'
  BY <1>10 DEF Issue, Goto
<1>11. ASSUME NEW o \in Operators, RevokePreviousKey(o) PROVE RevokedStaysRejected'
  BY <1>11 DEF RevokePreviousKey, Begin, Goto
<1>12. ASSUME NEW o \in Operators, RetireDrop(o) PROVE RevokedStaysRejected'
  BY <1>12 DEF RetireDrop, DeleteMaterial, Goto
<1>13. ASSUME NEW o \in Operators, RetireEntry(o) PROVE RevokedStaysRejected'
  BY <1>13 DEF RetireEntry, PutEntry, Pointing, Goto
<1>14. ASSUME NEW o \in Operators, RevokeClient(o) PROVE RevokedStaysRejected'
  BY <1>14 DEF RevokeClient, Begin, Goto
<1>15. ASSUME NEW o \in Operators, RevokeCurrent(o) PROVE RevokedStaysRejected'
  BY <1>15 DEF RevokeCurrent, DeleteMaterial, Goto
<1>16. ASSUME NEW o \in Operators, RevokePrevious(o) PROVE RevokedStaysRejected'
  BY <1>16 DEF RevokePrevious, DeleteMaterial, Goto
<1>17. ASSUME NEW o \in Operators, RevokeEntry(o) PROVE RevokedStaysRejected'
  BY <1>17 DEF RevokeEntry, PutEntry, Tombstone, Pointing, Goto
<1>18. ASSUME NEW o \in Operators, Report(o) PROVE RevokedStaysRejected'
  BY <1>18 DEF Report, Goto
<1>19. ASSUME NEW o \in Operators, Crash(o) PROVE RevokedStaysRejected'
  BY <1>19 DEF Crash, Goto
<1> QED
  BY <1>0, <1>1, <1>2, <1>3, <1>4, <1>5, <1>6, <1>7, <1>8, <1>9, <1>10,
     <1>11, <1>12, <1>13, <1>14, <1>15, <1>16, <1>17, <1>18, <1>19 DEF Next,
     Operation

\* While operators take turns the operation under way knows the directory.
LEMMA NextTurnInv ==
    ASSUME TypeOK, DirInv, PublishInv, DeletedInv, TurnInv, [Next]_vars
    PROVE  TurnInv'
<1> USE NoKeyAssumption DEF TypeOK, Entry, DirInv, PublishInv, Unpublished,
       Unwritten, Named, DeletedInv, TurnInv, NoStrayKey, IsLiveEntry,
       Tombstone, Pointing, storeVars, opVars, toldVars, pastVars
<1>0. CASE UNCHANGED vars
  BY <1>0 DEF vars
<1>1. ASSUME NEW o \in Operators, Provision(o) PROVE TurnInv'
  BY <1>1 DEF Provision, Begin, Mint, Goto
<1>2. ASSUME NEW o \in Operators, ProvisionMaterial(o) PROVE TurnInv'
  BY <1>2 DEF ProvisionMaterial, PutMaterial, Goto
<1>3. ASSUME NEW o \in Operators, ProvisionEntry(o) PROVE TurnInv'
  BY <1>3 DEF ProvisionEntry, PutEntry, Pointing, Goto
<1>4. ASSUME NEW o \in Operators, ProvisionReread(o) PROVE TurnInv'
  BY <1>4 DEF ProvisionReread, PutEntry, Goto
<1>5. ASSUME NEW o \in Operators, ProvisionOver(o) PROVE TurnInv'
  BY <1>5 DEF ProvisionOver, PutEntry, Pointing, Goto
<1>6. ASSUME NEW o \in Operators, Rotate(o) PROVE TurnInv'
  BY <1>6 DEF Rotate, Begin, Mint, Goto
<1>7. ASSUME NEW o \in Operators, RotateDrop(o) PROVE TurnInv'
  BY <1>7 DEF RotateDrop, DeleteMaterial, Goto
<1>8. ASSUME NEW o \in Operators, RotateMaterial(o) PROVE TurnInv'
  BY <1>8 DEF RotateMaterial, PutMaterial, Goto
<1>9. ASSUME NEW o \in Operators, RotateEntry(o) PROVE TurnInv'
  BY <1>9 DEF RotateEntry, PutEntry, Pointing, Goto
<1>10. ASSUME NEW o \in Operators, Issue(o) PROVE TurnInv'
  BY <1>10 DEF Issue, Goto
<1>11. ASSUME NEW o \in Operators, RevokePreviousKey(o) PROVE TurnInv'
  BY <1>11 DEF RevokePreviousKey, Begin, Goto
<1>12. ASSUME NEW o \in Operators, RetireDrop(o) PROVE TurnInv'
  BY <1>12 DEF RetireDrop, DeleteMaterial, Goto
<1>13. ASSUME NEW o \in Operators, RetireEntry(o) PROVE TurnInv'
  BY <1>13 DEF RetireEntry, PutEntry, Pointing, Goto
<1>14. ASSUME NEW o \in Operators, RevokeClient(o) PROVE TurnInv'
  BY <1>14 DEF RevokeClient, Begin, Goto
<1>15. ASSUME NEW o \in Operators, RevokeCurrent(o) PROVE TurnInv'
  BY <1>15 DEF RevokeCurrent, DeleteMaterial, Goto
<1>16. ASSUME NEW o \in Operators, RevokePrevious(o) PROVE TurnInv'
  BY <1>16 DEF RevokePrevious, DeleteMaterial, Goto
<1>17. ASSUME NEW o \in Operators, RevokeEntry(o) PROVE TurnInv'
  BY <1>17 DEF RevokeEntry, PutEntry, Tombstone, Pointing, Goto
<1>18. ASSUME NEW o \in Operators, Report(o) PROVE TurnInv'
  BY <1>18 DEF Report, Goto
<1>19. ASSUME NEW o \in Operators, Crash(o) PROVE TurnInv'
  BY <1>19 DEF Crash, Goto
<1> QED
  BY <1>0, <1>1, <1>2, <1>3, <1>4, <1>5, <1>6, <1>7, <1>8, <1>9, <1>10,
     <1>11, <1>12, <1>13, <1>14, <1>15, <1>16, <1>17, <1>18, <1>19 DEF Next,
     Operation

\* While operators take turns the current key has its material.
LEMMA NextCurrentInv ==
    ASSUME TypeOK, DirInv, PublishInv, TurnInv, CurrentInv, [Next]_vars
    PROVE  CurrentInv'
<1> USE NoKeyAssumption DEF TypeOK, Entry, DirInv, PublishInv, Unpublished,
       Unwritten, Named, TurnInv, CurrentInv, CurrentVerifies, IsLiveEntry,
       Tombstone, Pointing, storeVars, opVars, toldVars, pastVars
<1>0. CASE UNCHANGED vars
  BY <1>0 DEF vars
<1>1. ASSUME NEW o \in Operators, Provision(o) PROVE CurrentInv'
  BY <1>1 DEF Provision, Begin, Mint, Goto
<1>2. ASSUME NEW o \in Operators, ProvisionMaterial(o) PROVE CurrentInv'
  BY <1>2 DEF ProvisionMaterial, PutMaterial, Goto
<1>3. ASSUME NEW o \in Operators, ProvisionEntry(o) PROVE CurrentInv'
  BY <1>3 DEF ProvisionEntry, PutEntry, Pointing, Goto
<1>4. ASSUME NEW o \in Operators, ProvisionReread(o) PROVE CurrentInv'
  BY <1>4 DEF ProvisionReread, PutEntry, Goto
<1>5. ASSUME NEW o \in Operators, ProvisionOver(o) PROVE CurrentInv'
  BY <1>5 DEF ProvisionOver, PutEntry, Pointing, Goto
<1>6. ASSUME NEW o \in Operators, Rotate(o) PROVE CurrentInv'
  BY <1>6 DEF Rotate, Begin, Mint, Goto
<1>7. ASSUME NEW o \in Operators, RotateDrop(o) PROVE CurrentInv'
  BY <1>7 DEF RotateDrop, DeleteMaterial, Goto
<1>8. ASSUME NEW o \in Operators, RotateMaterial(o) PROVE CurrentInv'
  BY <1>8 DEF RotateMaterial, PutMaterial, Goto
<1>9. ASSUME NEW o \in Operators, RotateEntry(o) PROVE CurrentInv'
  BY <1>9 DEF RotateEntry, PutEntry, Pointing, Goto
<1>10. ASSUME NEW o \in Operators, Issue(o) PROVE CurrentInv'
  BY <1>10 DEF Issue, Goto
<1>11. ASSUME NEW o \in Operators, RevokePreviousKey(o) PROVE CurrentInv'
  BY <1>11 DEF RevokePreviousKey, Begin, Goto
<1>12. ASSUME NEW o \in Operators, RetireDrop(o) PROVE CurrentInv'
  BY <1>12 DEF RetireDrop, DeleteMaterial, Goto
<1>13. ASSUME NEW o \in Operators, RetireEntry(o) PROVE CurrentInv'
  BY <1>13 DEF RetireEntry, PutEntry, Pointing, Goto
<1>14. ASSUME NEW o \in Operators, RevokeClient(o) PROVE CurrentInv'
  BY <1>14 DEF RevokeClient, Begin, Goto
<1>15. ASSUME NEW o \in Operators, RevokeCurrent(o) PROVE CurrentInv'
  BY <1>15 DEF RevokeCurrent, DeleteMaterial, Goto
<1>16. ASSUME NEW o \in Operators, RevokePrevious(o) PROVE CurrentInv'
  BY <1>16 DEF RevokePrevious, DeleteMaterial, Goto
<1>17. ASSUME NEW o \in Operators, RevokeEntry(o) PROVE CurrentInv'
  BY <1>17 DEF RevokeEntry, PutEntry, Tombstone, Pointing, Goto
<1>18. ASSUME NEW o \in Operators, Report(o) PROVE CurrentInv'
  BY <1>18 DEF Report, Goto
<1>19. ASSUME NEW o \in Operators, Crash(o) PROVE CurrentInv'
  BY <1>19 DEF Crash, Goto
<1> QED
  BY <1>0, <1>1, <1>2, <1>3, <1>4, <1>5, <1>6, <1>7, <1>8, <1>9, <1>10,
     <1>11, <1>12, <1>13, <1>14, <1>15, <1>16, <1>17, <1>18, <1>19 DEF Next,
     Operation

-----------------------------------------------------------------------------

\* The strengthening of the properties below is an invariant.
THEOREM Invariance == Spec => []IInv
<1>1. Init => IInv
  BY InitIInv
<1>2. IInv /\ [Next]_vars => IInv'
  BY NextTypeOK, NextDirInv, NextPublishInv, NextDeletedInv, NextRevoked,
     NextTurnInv, NextCurrentInv DEF IInv
<1> QED
  BY <1>1, <1>2, PTL DEF Spec

\* Directory, material and operations are always well formed.
THEOREM TypeCorrect == Spec => []TypeOK
<1>1. IInv => TypeOK
  BY DEF IInv
<1> QED
  BY <1>1, Invariance, PTL

\* A keyId reported revoked never verifies again, with any number of
\* operators at work and killed at any point.
THEOREM RevokedKeysStayRejected == Spec => []RevokedStaysRejected
<1>1. IInv => RevokedStaysRejected
  BY DEF IInv
<1> QED
  BY <1>1, Invariance, PTL

\* While operators take turns, killed or not, every key handed out that
\* still verifies is one the directory names.
THEOREM NoKeyIsStray == Spec => []NoStrayKey
<1>1. IInv => NoStrayKey
  BY DEF IInv, TurnInv, NoStrayKey
<1> QED
  BY <1>1, Invariance, PTL

\* While operators take turns, only a revoke makes the current key fail.
THEOREM CurrentKeyVerifies == Spec => []CurrentVerifies
<1>1. IInv => CurrentVerifies
  BY DEF IInv, CurrentInv
<1> QED
  BY <1>1, Invariance, PTL

\* While operators take turns, a revoke that has returned leaves no key of
\* the client verifying.
LEMMA NextRevokeRejectsAll ==
    ASSUME IInv, Next, NEW o \in Operators,
           pc[o] = "revoked", retired' # retired, ~overlap
    PROVE  issued \cap material' = {}
<1> USE NoKeyAssumption
<1>1. dir = Tombstone
  BY DEF IInv, TurnInv
<1>2. issued \cap material \subseteq {NoKey}
  BY <1>1 DEF IInv, TurnInv, NoStrayKey, Tombstone, Pointing
<1>3. issued \cap material = {}
  BY <1>2 DEF IInv, TypeOK
<1>4. PICK p \in Operators : Report(p)
  BY DEF Next, Operation, Provision, ProvisionMaterial, ProvisionEntry,
     ProvisionReread, ProvisionOver, Rotate, RotateDrop, RotateMaterial,
     RotateEntry, Issue, RevokePreviousKey, RetireDrop, RetireEntry, RevokeClient,
     RevokeCurrent, RevokePrevious, RevokeEntry, Crash, Begin, PutMaterial,
     DeleteMaterial, PutEntry, toldVars
<1>5. material' = material
  BY <1>4 DEF Report, storeVars
<1> QED
  BY <1>3, <1>5

THEOREM RevokeIsTotal == Spec => RevokeRejectsAll
<1>1. IInv /\ [Next]_vars
        => [ \A o \in Operators :
              (pc[o] = "revoked" /\ retired' # retired /\ ~overlap)
              => issued \cap material' = {} ]_vars
  BY NextRevokeRejectsAll
<1> QED
  BY <1>1, Invariance, PTL DEF Spec, RevokeRejectsAll

-----------------------------------------------------------------------------
(* Deploy: the lists a run works through, and the order of migrations      *)

\* SetToSeq lists a finite set, each of its elements once.
LEMMA ListsTheSet ==
    ASSUME NEW S, IsFiniteSet(S)
    PROVE  /\ SetToSeq(S) \in Seq(S)
           /\ IsInjective(SetToSeq(S))
           /\ ToSet(SetToSeq(S)) = S
<1> DEFINE n == Cardinality(S)
           f == SetToSeq(S)
<1>1. n \in Nat /\ ExistsBijection(1..n, S)
  BY FS_CardinalityType
<1>2. IsFiniteSet(1..n) /\ Cardinality(1..n) = n
  BY <1>1, FS_Interval
<1>3. f \in [1..n -> S] /\ IsInjective(f)
  <2>1. \E g \in [1..n -> S] : IsInjective(g)
    BY <1>1 DEF ExistsBijection, Bijection, Injection
  <2> QED BY <2>1 DEF SetToSeq
<1>4. f \in Injection(1..n, S)
  BY <1>3 DEF Injection
<1>5. f \in Surjection(1..n, S)
  <2> HIDE DEF n, f
  <2> QED BY <1>1, <1>2, <1>4, FS_Injection, n = Cardinality(S) DEF n
<1> HIDE DEF n, f
<1>6. f \in Seq(S) /\ DOMAIN f = 1..n
  BY <1>1, <1>3
<1>7. ToSet(f) = S
  BY <1>3, <1>5 DEF ToSet, Surjection
<1> QED BY <1>3, <1>6, <1>7 DEF f

\* Taking the head off a sequence without repetitions.
LEMMA Beheaded ==
    ASSUME NEW S, NEW s \in Seq(S), s # <<>>, IsInjective(s)
    PROVE  /\ Head(s) \in S /\ Head(s) \in ToSet(s)
           /\ Tail(s) \in Seq(S) /\ IsInjective(Tail(s))
           /\ ToSet(Tail(s)) = ToSet(s) \ {Head(s)}
<1>1. /\ Len(s) \in Nat \ {0} /\ DOMAIN s = 1..Len(s)
      /\ Head(s) = s[1] /\ s[1] \in S
  OBVIOUS
<1>2. /\ Tail(s) \in Seq(S) /\ DOMAIN Tail(s) = 1..(Len(s) - 1)
      /\ \A i \in 1..(Len(s) - 1) : Tail(s)[i] = s[i + 1]
  OBVIOUS
<1> DEFINE t == Tail(s)
<1> HIDE DEF t
<1>3. \A i \in DOMAIN s : i = 1 \/ (i - 1 \in DOMAIN t /\ t[i - 1] = s[i])
  BY <1>1, <1>2 DEF t
<1>4. \A i \in DOMAIN t : i + 1 \in DOMAIN s /\ t[i] = s[i + 1] /\ i + 1 # 1
  BY <1>1, <1>2 DEF t
<1>5. DOMAIN t \subseteq Int /\ DOMAIN s \subseteq Int /\ 1 \in DOMAIN s
  BY <1>1, <1>2 DEF t
<1>6. \A a, b \in DOMAIN t : t[a] = t[b] => a = b
  <2>1. \A a, b \in DOMAIN s : s[a] = s[b] => a = b
    BY DEF IsInjective
  <2> QED BY <2>1, <1>4, <1>5
<1>7. ToSet(t) = ToSet(s) \ {s[1]}
  <2>1. \A a, b \in DOMAIN s : s[a] = s[b] => a = b
    BY DEF IsInjective
  <2>2. ASSUME NEW x \in ToSet(t) PROVE x \in ToSet(s) /\ x # s[1]
    <3>1. PICK i \in DOMAIN t : x = t[i]
      BY <2>2 DEF ToSet
    <3> QED BY <3>1, <2>1, <1>4, <1>5 DEF ToSet
  <2>3. ASSUME NEW x \in ToSet(s), x # s[1] PROVE x \in ToSet(t)
    <3>1. PICK i \in DOMAIN s : x = s[i]
      BY <2>3 DEF ToSet
    <3> QED BY <3>1, <2>3, <1>3 DEF ToSet
  <2> QED BY <2>2, <2>3
<1>8. IsInjective(t)
  BY <1>6 DEF IsInjective
<1>9. s[1] \in ToSet(s)
  BY <1>5 DEF ToSet
<1> QED BY <1>1, <1>2, <1>7, <1>8, <1>9 DEF t

\* In a sequence without repetitions a tag first appears where it stands.
LEMMA AppearsOnce ==
    ASSUME NEW T, NEW B \in Seq(T), IsInjective(B), NEW i \in DOMAIN B
    PROVE  FirstAppearance(B, B[i]) = i
<1>1. {j \in DOMAIN B : B[j] = B[i]} = {i}
  BY DEF IsInjective
<1>2. i \in Int
  BY DOMAIN B = 1..Len(B)
<1>3. Min({i}) = i
  BY <1>2 DEF Min
<1> QED BY <1>1, <1>3 DEF FirstAppearance

\* All there can be among the bindings.
Tags == ClassTags \cup {HubTag}

\* The generation a tag ends in, 1 for the base classes and the hub.
LEMMA GenerationsAreNumbers ==
    /\ \A t : Generation(t) \in Int
    /\ \A t \in Tags : t \in BaseTags \cup {HubTag} <=> Generation(t) = 1
BY DEF Generation, Tags, ClassTags, BaseTags, HubTag

\* Tags that appear once each are put into a strict total order.
LEMMA TotallyOrdered ==
    ASSUME NEW B \in Seq(Tags), IsInjective(B)
    PROVE  /\ \A a \in ToSet(B) : ~Before(B, a, a)
           /\ \A a, b \in ToSet(B) : a # b => Before(B, a, b) \/ Before(B, b, a)
           /\ \A a, b, c \in ToSet(B) :
                 Before(B, a, b) /\ Before(B, b, c) => Before(B, a, c)
<1>1. \A a \in ToSet(B) : \E i \in DOMAIN B : a = B[i] /\ FirstAppearance(B, a) = i
  BY AppearsOnce DEF ToSet
<1>2. \A a \in ToSet(B) : FirstAppearance(B, a) \in Int
  BY <1>1, DOMAIN B = 1..Len(B)
<1>3. \A a, b \in ToSet(B) : FirstAppearance(B, a) = FirstAppearance(B, b) => a = b
  BY <1>1
<1>4. \A t : Generation(t) \in Int
  BY GenerationsAreNumbers
<1> QED BY <1>2, <1>3, <1>4, SMTT(30) DEF Before

\* Sorting bindings leaves out none of their tags and makes none up.
LEMMA SortedIntoTags ==
    ASSUME NEW B \in Seq(Tags), IsInjective(B), IsFiniteSet(ToSet(B))
    PROVE  /\ Cardinality(ToSet(B)) \in Nat
           /\ \A i \in 1..Cardinality(ToSet(B)) : Migrations(B)[i] \in ToSet(B)
           /\ Migrations(B) \in Seq(Tags)
           /\ Len(Migrations(B)) = Cardinality(ToSet(B))
<1> DEFINE S == ToSet(B)
           n == Cardinality(S)
           rank == [t \in S |-> Cardinality(TagsBefore(B, t)) + 1]
<1>1. n \in Nat /\ IsFiniteSet(1..n) /\ Cardinality(1..n) = n
  BY FS_CardinalityType, FS_Interval
<1>2. ASSUME NEW t \in S
      PROVE  /\ IsFiniteSet(TagsBefore(B, t))
             /\ Cardinality(TagsBefore(B, t)) \in Nat
             /\ Cardinality(TagsBefore(B, t)) < n
  <2>1. TagsBefore(B, t) \in SUBSET S /\ t \notin TagsBefore(B, t)
    BY TotallyOrdered DEF TagsBefore
  <2>2. /\ IsFiniteSet(TagsBefore(B, t)) /\ Cardinality(TagsBefore(B, t)) <= n
        /\ (Cardinality(TagsBefore(B, t)) = n => TagsBefore(B, t) = S)
    BY <2>1, FS_Subset
  <2>3. Cardinality(TagsBefore(B, t)) \in Nat
    BY <2>2, FS_CardinalityType
  <2>4. TagsBefore(B, t) # S
    BY <2>1
  <2> HIDE DEF n
  <2> QED BY <2>2, <2>3, <2>4, <1>1
<1>3. ASSUME NEW a \in S, NEW b \in S, Before(B, a, b)
      PROVE  Cardinality(TagsBefore(B, a)) < Cardinality(TagsBefore(B, b))
  <2>1. TagsBefore(B, a) \in SUBSET TagsBefore(B, b)
    BY <1>3, TotallyOrdered DEF TagsBefore
  <2>2. a \in TagsBefore(B, b) /\ a \notin TagsBefore(B, a)
    BY <1>3, TotallyOrdered DEF TagsBefore
  <2>3. /\ Cardinality(TagsBefore(B, a)) <= Cardinality(TagsBefore(B, b))
        /\ (Cardinality(TagsBefore(B, b)) = Cardinality(TagsBefore(B, a))
              => TagsBefore(B, b) = TagsBefore(B, a))
    BY <1>2, <2>1, FS_Subset
  <2> QED BY <2>2, <2>3, <1>2
<1>4. rank \in Injection(S, 1..n)
  <2>1. \A t \in S : rank[t] \in 1..n
    <3> HIDE DEF n
    <3> QED BY <1>1, <1>2
  <2>2. ASSUME NEW a \in S, NEW b \in S, rank[a] = rank[b], a # b PROVE FALSE
    <3>1. Cardinality(TagsBefore(B, a)) = Cardinality(TagsBefore(B, b))
      BY <2>2, <1>2
    <3>2. Before(B, a, b) \/ Before(B, b, a)
      BY <2>2, TotallyOrdered
    <3> QED BY <3>1, <3>2, <1>2, <1>3
  <2>3. rank \in [S -> 1..n]
    BY <2>1
  <2>4. \A a, b \in DOMAIN rank : rank[a] = rank[b] => a = b
    BY <2>2
  <2> HIDE DEF n, rank, S
  <2> QED BY <2>3, <2>4 DEF Injection, IsInjective
<1>5. rank \in Surjection(S, 1..n)
  <2>1. Cardinality(S) = Cardinality(1..n)
    BY <1>1
  <2> HIDE DEF n, rank, S
  <2> QED BY <1>1, <1>4, <2>1, FS_Injection
<1>6. ASSUME NEW i \in 1..n PROVE TagsAt(B, i) # {}
  <2>1. PICK t \in S : rank[t] = i
    BY <1>5 DEF Surjection
  <2>2. Cardinality(TagsBefore(B, t)) = i - 1
    <3>1. Cardinality(TagsBefore(B, t)) + 1 = i
      BY <2>1
    <3> QED BY <3>1, <1>2
  <2> QED BY <2>2 DEF TagsAt
<1>7. ASSUME NEW i \in 1..n PROVE Migrations(B)[i] \in S
  <2>1. Migrations(B)[i] = CHOOSE tag \in TagsAt(B, i) : TRUE
    BY DEF Migrations
  <2>2. (CHOOSE tag \in TagsAt(B, i) : TRUE) \in TagsAt(B, i)
    BY <1>6
  <2> QED BY <2>1, <2>2 DEF TagsAt
<1>8. S \subseteq Tags
  BY DEF ToSet
<1>9. Migrations(B) \in [1..n -> Tags]
  <2>1. Migrations(B) = [i \in 1..n |-> CHOOSE tag \in TagsAt(B, i) : TRUE]
    BY DEF Migrations
  <2>2. Migrations(B) = [i \in 1..n |-> Migrations(B)[i]]
    BY <2>1
  <2> HIDE DEF n, S
  <2> QED BY <2>2, <1>7, <1>8
<1> HIDE DEF n, S
<1>10. Migrations(B) \in Seq(Tags) /\ Len(Migrations(B)) = n
  BY <1>1, <1>9
<1> QED BY <1>1, <1>7, <1>10 DEF n, S

\* Where the old tags keep their order and the new one comes after them all,
\* the migrations get longer by one and are otherwise what they were.
LEMMA NewTagGoesLast ==
    ASSUME NEW B \in Seq(Tags), IsInjective(B), IsFiniteSet(ToSet(B)),
           NEW C \in Seq(Tags), IsInjective(C), IsFiniteSet(ToSet(C)),
           NEW x, x \notin ToSet(B), ToSet(C) = ToSet(B) \cup {x},
           \A a, b \in ToSet(B) : Before(C, a, b) <=> Before(B, a, b),
           \A a \in ToSet(B) : Before(C, a, x)
    PROVE  /\ Len(Migrations(B)) <= Len(Migrations(C))
           /\ \A i \in 1..Len(Migrations(B)) : Migrations(C)[i] = Migrations(B)[i]
<1> DEFINE n == Cardinality(ToSet(B))
<1>1. /\ n \in Nat /\ Cardinality(ToSet(C)) = n + 1
      /\ Len(Migrations(B)) = n /\ Len(Migrations(C)) = n + 1
  BY FS_AddElement, SortedIntoTags
<1>2. ASSUME NEW a \in ToSet(B) PROVE TagsBefore(C, a) = TagsBefore(B, a)
  <2>1. ~Before(C, x, a)
    BY TotallyOrdered
  <2> QED BY <2>1 DEF TagsBefore
<1>3. TagsBefore(C, x) = ToSet(B)
  <2>1. ~Before(C, x, x)
    BY TotallyOrdered
  <2> QED BY <2>1 DEF TagsBefore
<1>4. ASSUME NEW i \in 1..n PROVE TagsAt(C, i) = TagsAt(B, i)
  <2>1. Cardinality(TagsBefore(C, x)) # i - 1
    BY <1>1, <1>3
  <2> QED BY <2>1, <1>2 DEF TagsAt
<1>5. ASSUME NEW i \in 1..n PROVE Migrations(C)[i] = Migrations(B)[i]
  <2>1. i \in 1..Cardinality(ToSet(C)) /\ i \in 1..Cardinality(ToSet(B))
    BY <1>1
  <2> QED BY <2>1, <1>4 DEF Migrations
<1> HIDE DEF n
<1> QED BY <1>1, <1>5

\* What inserting an element that is not there yet makes of a sequence.
LEMMA Inserted ==
    ASSUME NEW T, NEW s \in Seq(T), IsInjective(s), NEW e \in T, e \notin ToSet(s),
           NEW i \in 1..(Len(s) + 1)
    PROVE  /\ InsertAt(s, i, e) \in Seq(T) /\ IsInjective(InsertAt(s, i, e))
           /\ ToSet(InsertAt(s, i, e)) = ToSet(s) \cup {e}
           /\ \A a, b \in ToSet(s) :
                 FirstAppearance(InsertAt(s, i, e), a) < FirstAppearance(InsertAt(s, i, e), b)
                    <=> FirstAppearance(s, a) < FirstAppearance(s, b)
           /\ i = Len(s) + 1 => \A a \in ToSet(s) :
                 FirstAppearance(InsertAt(s, i, e), a) < FirstAppearance(InsertAt(s, i, e), e)
<1> DEFINE front == SubSeq(s, 1, i - 1)
           back == SubSeq(s, i, Len(s))
           r == InsertAt(s, i, e)
           at(j) == IF j < i THEN j ELSE j + 1
<1>1. Len(s) \in Nat /\ DOMAIN s = 1..Len(s) /\ i \in Int
  OBVIOUS
<1>2. /\ front \in Seq(T) /\ Len(front) = i - 1
      /\ \A j \in 1..(i - 1) : front[j] = s[j]
  BY <1>1
<1>3. /\ back \in Seq(T) /\ Len(back) = Len(s) - i + 1
      /\ \A j \in 1..(Len(s) - i + 1) : back[j] = s[j + i - 1]
  BY <1>1
<1>4. r = front \o <<e>> \o back
  BY DEF InsertAt
<1> HIDE DEF front, back, r
<1>5. /\ r \in Seq(T) /\ Len(r) = Len(s) + 1 /\ r[i] = e
      /\ \A j \in 1..(i - 1) : r[j] = s[j]
      /\ \A j \in (i + 1)..(Len(s) + 1) : r[j] = s[j - 1]
  <2> DEFINE u == front \o <<e>>
  <2>1. /\ u \in Seq(T) /\ Len(u) = i /\ u[i] = e
        /\ \A j \in 1..(i - 1) : u[j] = s[j]
    BY <1>1, <1>2
  <2>2. r = u \o back
    BY <1>4
  <2> HIDE DEF u
  <2>3. /\ r \in Seq(T) /\ Len(r) = Len(s) + 1
        /\ \A j \in 1..i : r[j] = u[j]
        /\ \A j \in (i + 1)..(Len(s) + 1) : r[j] = back[j - i]
    BY <2>1, <2>2, <1>1, <1>3
  <2>4. \A j \in (i + 1)..(Len(s) + 1) : j - i \in 1..(Len(s) - i + 1) /\ (j - i) + i - 1 = j - 1
    BY <1>1
  <2>5. \A j \in (i + 1)..(Len(s) + 1) : r[j] = s[j - 1]
    BY <2>3, <2>4, <1>3
  <2> QED BY <2>1, <2>3, <2>5, <1>1
<1>6. \A j \in 1..Len(s) : at(j) \in 1..(Len(s) + 1) /\ at(j) # i /\ r[at(j)] = s[j]
  BY <1>1, <1>5
<1>7. \A j \in 1..(Len(s) + 1) : j = i \/ (\E k \in 1..Len(s) : j = at(k))
  <2> SUFFICES ASSUME NEW j \in 1..(Len(s) + 1), j # i PROVE \E k \in 1..Len(s) : j = at(k)
    OBVIOUS
  <2>1. CASE j < i
    <3>1. j \in 1..Len(s) /\ j = at(j)
      BY <2>1, <1>1
    <3> QED BY <3>1
  <2>2. CASE j > i
    <3>1. j - 1 \in 1..Len(s) /\ j = at(j - 1)
      BY <2>2, <1>1
    <3> QED BY <3>1
  <2> QED BY <2>1, <2>2, <1>1
<1>8. \A j \in 1..(Len(s) + 1) : j = i \/ (\E k \in 1..Len(s) : j = at(k) /\ r[j] = s[k])
  BY <1>6, <1>7
<1>9. \A j, k \in 1..Len(s) : at(j) < at(k) <=> j < k
  BY <1>1
<1>10. DOMAIN r = 1..(Len(s) + 1)
  BY <1>5
<1> HIDE DEF at
<1>11. \A j, k \in DOMAIN s : s[j] = s[k] => j = k
  BY DEF IsInjective
<1>12. IsInjective(r)
  <2> SUFFICES ASSUME NEW j \in DOMAIN r, NEW k \in DOMAIN r, r[j] = r[k] PROVE j = k
    BY DEF IsInjective
  <2>1. \A l \in 1..Len(s) : s[l] # e
    BY <1>1 DEF ToSet
  <2>2. CASE j = i
    BY <2>1, <2>2, <1>5, <1>8, <1>10
  <2>3. CASE k = i
    BY <2>1, <2>3, <1>5, <1>8, <1>10
  <2>4. CASE j # i /\ k # i
    <3>1. PICK l \in 1..Len(s) : j = at(l)
      BY <2>4, <1>7, <1>10
    <3>2. PICK m \in 1..Len(s) : k = at(m)
      BY <2>4, <1>7, <1>10
    <3>3. s[l] = s[m]
      BY <3>1, <3>2, <1>6
    <3> QED BY <3>1, <3>2, <3>3, <1>1, <1>11
  <2> QED BY <2>2, <2>3, <2>4
<1>13. ToSet(r) = ToSet(s) \cup {e}
  <2>1. ToSet(r) = {r[j] : j \in 1..(Len(s) + 1)} /\ ToSet(s) = {s[j] : j \in 1..Len(s)}
    BY <1>1, <1>10 DEF ToSet
  <2>2. ASSUME NEW y \in ToSet(r) PROVE y \in ToSet(s) \cup {e}
    <3>1. PICK j \in 1..(Len(s) + 1) : y = r[j]
      BY <2>1, <2>2
    <3> QED BY <3>1, <2>1, <1>5, <1>8
  <2>3. ASSUME NEW y \in ToSet(s) PROVE y \in ToSet(r)
    BY <2>1, <2>3, <1>6
  <2>4. e \in ToSet(r)
    BY <2>1, <1>5, <1>1
  <2> QED BY <2>2, <2>3, <2>4
<1>14. ASSUME NEW a \in ToSet(s)
       PROVE  \E j \in 1..Len(s) :
                 a = s[j] /\ FirstAppearance(s, a) = j /\ FirstAppearance(r, a) = at(j)
  <2>1. PICK j \in 1..Len(s) : a = s[j]
    BY <1>1 DEF ToSet
  <2>2. FirstAppearance(s, a) = j
    BY <2>1, <1>1, AppearsOnce
  <2>3. FirstAppearance(r, a) = at(j)
    BY <2>1, <1>5, <1>6, <1>10, <1>12, AppearsOnce
  <2> QED BY <2>1, <2>2, <2>3
<1>15. \A a, b \in ToSet(s) : FirstAppearance(r, a) < FirstAppearance(r, b)
                                <=> FirstAppearance(s, a) < FirstAppearance(s, b)
  BY <1>9, <1>14
<1>16. i = Len(s) + 1 => \A a \in ToSet(s) : FirstAppearance(r, a) < FirstAppearance(r, e)
  <2>1. FirstAppearance(r, e) = i
    <3>1. i \in DOMAIN r
      BY <1>10
    <3> QED BY <3>1, <1>5, <1>12, AppearsOnce
  <2>2. i = Len(s) + 1 => \A j \in 1..Len(s) : at(j) < i
    BY <1>1 DEF at
  <2> QED BY <2>1, <2>2, <1>14
<1> QED BY <1>5, <1>12, <1>13, <1>15, <1>16 DEF r

\* And appending one, after which the others appear where they did.
LEMMA Appended ==
    ASSUME NEW T, NEW s \in Seq(T), IsInjective(s), NEW e, e \notin ToSet(s)
    PROVE  /\ Append(s, e) \in Seq(T \cup {e}) /\ IsInjective(Append(s, e))
           /\ ToSet(Append(s, e)) = ToSet(s) \cup {e}
           /\ \A a \in ToSet(s) : FirstAppearance(Append(s, e), a) = FirstAppearance(s, a)
<1> DEFINE r == Append(s, e)
<1>1. /\ r \in Seq(T \cup {e}) /\ Len(r) = Len(s) + 1 /\ r[Len(s) + 1] = e
      /\ \A j \in 1..Len(s) : r[j] = s[j]
  OBVIOUS
<1> HIDE DEF r
<1>2. Len(s) \in Nat /\ DOMAIN s = 1..Len(s) /\ DOMAIN r = 1..(Len(s) + 1)
  BY <1>1
<1>3. \A j \in DOMAIN r : j \in DOMAIN s \/ j = Len(s) + 1
  BY <1>2
<1>4. DOMAIN s \subseteq DOMAIN r /\ Len(s) + 1 \in DOMAIN r
  BY <1>2
<1>5. \A j \in DOMAIN s : r[j] = s[j] /\ s[j] \in ToSet(s)
  BY <1>1, <1>2 DEF ToSet
<1>6. ToSet(r) = ToSet(s) \cup {e}
  BY <1>1, <1>3, <1>4, <1>5 DEF ToSet
<1>7. IsInjective(r)
  BY <1>1, <1>3, <1>5 DEF IsInjective
<1>8. ASSUME NEW a \in ToSet(s) PROVE FirstAppearance(r, a) = FirstAppearance(s, a)
  <2>1. PICK j \in DOMAIN s : a = s[j]
    BY DEF ToSet
  <2>2. FirstAppearance(s, a) = j
    BY <2>1, AppearsOnce
  <2>3. FirstAppearance(r, a) = j
    BY <2>1, <1>1, <1>4, <1>5, <1>7, AppearsOnce
  <2> QED BY <2>2, <2>3
<1> QED BY <1>1, <1>6, <1>7, <1>8 DEF r

-----------------------------------------------------------------------------
(* Deploy: what every run relies on                                        *)

\* Steps that only Workers, AWS or Kubernetes have.
StageInv ==
    /\ stage \in {"account", "zone", "kv", "saveKv", "d1", "saveD1", "render", "assets",
                  "deploy", "list", "put", "mark"} => tool = "cf"
    /\ stage = "build" => tool = "aws"
    /\ stage \in {"tools", "images", "apply"} => tool = "node"
    /\ stage \in {"secrets", "verify"} => tool # "cf"

\* Past its check, a secrets file that is needed is there.
FileInv ==
    stage \notin {"idle", "file", "tools"} /\ NeedsFile => file # Missing

\* Every declared secret is looked at, once.
LeftInv ==
    /\ IsFiniteSet(declared)
    /\ IsInjective(left)
    /\ stage \notin {"idle", "put", "mark", "secrets", "apply", "verify"} =>
          ToSet(left) = declared

\* Nothing is saved or wired that is not there, and where every listing could
\* be read, of each kind there is only one.
ResourceInv ==
    /\ ~warned => \A k \in Kinds : \A i, j \in remote[k] : i = j
    /\ \A k \in Kinds :
          mem.ids[k] \in remote[k] \cup {0} /\ disk.ids[k] \in remote[k] \cup {0}
    /\ tool = "cf" /\ live => \A k \in Kinds : wired[k] \in remote[k]
    /\ stage \in {"assets", "deploy"} => \A k \in Kinds : mem.ids[k] # 0

\* A run knows what its state file says of the secrets.
MemInv ==
    stage \notin {"idle", "file", "tools", "account", "zone", "state"} =>
        mem.marks = disk.marks /\ mem.cache = disk.cache

\* A secret of a Worker is bound, or its turn is still to come; and a listing
\* holds for those whose turn is still to come.
PutInv ==
    /\ stage \in {"put", "mark"} /\ ~warned =>
          seen.readable /\ \A s \in declared \ ToSet(left) : bound[s] # 0
    /\ stage = "put" /\ seen.readable =>
          \A s \in ToSet(left) : s \in seen.names <=> bound[s] # 0
    /\ stage = "mark" =>
          /\ bound[Head(left)] # 0
          /\ seen.readable =>
                \A s \in ToSet(Tail(left)) : s \in seen.names <=> bound[s] # 0
    /\ tool = "cf" /\ stage = "idle" /\ ended = "ok" /\ ~warned =>
          \A s \in declared : bound[s] # 0

\* The state file knows of every generated secret of a Worker, or may have it
\* replaced, or learns of it with the next step.
KnownInv ==
    tool = "cf" =>
        /\ \A s \in Generated \ excused :
              bound[s] # 0 => s \in disk.marks \/ (stage = "mark" /\ s = Head(left))
        /\ rotate => ToSet(left) \cap Generated \subseteq excused

\* The state file of deploy-aws has the values in use, and those about to be.
CacheInv ==
    tool = "aws" =>
        /\ \A s \in Generated \ excused : bound[s] # 0 => bound[s] = disk.cache[s]
        /\ rotate /\ stage # "verify" => Generated \subseteq excused
        /\ stage = "secrets" =>
              \A s \in declared \ ToSet(left) :
                  IF s \in FromFile THEN file # Blank ELSE mem.cache[s] # 0

\* On AWS a version comes with its secrets.
UseInv ==
    tool = "aws" =>
        /\ live => \A s \in code : bound[s] # 0
        /\ stage = "verify" \/ (stage = "idle" /\ ended = "ok") =>
              \A s \in declared \cap FromFile : bound[s] = file

\* On Kubernetes the Secret is filled before the manifests are applied, with
\* all that the version in the image declares; under a tag of their own the
\* pods start with both, now or when they are started later or again.
PodInv ==
    tool = "node" =>
        /\ stage \in {"secrets", "apply"} => kube.image = declared
        /\ stage \in {"apply", "verify"} \/ (stage = "idle" /\ ended = "ok") =>
              \A s \in declared : /\ kube.secret[s] # 0
                                  /\ s \in FromFile => kube.secret[s] = file
        /\ kube.pinned =>
              /\ \A s \in kube.spec : kube.secret[s] # 0
              /\ \A s \in code : bound[s] # 0 /\ kube.secret[s] # 0
              /\ ~warned /\ (stage = "verify" \/ (stage = "idle" /\ ended = "ok")) =>
                    code = declared /\ kube.spec = declared /\ bound = kube.secret

\* No deployed Worker is ahead of the migrations of its configuration.
TagInv ==
    /\ IsInjective(classTags)
    /\ tool = "cf" /\ live => IsPrefix(applied, Migrations(Bindings))

DeployInv ==
    /\ DeployTypeOK /\ StageInv /\ FileInv /\ LeftInv /\ ResourceInv /\ MemInv
    /\ PutInv /\ KnownInv /\ CacheInv /\ UseInv /\ PodInv /\ TagInv

USE DEF config, run, cloud

\* There are five tags.
LEMMA FewIsFinite ==
    ASSUME NEW a, NEW b, NEW c, NEW d, NEW e
    PROVE  IsFiniteSet({a, b, c, d, e})
<1>1. IsFiniteSet({a})
  BY FS_Singleton
<1>2. IsFiniteSet({a} \cup {b})
  BY <1>1, FS_AddElement
<1>3. IsFiniteSet(({a} \cup {b}) \cup {c})
  BY <1>2, FS_AddElement
<1>4. IsFiniteSet((({a} \cup {b}) \cup {c}) \cup {d})
  BY <1>3, FS_AddElement
<1>5. IsFiniteSet(((({a} \cup {b}) \cup {c}) \cup {d}) \cup {e})
  BY <1>4, FS_AddElement
<1>6. ((({a} \cup {b}) \cup {c}) \cup {d}) \cup {e} = {a, b, c, d, e}
  OBVIOUS
<1> QED BY <1>5, <1>6

\* Bindings, of any configuration.
BindingsOf(tags, adopted) == IF adopted THEN Append(tags, HubTag) ELSE tags

\* The hub at the end of the binding array leaves the classes as they were.
LEMMA BindingsAreTags ==
    ASSUME NEW tags \in Seq(ClassTags), IsInjective(tags), NEW adopted \in BOOLEAN
    PROVE  LET B == BindingsOf(tags, adopted) IN
           /\ B \in Seq(Tags) /\ IsInjective(B) /\ IsFiniteSet(ToSet(B))
           /\ ToSet(B) = ToSet(tags) \cup (IF adopted THEN {HubTag} ELSE {})
           /\ ToSet(tags) \subseteq ClassTags /\ HubTag \notin ClassTags
           /\ \A a, b \in ToSet(tags) : Before(B, a, b) <=> Before(tags, a, b)
           /\ Migrations(B) \in Seq(Tags)
<1> DEFINE B == BindingsOf(tags, adopted)
<1>1. ToSet(tags) \subseteq ClassTags
  BY DEF ToSet
<1>2. HubTag \notin ClassTags
  BY DEF HubTag, ClassTags, BaseTags
<1>3. /\ B \in Seq(Tags) /\ IsInjective(B)
      /\ ToSet(B) = ToSet(tags) \cup (IF adopted THEN {HubTag} ELSE {})
      /\ \A a \in ToSet(tags) : FirstAppearance(B, a) = FirstAppearance(tags, a)
  <2>1. CASE adopted
    <3>1. B = Append(tags, HubTag) /\ HubTag \notin ToSet(tags)
      BY <1>1, <1>2, <2>1 DEF BindingsOf
    <3>2. /\ Append(tags, HubTag) \in Seq(ClassTags \cup {HubTag})
          /\ IsInjective(Append(tags, HubTag))
          /\ ToSet(Append(tags, HubTag)) = ToSet(tags) \cup {HubTag}
          /\ \A a \in ToSet(tags) :
                FirstAppearance(Append(tags, HubTag), a) = FirstAppearance(tags, a)
      BY <3>1, Appended
    <3> HIDE DEF B
    <3> QED BY <2>1, <3>1, <3>2 DEF Tags
  <2>2. CASE ~adopted
    <3>1. B = tags
      BY <2>2 DEF BindingsOf
    <3> QED BY <2>2, <3>1 DEF Tags
  <2> QED BY <2>1, <2>2
<1> HIDE DEF B
<1>4. IsFiniteSet(ToSet(B))
  <2>1. IsFiniteSet({"v1", "billing-v1", "v2", "v3", HubTag})
    BY FewIsFinite
  <2>2. ToSet(B) \in SUBSET {"v1", "billing-v1", "v2", "v3", HubTag}
    BY <1>1, <1>3 DEF ClassTags, BaseTags
  <2> QED BY <2>1, <2>2, FS_Subset
<1>5. \A a, b \in ToSet(tags) : Before(B, a, b) <=> Before(tags, a, b)
  BY <1>3 DEF Before
<1>6. Migrations(B) \in Seq(Tags)
  BY <1>3, <1>4, SortedIntoTags
<1> QED BY <1>1, <1>2, <1>3, <1>4, <1>5, <1>6 DEF B

\* What is left of the bounds.
Budgets == [faults : Nat, events : Nat, reruns : Nat]

\* Going on to the next stage, and nothing else.
Onward ==
    /\ UNCHANGED <<tool, config, rotate, mem, left, seen, ended, disk, cloud, excused,
                   warned, budget>>
    /\ \/ <<stage, stage'>> \in
              {<<"account", "zone">>, <<"zone", "state">>, <<"render", "assets">>,
               <<"assets", "deploy">>, <<"build", "secrets">>, <<"tools", "file">>,
               <<"kv", "d1">>, <<"d1", "render">>}
       \/ stage = "file" /\ stage' = AfterFile[tool]
    /\ stage = "render" => \A k \in Kinds : mem.ids[k] # 0
    /\ stage = "file" => ~(NeedsFile /\ file = Missing)

\* A run that ends early.
Fails ==
    /\ stage # "idle" /\ Exit("failed")
    /\ UNCHANGED <<tool, config, disk, cloud>>
    /\ warned' \in BOOLEAN /\ (warned => warned')
    /\ excused' \in {excused, excused \cup ({Head(left)} \cap Generated)}
    /\ stage = "mark" => excused' = excused \cup ({Head(left)} \cap Generated)
    /\ budget' \in Budgets

\* And spending of it leaves numbers.
LEMMA Spent ==
    ASSUME DeployTypeOK
    PROVE  /\ Fault => budget' \in Budgets
           /\ Event => budget' \in Budgets
           /\ budget.reruns > 0 => [budget EXCEPT !.reruns = @ - 1] \in Budgets
<1>1. budget \in Budgets
  BY DEF DeployTypeOK, Budgets
<1>2. budget.faults \in Nat /\ budget.events \in Nat /\ budget.reruns \in Nat
  BY <1>1 DEF Budgets
<1>3. budget.faults > 0 => [budget EXCEPT !.faults = @ - 1] \in Budgets
  BY <1>1, <1>2 DEF Budgets
<1>4. budget.events > 0 => [budget EXCEPT !.events = @ - 1] \in Budgets
  BY <1>1, <1>2 DEF Budgets
<1>5. budget.reruns > 0 => [budget EXCEPT !.reruns = @ - 1] \in Budgets
  BY <1>1, <1>2 DEF Budgets
<1> QED BY <1>3, <1>4, <1>5 DEF Fault, Event

\* Nothing is a state file, a listing and a binding of secrets, too.
LEMMA BlankTypes ==
    /\ Empty \in StateFiles /\ Unknown \in [readable : BOOLEAN, names : SUBSET Secrets]
    /\ Unknown.readable = FALSE /\ Empty.ids = [k \in Kinds |-> 0]
    /\ [k \in Kinds |-> 0] \in [Kinds -> {0} \cup Ids]
    /\ [s \in Secrets |-> 0] \in [Secrets -> {0} \cup Values]
    /\ Empty.cache = [s \in Secrets |-> 0] /\ Empty.marks = {}
    /\ Torn \in StateFiles /\ Torn.ids = [k \in Kinds |-> 0]
    /\ \A S : <<>> \in Seq(S)
<1>1. Empty \in StateFiles /\ Empty.ids = [k \in Kinds |-> 0]
      /\ Empty.cache = [s \in Secrets |-> 0] /\ Empty.marks = {}
  BY DEF Empty, StateFiles
<1>2. Torn = [Empty EXCEPT !.torn = TRUE] /\ TRUE \in BOOLEAN
  BY DEF Torn
<1> HIDE DEF Empty, Torn
<1>3. Torn \in StateFiles /\ Torn.ids = Empty.ids
  BY <1>1, <1>2 DEF StateFiles
<1>4. Unknown \in [readable : BOOLEAN, names : SUBSET Secrets] /\ Unknown.readable = FALSE
  BY DEF Unknown
<1>5. [k \in Kinds |-> 0] \in [Kinds -> {0} \cup Ids]
      /\ [s \in Secrets |-> 0] \in [Secrets -> {0} \cup Values]
      /\ \A S : <<>> \in Seq(S)
  OBVIOUS
<1> QED BY <1>1, <1>3, <1>4, <1>5

\* The steps of a run, those that only go on or end it early taken together.
LEMMA StepCases ==
    ASSUME DeployTypeOK, DeployNext
    PROVE  \/ BeginRun \/ Onward \/ Fails
           \/ LoadState \/ Tear \/ BuildImages \/ Restart
           \/ \E k \in Kinds : Adopt(k) \/ (Create(k) /\ stage' = Saving(k)) \/ Save(k)
           \/ DeployWorker \/ ListSecrets \/ Skip \/ Put \/ Mark \/ PutsDone
           \/ Resolve \/ DeployStack \/ SyncSecret \/ Apply \/ Verify
           \/ LoseStateFile \/ DeleteWorker \/ DeclareSecret \/ EditSecretsFile
           \/ AddClass \/ AdoptHub
<1>1. ASSUME Stop PROVE Fails
  BY <1>1, Spent DEF Stop, Fails, DeployTypeOK, Exit
<1>2. ASSUME MaterialMissing \/ StateUnreadable PROVE Fails
  BY <1>2 DEF MaterialMissing, StateUnreadable, Fails, DeployTypeOK, Budgets
<1>3. ASSUME LoadSecretsFile PROVE Fails \/ Onward
  BY <1>3 DEF LoadSecretsFile, Fails, Onward, Goes, DeployTypeOK, AfterFile, Budgets
<1>4. ASSUME EnsureAccount \/ CheckZone \/ EnsureTools \/ RenderWrangler \/ BuildAssets
                \/ BuildSpa
      PROVE  Onward
  BY <1>4 DEF EnsureAccount, CheckZone, EnsureTools, RenderWrangler, BuildAssets, BuildSpa,
              Goes, Onward
<1>5. ASSUME NEW k \in Kinds, Reuse(k) PROVE Onward
  BY <1>5 DEF Reuse, Goes, Onward, After, Kinds
<1>6. ASSUME NEW k \in Kinds, Create(k), stage' # Saving(k) PROVE Fails
  <2>1. k = "d1" /\ remote[k] # {} /\ Exit("failed") /\ UNCHANGED remote /\ stage = k
    BY <1>6 DEF Create, Saving
  <2>2. /\ budget' \in Budgets
        /\ warned' \in BOOLEAN /\ (warned => warned')
    BY <1>6, Spent DEF Create, DeployTypeOK, Budgets
  <2>3. UNCHANGED <<tool, config, disk, live, code, wired, bound, applied, kube, excused>>
    BY <1>6 DEF Create
  <2> QED BY <2>1, <2>2, <2>3 DEF Fails
<1>7. CASE Go
  BY <1>2, <1>3, <1>4, <1>5, <1>6, <1>7 DEF Go, ProvisionResources
<1> QED BY <1>1, <1>7 DEF DeployNext
\* The value of a secret that can be materialized.
LEMMA MaterialIsAValue ==
    ASSUME DeployTypeOK, FileInv, stage \notin {"idle", "file", "tools"},
           NEW s \in declared, Materializes(s)
    PROVE  Material(s) \in Values /\ (s \in FromFile => Material(s) = file)
<1>1. CASE s \in FromFile
  <2>1. file \notin {Missing, Blank} /\ file \in FileStates
    BY <1>1 DEF FileInv, NeedsFile, Materializes, DeployTypeOK
  <2> QED BY <1>1, <2>1 DEF Material, FileStates, Missing, Blank, Values
<1>2. CASE s \notin FromFile
  <2>1. \E v \in Values : v \notin {bound[s], mem.cache[s], kube.secret[s]}
    <3>1. 1 \in Values /\ 2 \in Values /\ 3 \in Values /\ 4 \in Values
      BY DEF Values
    <3> QED BY <3>1
  <2> QED BY <1>2, <2>1 DEF Material
<1> QED BY <1>1, <1>2

\* No step leaves the types: what is materialized is a value, what is created
\* has an id, what is rendered are tags.
LEMMA DeployTypeStep ==
    ASSUME DeployInv, [DeployNext]_deployVars
    PROVE  DeployTypeOK'
<1> USE DEF DeployTypeOK
<1>0. DeployTypeOK
  BY DEF DeployInv
<1>1. CASE UNCHANGED deployVars
  BY <1>0, <1>1 DEF deployVars
<1>2. CASE BeginRun
  <2>1. SetToSeq(declared) \in Seq(declared)
    BY ListsTheSet DEF DeployInv, LeftInv
  <2>2. PICK first \in {"file", "tools"} : BeginDeploy(first) /\ rotate' \in BOOLEAN
    BY <1>2 DEF BeginRun, BeginCf, BeginAws, BeginNode
  <2>3. budget' \in [faults : Nat, events : Nat, reruns : Nat]
    BY <1>0, <2>2, Spent DEF BeginDeploy, Budgets
  <2> QED BY <1>0, <2>1, <2>2, <2>3 DEF BeginDeploy, Generated
<1>3. CASE Onward
  BY <1>0, <1>3 DEF Onward, AfterFile
<1>4. CASE Fails
  BY <1>0, <1>4, BlankTypes DEF Fails, Exit, Budgets, Generated
<1>5. CASE LoadState
  BY <1>0, <1>5 DEF LoadState, AfterState
<1>6. ASSUME NEW k \in Kinds, Adopt(k) PROVE DeployTypeOK'
  <2>1. mem' \in StateFiles
    <3>1. PICK id \in remote[k] : mem' = [mem EXCEPT !.ids[k] = id]
      BY <1>6 DEF Adopt, Find
    <3>2. id \in Ids
      BY <1>0
    <3> QED BY <1>0, <3>1, <3>2 DEF StateFiles
  <2> QED BY <1>0, <1>6, <2>1 DEF Adopt, Saving
<1>7. ASSUME NEW k \in Kinds, Create(k), stage' = Saving(k) PROVE DeployTypeOK'
  <2>1. PICK id \in Ids : /\ remote' = [remote EXCEPT ![k] = @ \cup {id}]
                          /\ mem' = [mem EXCEPT !.ids[k] = id]
                          /\ UNCHANGED <<ended, rotate, left, seen>>
    BY <1>7 DEF Create, Exit, Saving
  <2>2. mem' \in StateFiles /\ remote' \in [Kinds -> SUBSET Ids]
    BY <1>0, <2>1 DEF StateFiles
  <2>3. budget' \in [faults : Nat, events : Nat, reruns : Nat] /\ warned' \in BOOLEAN
    BY <1>0, <1>7, Spent DEF Create, Budgets
  <2>4. UNCHANGED <<tool, config, disk, live, code, wired, bound, applied, kube, excused>>
    BY <1>7 DEF Create
  <2> QED BY <1>0, <1>7, <2>1, <2>2, <2>3, <2>4 DEF Saving
<1>8. ASSUME NEW k \in Kinds, Save(k) PROVE DeployTypeOK'
  BY <1>0, <1>8 DEF Save, After
<1>9. CASE DeployWorker
  <2>1. Migrations(Bindings) \in Seq(ClassTags \cup {HubTag})
    <3>1. Bindings = BindingsOf(classTags, hub)
      BY DEF Bindings, BindingsOf
    <3> QED BY <1>0, <3>1, BindingsAreTags DEF DeployInv, TagInv, Tags
  <2> QED BY <1>0, <1>9, <2>1 DEF DeployWorker, StateFiles
<1>10. CASE ListSecrets
  <2>1. seen' \in [readable : BOOLEAN, names : SUBSET Secrets]
    <3>1. {s \in Secrets : bound[s] # 0} \in SUBSET Secrets
      OBVIOUS
    <3>2. \A N \in SUBSET Secrets :
             [readable |-> TRUE, names |-> N] \in [readable : BOOLEAN, names : SUBSET Secrets]
      OBVIOUS
    <3>3. \/ seen' = [readable |-> TRUE, names |-> {s \in Secrets : bound[s] # 0}]
          \/ seen' = Unknown
      BY <1>10 DEF ListSecrets
    <3> QED BY <3>1, <3>2, <3>3, BlankTypes
  <2>2. budget' \in Budgets /\ warned' \in BOOLEAN
    BY <1>0, <1>10, Spent DEF ListSecrets, Budgets
  <2> QED BY <1>0, <1>10, <2>1, <2>2 DEF ListSecrets, Budgets
<1>11. CASE Skip
  BY <1>0, <1>11, Beheaded DEF Skip, DeployInv, LeftInv
<1>12. CASE Put
  <2>1. Head(left) \in declared /\ stage \notin {"idle", "file", "tools"}
    BY <1>0, <1>12, Beheaded DEF Put, DeployInv, LeftInv
  <2>2. Material(Head(left)) \in Values
    BY <1>0, <1>12, <2>1, MaterialIsAValue DEF Put, DeployInv
  <2> QED BY <1>0, <1>12, <2>1, <2>2 DEF Put
<1>13. CASE Mark
  <2>1. Head(left) \in declared /\ Tail(left) \in Seq(declared)
    BY <1>0, <1>13, Beheaded DEF Mark, DeployInv, LeftInv
  <2>2. mem' \in StateFiles
    BY <1>0, <1>13, <2>1 DEF Mark, StateFiles
  <2> QED BY <1>0, <1>13, <2>1, <2>2 DEF Mark
<1>14. CASE PutsDone \/ Verify
  <2>1. Exit("ok") /\ UNCHANGED <<tool, config, disk, cloud, excused, warned, budget>>
    BY <1>14 DEF PutsDone, Verify
  <2>2. /\ stage' = "idle" /\ ended' = "ok" /\ rotate' = FALSE
        /\ mem' \in StateFiles /\ left' \in Seq(declared')
        /\ seen' \in [readable : BOOLEAN, names : SUBSET Secrets]
    BY <2>1, BlankTypes DEF Exit
  <2> QED BY <1>0, <2>1, <2>2
<1>15. CASE Resolve
  <2>1. Head(left) \in declared /\ Tail(left) \in Seq(declared)
    BY <1>0, <1>15, Beheaded DEF Resolve, DeployInv, LeftInv
  <2>2. Material(Head(left)) \in Values
    BY <1>0, <1>15, <2>1, MaterialIsAValue DEF Resolve, DeployInv
  <2>3. mem' \in StateFiles /\ disk' = mem'
    BY <1>0, <1>15, <2>1, <2>2 DEF Resolve, StateFiles, Cached
  <2> QED BY <1>0, <1>15, <2>1, <2>3 DEF Resolve
<1>16. CASE DeployStack
  <2>1. \A s \in declared \cap FromFile : file \in Values
    <3>1. ASSUME NEW s \in declared \cap FromFile PROVE file \in Values
      <4>1. left = <<>> => s \notin ToSet(left)
        BY DEF ToSet
      <4>2. Materializes(s)
        BY <1>16, <4>1 DEF DeployStack, DeployInv, CacheInv, Materializes
      <4>3. Material(s) \in Values /\ Material(s) = file
        BY <1>16, <4>2, MaterialIsAValue DEF DeployStack, DeployInv
      <4> QED BY <4>3
    <3> QED BY <3>1
  <2>2. bound' \in [Secrets -> {0} \cup Values]
    BY <1>0, <1>16, <2>1 DEF DeployStack, StateFiles
  <2> QED BY <1>0, <1>16, <2>2 DEF DeployStack
<1>17. CASE SyncSecret
  <2>1. \A s \in declared : Material(s) \in Values
    BY <1>17, MaterialIsAValue DEF SyncSecret, DeployInv
  <2> DEFINE held == [s \in Secrets |-> IF s \in declared THEN Material(s) ELSE 0]
  <2>2. held \in [Secrets -> {0} \cup Values]
    BY <2>1
  <2> HIDE DEF held
  <2>3. kube' = [kube EXCEPT !.secret = held] /\ declared' = declared
    BY <1>17 DEF SyncSecret, held
  <2>4. kube' \in [secret : [Secrets -> {0} \cup Values], image : SUBSET declared',
                  spec : SUBSET declared', pinned : BOOLEAN]
    BY <1>0, <2>2, <2>3
  <2> QED BY <1>0, <1>17, <2>4 DEF SyncSecret
<1>18. CASE BuildImages \/ Apply \/ Restart
  <2>1. /\ kube.secret \in [Secrets -> {0} \cup Values]
        /\ kube.image \subseteq declared /\ kube.spec \subseteq declared
    BY <1>0
  <2>2. CASE BuildImages
    BY <1>0, <2>2 DEF BuildImages
  <2>3. CASE Apply
    <3>1. budget' \in Budgets /\ warned' \in BOOLEAN /\ live' \in BOOLEAN
      BY <1>0, <2>3, Spent DEF Apply, Budgets
    <3> QED BY <1>0, <2>1, <2>3, <3>1 DEF Apply, PodsStart, Budgets
  <2>4. CASE Restart
    BY <1>0, <2>1, <2>4 DEF Restart, PodsStart
  <2> QED BY <1>18, <2>2, <2>3, <2>4
<1>25. CASE Tear
  BY <1>0, <1>25, Spent, BlankTypes DEF Tear, Exit, Budgets, Generated
<1>19. CASE LoseStateFile
  BY <1>0, <1>19, Spent DEF LoseStateFile, Event, Empty, StateFiles, Generated, Budgets
<1>20. CASE DeleteWorker
  BY <1>0, <1>20, Spent, BlankTypes DEF DeleteWorker, Event, Budgets
<1>21. CASE DeclareSecret
  <2>1. PICK s \in Secrets : declared' = declared \cup {s}
    BY <1>21 DEF DeclareSecret
  <2>2. left \in Seq(declared')
    BY <1>0, <2>1
  <2>3. kube \in [secret : [Secrets -> {0} \cup Values], image : SUBSET declared',
                 spec : SUBSET declared', pinned : BOOLEAN]
    BY <1>0, <2>1
  <2> QED BY <1>0, <1>21, <2>1, <2>2, <2>3, Spent DEF DeclareSecret, Event, Budgets
<1>22. CASE EditSecretsFile
  BY <1>0, <1>22, Spent DEF EditSecretsFile, Event, Budgets
<1>23. CASE AddClass
  <2>1. PICK tag \in ClassTags, i \in 1..(Len(classTags) + 1) :
           tag \notin ToSet(classTags) /\ classTags' = InsertAt(classTags, i, tag)
    <3>1. Len(classTags) \in Nat
      BY <1>0
    <3> QED BY <1>23, <3>1 DEF AddClass
  <2>2. classTags' \in Seq(ClassTags)
    BY <1>0, <2>1, Inserted DEF DeployInv, TagInv
  <2> QED BY <1>0, <1>23, <2>2, Spent DEF AddClass, Event, Budgets
<1>24. CASE AdoptHub
  BY <1>0, <1>24, Spent DEF AdoptHub, Event, Budgets
<1> QED
  BY <1>0, <1>1, <1>2, <1>3, <1>4, <1>5, <1>6, <1>7, <1>8, <1>9, <1>10, <1>11, <1>12, <1>13,
     <1>14, <1>15, <1>16, <1>17, <1>18, <1>19, <1>20, <1>21, <1>22, <1>23, <1>24, <1>25,
     StepCases
\* Every tool goes through its own stages, past a secrets file that is there.
LEMMA FlowStep ==
    ASSUME DeployInv, [DeployNext]_deployVars
    PROVE  StageInv' /\ FileInv'
<1> USE DEF StageInv, FileInv, NeedsFile
<1>0. DeployTypeOK /\ StageInv /\ FileInv /\ tool \in {"cf", "aws", "node"}
  BY DEF DeployInv, DeployTypeOK
<1>1. CASE UNCHANGED deployVars
  BY <1>0, <1>1 DEF deployVars
<1>2. CASE BeginRun
  BY <1>0, <1>2 DEF BeginRun, BeginCf, BeginAws, BeginNode, BeginDeploy
<1>3. CASE Onward
  BY <1>0, <1>3 DEF Onward, AfterFile
<1>4. CASE Fails \/ Tear \/ PutsDone \/ Verify
  BY <1>0, <1>4 DEF Fails, Tear, PutsDone, Verify, Exit
<1>5. CASE LoadState
  BY <1>0, <1>5 DEF LoadState, AfterState
<1>6. ASSUME NEW k \in Kinds, Adopt(k) \/ (Create(k) /\ stage' = Saving(k)) \/ Save(k)
      PROVE  StageInv' /\ FileInv'
  <2>1. /\ UNCHANGED <<tool, config>>
        /\ stage \in {"kv", "saveKv", "d1", "saveD1"}
        /\ stage' \in {"saveKv", "saveD1", "d1", "render"}
    BY <1>6 DEF Adopt, Create, Save, Saving, After, Kinds
  <2> QED BY <1>0, <2>1
<1>7. CASE DeployWorker \/ ListSecrets \/ Skip \/ Put \/ Mark
  BY <1>0, <1>7 DEF DeployWorker, ListSecrets, Skip, Put, Mark
<1>8. CASE Resolve \/ DeployStack \/ BuildImages \/ SyncSecret \/ Apply \/ Restart
  BY <1>0, <1>8 DEF Resolve, DeployStack, BuildImages, SyncSecret, Apply, Restart
<1>9. CASE \/ LoseStateFile \/ DeleteWorker \/ DeclareSecret \/ EditSecretsFile
           \/ AddClass \/ AdoptHub
  BY <1>0, <1>9 DEF LoseStateFile, DeleteWorker, DeclareSecret, EditSecretsFile, AddClass,
                    AdoptHub, Event
<1> QED
  BY <1>0, <1>1, <1>2, <1>3, <1>4, <1>5, <1>6, <1>7, <1>8, <1>9, StepCases

\* A run begins with all the declared secrets and takes one off at a time.
LEMMA LeftStep ==
    ASSUME DeployInv, [DeployNext]_deployVars
    PROVE  LeftInv'
<1> USE DEF LeftInv
<1>0. DeployTypeOK /\ LeftInv /\ left \in Seq(declared)
  BY DEF DeployInv, DeployTypeOK
<1>1. CASE UNCHANGED deployVars
  BY <1>0, <1>1 DEF deployVars
<1>2. CASE BeginRun
  <2>1. left' = SetToSeq(declared) /\ declared' = declared
    BY <1>2 DEF BeginRun, BeginCf, BeginAws, BeginNode, BeginDeploy
  <2> QED BY <1>0, <2>1, ListsTheSet
<1>3. CASE Onward
  BY <1>0, <1>3 DEF Onward
<1>4. CASE Fails \/ Tear \/ PutsDone \/ Verify
  <2>1. left' = <<>> /\ declared' = declared /\ stage' = "idle"
    BY <1>4 DEF Fails, Tear, PutsDone, Verify, Exit
  <2>2. IsInjective(<<>>)
    BY DEF IsInjective
  <2> QED BY <1>0, <2>1, <2>2
<1>5. CASE LoadState
  BY <1>0, <1>5 DEF LoadState
<1>6. ASSUME NEW k \in Kinds, Adopt(k) \/ (Create(k) /\ stage' = Saving(k)) \/ Save(k)
      PROVE  LeftInv'
  <2>1. /\ UNCHANGED <<left, declared>>
        /\ stage \in {"kv", "saveKv", "d1", "saveD1"}
    BY <1>6 DEF Adopt, Create, Save, Saving, Kinds, Exit
  <2> QED BY <1>0, <2>1
<1>7. CASE Skip \/ Mark \/ Resolve
  <2>1. /\ left # <<>> /\ left' = Tail(left) /\ declared' = declared
        /\ stage' \in {"put", "mark", "secrets"}
    BY <1>0, <1>7 DEF Skip, Mark, Resolve, DeployTypeOK
  <2> QED BY <1>0, <2>1, Beheaded
<1>8. CASE \/ DeployWorker \/ ListSecrets \/ Put \/ DeployStack
           \/ BuildImages \/ SyncSecret \/ Apply \/ Restart
  BY <1>0, <1>8 DEF DeployWorker, ListSecrets, Put, DeployStack, BuildImages, SyncSecret,
                    Apply, Restart
<1>9. CASE LoseStateFile \/ DeleteWorker \/ EditSecretsFile \/ AddClass \/ AdoptHub
  BY <1>0, <1>9 DEF LoseStateFile, DeleteWorker, EditSecretsFile, AddClass, AdoptHub
<1>10. CASE DeclareSecret
  <2>1. PICK s \in Secrets : declared' = declared \cup {s}
    BY <1>10 DEF DeclareSecret
  <2>2. left' = left /\ stage' = "idle"
    BY <1>10 DEF DeclareSecret, Event
  <2> QED BY <1>0, <2>1, <2>2, FS_AddElement
<1> QED
  BY <1>0, <1>1, <1>2, <1>3, <1>4, <1>5, <1>6, <1>7, <1>8, <1>9, <1>10, StepCases

\* A resource is created where the listing shows none, and saved by its id.
LEMMA ResourceStep ==
    ASSUME DeployInv, [DeployNext]_deployVars
    PROVE  ResourceInv'
<1> USE DEF ResourceInv
<1>0. DeployTypeOK /\ StageInv /\ ResourceInv
  BY DEF DeployInv
<1>1. CASE UNCHANGED deployVars
  BY <1>0, <1>1 DEF deployVars
<1>2. CASE BeginRun
  BY <1>0, <1>2 DEF BeginRun, BeginCf, BeginAws, BeginNode, BeginDeploy
<1>3. CASE Onward
  <2>1. stage' \in {"assets", "deploy"} => stage \in {"render", "assets"}
    BY <1>0, <1>3 DEF Onward, AfterFile, DeployTypeOK
  <2> QED BY <1>0, <1>3, <2>1 DEF Onward
<1>4. CASE Fails \/ PutsDone \/ Verify
  <2>1. /\ UNCHANGED <<tool, remote, live, wired, disk>> /\ (warned => warned')
        /\ mem' = Empty /\ stage' = "idle"
    BY <1>4 DEF Fails, PutsDone, Verify, Exit
  <2> QED BY <1>0, <2>1, BlankTypes
<1>5. CASE LoadState
  <2>1. stage' \notin {"assets", "deploy"}
    BY <1>0, <1>5 DEF LoadState, AfterState, DeployTypeOK
  <2> QED BY <1>0, <1>5, <2>1 DEF LoadState
<1>6. ASSUME NEW k \in Kinds, Adopt(k) PROVE ResourceInv'
  <2>1. PICK id \in remote[k] : mem' = [mem EXCEPT !.ids[k] = id]
    BY <1>6 DEF Adopt, Find
  <2>2. \A j \in Kinds : mem'.ids[j] = IF j = k THEN id ELSE mem.ids[j]
    BY <1>0, <2>1 DEF DeployTypeOK, StateFiles
  <2>3. /\ UNCHANGED <<tool, remote, live, wired, disk, warned>>
        /\ stage' \notin {"assets", "deploy"}
    BY <1>6 DEF Adopt, Saving
  <2> QED BY <1>0, <2>1, <2>2, <2>3
<1>7. ASSUME NEW k \in Kinds, Create(k), stage' = Saving(k) PROVE ResourceInv'
  <2>1. PICK id \in Ids : /\ remote' = [remote EXCEPT ![k] = @ \cup {id}]
                          /\ mem' = [mem EXCEPT !.ids[k] = id]
    BY <1>7 DEF Create, Exit, Saving
  <2>2. \A j \in Kinds : /\ mem'.ids[j] = IF j = k THEN id ELSE mem.ids[j]
                         /\ remote'[j] = IF j = k THEN remote[k] \cup {id} ELSE remote[j]
    BY <1>0, <2>1 DEF DeployTypeOK, StateFiles
  <2>3. /\ UNCHANGED <<tool, live, wired, disk>> /\ (warned => warned')
        /\ (~warned' => remote[k] = {})
        /\ stage' \notin {"assets", "deploy"}
    BY <1>7 DEF Create, Saving, Find
  <2> QED BY <1>0, <2>1, <2>2, <2>3
<1>8. ASSUME NEW k \in Kinds, Save(k) PROVE ResourceInv'
  BY <1>0, <1>8 DEF Save, After
<1>9. CASE DeployWorker
  BY <1>0, <1>9 DEF DeployWorker
<1>10. CASE Mark
  <2>1. mem'.ids = mem.ids /\ disk' = mem'
    BY <1>0, <1>10 DEF Mark, DeployTypeOK, StateFiles
  <2> QED BY <1>0, <1>10, <2>1 DEF Mark
<1>11. CASE Resolve
  <2>1. mem'.ids = mem.ids /\ disk' = mem'
    BY <1>0, <1>11 DEF Resolve, Cached, DeployTypeOK, StateFiles
  <2> QED BY <1>0, <1>11, <2>1 DEF Resolve
<1>12. CASE ListSecrets \/ Skip \/ Put
  BY <1>0, <1>12 DEF ListSecrets, Skip, Put
<1>13. CASE DeployStack \/ BuildImages \/ SyncSecret \/ Apply \/ Restart
  BY <1>0, <1>13 DEF DeployStack, BuildImages, SyncSecret, Apply, Restart, StageInv
<1>14. CASE LoseStateFile
  <2>1. disk'.ids = [k \in Kinds |-> 0]
    BY <1>14, BlankTypes DEF LoseStateFile
  <2> QED BY <1>0, <1>14, <2>1 DEF LoseStateFile
<1>16. CASE Tear
  <2>1. /\ UNCHANGED <<tool, remote, live, wired, warned>> /\ mem' = Empty /\ disk' = Torn
        /\ stage' = "idle"
    BY <1>16 DEF Tear, Exit
  <2> QED BY <1>0, <2>1, BlankTypes
<1>15. CASE DeleteWorker \/ DeclareSecret \/ EditSecretsFile \/ AddClass \/ AdoptHub
  BY <1>0, <1>15 DEF DeleteWorker, DeclareSecret, EditSecretsFile, AddClass, AdoptHub
<1> QED
  BY <1>0, <1>1, <1>2, <1>3, <1>4, <1>5, <1>6, <1>7, <1>8, <1>9, <1>10, <1>11, <1>12, <1>13,
     <1>14, <1>15, <1>16, StepCases

\* What a run learns of the secrets it saves at once.
LEMMA MemStep ==
    ASSUME DeployInv, [DeployNext]_deployVars
    PROVE  MemInv'
<1> USE DEF MemInv
<1>0. DeployTypeOK /\ StageInv /\ MemInv
  BY DEF DeployInv
<1>1. CASE UNCHANGED deployVars
  BY <1>0, <1>1 DEF deployVars
<1>2. CASE BeginRun
  BY <1>0, <1>2 DEF BeginRun, BeginCf, BeginAws, BeginNode, BeginDeploy
<1>3. CASE Onward
  BY <1>0, <1>3 DEF Onward, AfterFile, DeployTypeOK
<1>4. CASE Fails \/ Tear \/ PutsDone \/ Verify
  BY <1>4 DEF Fails, Tear, PutsDone, Verify, Exit
<1>5. CASE LoadState
  BY <1>5 DEF LoadState
<1>6. ASSUME NEW k \in Kinds, Adopt(k) PROVE MemInv'
  <2>1. mem'.marks = mem.marks /\ mem'.cache = mem.cache
    BY <1>0, <1>6 DEF Adopt, DeployTypeOK, StateFiles
  <2> QED BY <1>0, <1>6, <2>1 DEF Adopt, Kinds
<1>7. ASSUME NEW k \in Kinds, Create(k), stage' = Saving(k) PROVE MemInv'
  <2>1. PICK id \in Ids : mem' = [mem EXCEPT !.ids[k] = id]
    BY <1>7 DEF Create, Exit, Saving
  <2>2. mem'.marks = mem.marks /\ mem'.cache = mem.cache
    BY <1>0, <2>1 DEF DeployTypeOK, StateFiles
  <2> QED BY <1>0, <1>7, <2>2 DEF Create, Kinds
<1>8. ASSUME NEW k \in Kinds, Save(k) PROVE MemInv'
  BY <1>8 DEF Save
<1>9. CASE Mark \/ Resolve
  BY <1>9 DEF Mark, Resolve, Cached
<1>10. CASE \/ DeployWorker \/ ListSecrets \/ Skip \/ Put \/ DeployStack
            \/ BuildImages \/ SyncSecret \/ Apply \/ Restart
  BY <1>0, <1>10 DEF DeployWorker, ListSecrets, Skip, Put, DeployStack, BuildImages,
                     SyncSecret, Apply, Restart
<1>11. CASE \/ LoseStateFile \/ DeleteWorker \/ DeclareSecret \/ EditSecretsFile
            \/ AddClass \/ AdoptHub
  BY <1>11 DEF LoseStateFile, DeleteWorker, DeclareSecret, EditSecretsFile, AddClass,
               AdoptHub, Event
<1> QED
  BY <1>0, <1>1, <1>2, <1>3, <1>4, <1>5, <1>6, <1>7, <1>8, <1>9, <1>10, <1>11, StepCases
\* A secret is skipped only where it is bound: the listing holds until its turn.
LEMMA PutStep ==
    ASSUME DeployInv, [DeployNext]_deployVars
    PROVE  PutInv'
<1> USE DEF PutInv
<1>0. DeployTypeOK /\ StageInv /\ PutInv /\ left \in Seq(declared) /\ IsInjective(left)
  BY DEF DeployInv, DeployTypeOK, LeftInv
<1>1. CASE UNCHANGED deployVars
  BY <1>0, <1>1 DEF deployVars
<1>2. CASE BeginRun
  BY <1>2 DEF BeginRun, BeginCf, BeginAws, BeginNode, BeginDeploy
<1>3. CASE Onward
  BY <1>0, <1>3 DEF Onward, AfterFile, DeployTypeOK
<1>4. CASE Fails \/ Tear \/ LoadState \/ DeployWorker
  BY <1>0, <1>4 DEF Fails, Tear, Exit, LoadState, AfterState, DeployWorker, DeployTypeOK
<1>5. ASSUME NEW k \in Kinds, Adopt(k) \/ (Create(k) /\ stage' = Saving(k)) \/ Save(k)
      PROVE  PutInv'
  BY <1>5 DEF Adopt, Save, Saving, After
<1>6. CASE ListSecrets
  <2>1. /\ ToSet(left) = declared /\ UNCHANGED <<left, declared, bound>> /\ stage' = "put"
        /\ warned' \/ seen'.readable
    BY <1>6 DEF ListSecrets, DeployInv, LeftInv
  <2>2. seen'.readable => \A s \in declared : s \in seen'.names <=> bound[s] # 0
    <3>1. CASE seen' = Unknown
      BY <3>1, BlankTypes
    <3>2. CASE seen' = [readable |-> TRUE, names |-> {s \in Secrets : bound[s] # 0}]
      BY <3>2, <1>0 DEF DeployTypeOK
    <3> QED BY <1>6, <3>1, <3>2 DEF ListSecrets
  <2> QED BY <2>1, <2>2
<1>7. CASE Skip
  <2>1. /\ Head(left) \in ToSet(left) /\ ToSet(Tail(left)) = ToSet(left) \ {Head(left)}
        /\ left' = Tail(left) /\ stage' = "put" /\ stage = "put"
        /\ UNCHANGED <<tool, declared, seen, bound, warned>>
    BY <1>0, <1>7, Beheaded DEF Skip
  <2>2. seen.readable => bound[Head(left)] # 0
    BY <1>0, <1>7, <2>1 DEF Skip, EffectivelyProvisioned, Present
  <2> QED BY <1>0, <2>1, <2>2
<1>8. CASE Put
  <2>1. /\ Head(left) \in ToSet(left) /\ ToSet(Tail(left)) = ToSet(left) \ {Head(left)}
        /\ Head(left) \in declared /\ stage' = "mark" /\ stage = "put"
        /\ UNCHANGED <<tool, declared, left, seen, warned>>
    BY <1>0, <1>8, Beheaded DEF Put
  <2>2. Material(Head(left)) \in Values
    BY <1>0, <1>8, <2>1, MaterialIsAValue DEF Put, DeployInv
  <2>3. /\ \A s \in declared : s # Head(left) => bound'[s] = bound[s]
        /\ bound'[Head(left)] # 0
    BY <1>0, <1>8, <2>1, <2>2 DEF Put, DeployTypeOK, Values
  <2>4. \A s \in ToSet(left) : s \in declared
    BY <1>0 DEF ToSet
  <2> QED BY <1>0, <2>1, <2>3, <2>4
<1>9. CASE Mark
  <2>1. /\ left # <<>> /\ Head(left) \in ToSet(left)
        /\ ToSet(Tail(left)) = ToSet(left) \ {Head(left)}
        /\ left' = Tail(left) /\ stage' = "put" /\ stage = "mark"
        /\ UNCHANGED <<tool, declared, seen, bound, warned>>
    BY <1>0, <1>9, Beheaded DEF Mark, DeployTypeOK
  <2> QED BY <1>0, <2>1
<1>10. CASE PutsDone
  <2>1. /\ stage = "put" /\ ToSet(left) = {} /\ stage' = "idle"
        /\ UNCHANGED <<tool, declared, bound, warned>>
    BY <1>10 DEF PutsDone, Exit, ToSet
  <2> QED BY <1>0, <2>1
<1>11. CASE \/ Resolve \/ DeployStack \/ BuildImages \/ SyncSecret \/ Apply
            \/ Restart \/ Verify
  BY <1>0, <1>11 DEF Resolve, DeployStack, BuildImages, SyncSecret, Apply, Restart, Verify,
                     Exit, StageInv
<1>12. CASE \/ LoseStateFile \/ DeleteWorker \/ DeclareSecret \/ EditSecretsFile
            \/ AddClass \/ AdoptHub
  BY <1>12 DEF LoseStateFile, DeleteWorker, DeclareSecret, EditSecretsFile, AddClass,
               AdoptHub, Event
<1> QED
  BY <1>0, <1>1, <1>2, <1>3, <1>4, <1>5, <1>6, <1>7, <1>8, <1>9, <1>10, <1>11, <1>12,
     StepCases

\* A put that its mark does not follow is excused.
LEMMA KnownStep ==
    ASSUME DeployInv, [DeployNext]_deployVars
    PROVE  KnownInv'
<1> USE DEF KnownInv, Generated
<1>0. DeployTypeOK /\ StageInv /\ KnownInv /\ left \in Seq(declared) /\ IsInjective(left)
  BY DEF DeployInv, DeployTypeOK, LeftInv
<1>1. CASE UNCHANGED deployVars
  BY <1>0, <1>1 DEF deployVars
<1>2. CASE BeginRun
  <2>1. /\ UNCHANGED <<tool, bound, disk>> /\ stage = "idle"
        /\ excused' = IF rotate' THEN Generated ELSE excused
    BY <1>2 DEF BeginRun, BeginCf, BeginAws, BeginNode, BeginDeploy
  <2> QED BY <1>0, <2>1
<1>3. CASE Onward
  BY <1>0, <1>3 DEF Onward
<1>4. CASE Fails \/ Tear
  BY <1>0, <1>4 DEF Fails, Tear, Exit
<1>5. CASE LoadState \/ DeployWorker \/ ListSecrets
  BY <1>0, <1>5 DEF LoadState, DeployWorker, ListSecrets
<1>6. ASSUME NEW k \in Kinds, Adopt(k) \/ (Create(k) /\ stage' = Saving(k)) \/ Save(k)
      PROVE  KnownInv'
  <2>1. /\ UNCHANGED <<tool, bound, left, rotate, excused>> /\ disk'.marks = disk.marks
        /\ stage \in {"kv", "d1", "saveKv", "saveD1"}
    <3>1. CASE Adopt(k)
      BY <3>1 DEF Adopt, Kinds
    <3>2. CASE Create(k) /\ stage' = Saving(k)
      BY <3>2 DEF Create, Exit, Saving, Kinds
    <3>3. CASE Save(k)
      BY <3>3 DEF Save, Saving, Kinds, DeployInv, MemInv
    <3> QED BY <1>6, <3>1, <3>2, <3>3
  <2> QED BY <1>0, <2>1
<1>7. CASE Skip
  <2>1. ToSet(left') \subseteq ToSet(left)
    BY <1>0, <1>7, Beheaded DEF Skip
  <2> QED BY <1>0, <1>7, <2>1 DEF Skip
<1>8. CASE Put
  <2>1. Head(left) \in Secrets
    BY <1>0, <1>8, Beheaded DEF Put, DeployTypeOK
  <2>2. \A s \in Secrets : s # Head(left) => bound'[s] = bound[s]
    BY <1>0, <1>8, <2>1 DEF Put, DeployTypeOK
  <2> QED BY <1>0, <1>8, <2>2 DEF Put
<1>9. CASE Mark
  <2>1. ToSet(left') = ToSet(left) \ {Head(left)}
    BY <1>0, <1>9, Beheaded DEF Mark, DeployTypeOK
  <2>2. disk'.marks = disk.marks \cup {Head(left)}
    <3>1. mem.marks = disk.marks
      BY <1>9 DEF Mark, DeployInv, MemInv
    <3> QED BY <1>0, <1>9, <3>1 DEF Mark, DeployTypeOK, StateFiles
  <2> QED BY <1>0, <1>9, <2>1, <2>2 DEF Mark
<1>10. CASE PutsDone
  BY <1>0, <1>10 DEF PutsDone, Exit
<1>11. CASE \/ Resolve \/ DeployStack \/ BuildImages \/ SyncSecret \/ Apply
            \/ Restart \/ Verify
  BY <1>0, <1>11 DEF Resolve, DeployStack, BuildImages, SyncSecret, Apply, Restart, Verify,
                     StageInv
<1>12. CASE LoseStateFile \/ DeclareSecret \/ EditSecretsFile \/ AddClass \/ AdoptHub
  BY <1>0, <1>12 DEF LoseStateFile, DeclareSecret, EditSecretsFile, AddClass, AdoptHub
<1>13. CASE DeleteWorker
  BY <1>0, <1>13 DEF DeleteWorker
<1> QED
  BY <1>0, <1>1, <1>2, <1>3, <1>4, <1>5, <1>6, <1>7, <1>8, <1>9, <1>10, <1>11, <1>12, <1>13,
     StepCases

\* A value of deploy-aws is saved before it is used, and replaced unused or on
\* request.
LEMMA CacheStep ==
    ASSUME DeployInv, [DeployNext]_deployVars
    PROVE  CacheInv'
<1> USE DEF CacheInv, Generated
<1>0. DeployTypeOK /\ StageInv /\ CacheInv /\ left \in Seq(declared) /\ IsInjective(left)
  BY DEF DeployInv, DeployTypeOK, LeftInv
<1>1. CASE UNCHANGED deployVars
  BY <1>0, <1>1 DEF deployVars
<1>2. CASE BeginRun
  <2>1. /\ UNCHANGED <<tool, bound, disk>> /\ stage' # "secrets"
        /\ excused' = IF rotate' THEN Generated ELSE excused
    BY <1>2 DEF BeginRun, BeginCf, BeginAws, BeginNode, BeginDeploy
  <2> QED BY <1>0, <2>1
<1>3. CASE Onward
  <2>1. /\ UNCHANGED <<tool, declared, bound, disk, rotate, excused, left>>
        /\ stage # "verify"
    BY <1>3 DEF Onward
  <2>2. tool = "aws" /\ stage' = "secrets" => ToSet(left) = declared
    <3>1. tool = "aws" /\ stage' = "secrets" => stage = "build"
      BY <1>0, <1>3 DEF Onward, AfterFile, StageInv
    <3> QED BY <3>1 DEF DeployInv, LeftInv
  <2> QED BY <1>0, <2>1, <2>2
<1>4. CASE Fails \/ Tear \/ Verify
  BY <1>0, <1>4 DEF Fails, Tear, Verify, Exit
<1>5. CASE LoadState
  BY <1>0, <1>5 DEF LoadState, AfterState
<1>6. ASSUME NEW k \in Kinds, Adopt(k) \/ (Create(k) /\ stage' = Saving(k)) \/ Save(k)
      PROVE  CacheInv'
  BY <1>0, <1>6 DEF Adopt, Create, Save, Saving, Kinds, StageInv
<1>7. CASE DeployWorker \/ ListSecrets \/ Skip \/ Put \/ Mark \/ PutsDone
  BY <1>0, <1>7 DEF DeployWorker, ListSecrets, Skip, Put, Mark, PutsDone, StageInv
<1>8. CASE BuildImages \/ SyncSecret \/ Apply \/ Restart
  BY <1>0, <1>8 DEF BuildImages, SyncSecret, Apply, Restart, StageInv
<1>9. CASE Resolve
  <2> DEFINE s == Head(left)
  <2>1. /\ s \in declared /\ s \in Secrets /\ ToSet(left') = ToSet(left) \ {s}
        /\ UNCHANGED <<tool, declared, file, bound, rotate, excused, stage>>
        /\ stage = "secrets" /\ tool = "aws" /\ disk' = mem' /\ mem.cache = disk.cache
    BY <1>0, <1>9, Beheaded DEF Resolve, Cached, DeployTypeOK, DeployInv, MemInv
  <2>2. s \notin FromFile => Material(s) # 0
    BY <1>0, <1>9, <2>1, MaterialIsAValue DEF Resolve, Values, DeployInv
  <2>3. /\ \A r \in Secrets : r # s => mem'.cache[r] = mem.cache[r]
        /\ s \notin FromFile => mem'.cache[s] # 0
        /\ (s \in FromFile \/ (mem.cache[s] # 0 /\ ~rotate)) => mem'.cache[s] = mem.cache[s]
    BY <1>0, <1>9, <2>1, <2>2 DEF Resolve, DeployTypeOK, StateFiles
  <2>4. s \in FromFile => file # Blank
    BY <1>9 DEF Resolve, Materializes
  <2>5. s \in Generated \ excused /\ bound[s] # 0 => mem.cache[s] # 0 /\ ~rotate
    BY <1>0, <2>1
  <2>6. \A r \in Generated \ excused : bound[r] # 0 => bound[r] = mem'.cache[r]
    BY <1>0, <2>1, <2>3, <2>5
  <2>7. \A r \in declared \ ToSet(left') :
           IF r \in FromFile THEN file # Blank ELSE mem'.cache[r] # 0
    <3>1. declared \subseteq Secrets
      BY <1>0 DEF DeployTypeOK
    <3> QED BY <1>0, <2>1, <2>3, <2>4, <3>1
  <2>8. rotate => Generated \subseteq excused
    BY <1>0, <2>1
  <2> HIDE DEF s
  <2> QED BY <2>1, <2>6, <2>7, <2>8
<1>10. CASE DeployStack
  <2>1. /\ UNCHANGED <<tool, disk>> /\ stage' = "verify" /\ mem.cache = disk.cache
        /\ excused' = {s \in excused : bound'[s] # disk.cache[s]}
    BY <1>10 DEF DeployStack, DeployInv, MemInv
  <2>2. \A s \in Generated : bound'[s] \in {0, mem.cache[s]}
    BY <1>10 DEF DeployStack
  <2> QED BY <2>1, <2>2
<1>11. CASE LoseStateFile
  BY <1>11 DEF LoseStateFile, Event
<1>12. CASE DeleteWorker
  BY <1>0, <1>12 DEF DeleteWorker
<1>13. CASE DeclareSecret \/ EditSecretsFile \/ AddClass \/ AdoptHub
  BY <1>0, <1>13 DEF DeclareSecret, EditSecretsFile, AddClass, AdoptHub, Event
<1> QED
  BY <1>0, <1>1, <1>2, <1>3, <1>4, <1>5, <1>6, <1>7, <1>8, <1>9, <1>10, <1>11, <1>12, <1>13,
     StepCases
\* A stack comes with every secret.
LEMMA UseStep ==
    ASSUME DeployInv, [DeployNext]_deployVars
    PROVE  UseInv'
<1> USE DEF UseInv
<1>0. DeployTypeOK /\ StageInv /\ UseInv
  BY DEF DeployInv
<1>1. CASE UNCHANGED deployVars
  BY <1>0, <1>1 DEF deployVars
<1>2. CASE BeginRun
  BY <1>0, <1>2 DEF BeginRun, BeginCf, BeginAws, BeginNode, BeginDeploy
<1>3. CASE Onward
  BY <1>0, <1>3 DEF Onward, AfterFile, DeployTypeOK
<1>4. CASE Fails \/ Tear \/ LoadState
  BY <1>0, <1>4 DEF Fails, Tear, Exit, LoadState, AfterState, DeployTypeOK
<1>5. ASSUME NEW k \in Kinds, Adopt(k) \/ (Create(k) /\ stage' = Saving(k)) \/ Save(k)
      PROVE  UseInv'
  BY <1>0, <1>5 DEF Adopt, Create, Save, Saving, Kinds, StageInv
<1>6. CASE DeployWorker \/ ListSecrets \/ Skip \/ Put \/ Mark \/ PutsDone
  BY <1>0, <1>6 DEF DeployWorker, ListSecrets, Skip, Put, Mark, PutsDone, StageInv
<1>7. CASE Resolve
  BY <1>0, <1>7 DEF Resolve
<1>8. CASE DeployStack
  <2>1. \A s \in declared : IF s \in FromFile THEN file # Blank ELSE mem.cache[s] # 0
    <3>1. ToSet(left) = {}
      BY <1>8 DEF DeployStack, ToSet
    <3> QED BY <1>8, <3>1 DEF DeployStack, DeployInv, CacheInv
  <2>2. \A s \in declared : bound'[s] = IF s \in FromFile THEN file ELSE mem.cache[s]
    BY <1>0, <1>8 DEF DeployStack, DeployTypeOK
  <2>3. UNCHANGED <<declared, file>> /\ code' = declared
    BY <1>8 DEF DeployStack
  <2> QED BY <2>1, <2>2, <2>3 DEF Blank
<1>9. CASE BuildImages \/ SyncSecret \/ Apply \/ Restart
  BY <1>0, <1>9 DEF BuildImages, SyncSecret, Apply, Restart, StageInv
<1>10. CASE Verify
  BY <1>0, <1>10 DEF Verify, Exit
<1>11. CASE \/ LoseStateFile \/ DeleteWorker \/ DeclareSecret \/ EditSecretsFile
            \/ AddClass \/ AdoptHub
  BY <1>0, <1>11 DEF LoseStateFile, DeleteWorker, DeclareSecret, EditSecretsFile, AddClass,
                     AdoptHub, Event
<1> QED
  BY <1>0, <1>1, <1>2, <1>3, <1>4, <1>5, <1>6, <1>7, <1>8, <1>9, <1>10, <1>11, StepCases

\* A Secret is filled before the manifests are applied, and pods start with it.
LEMMA PodStep ==
    ASSUME DeployInv, [DeployNext]_deployVars
    PROVE  PodInv'
<1> USE DEF PodInv
<1>0. /\ DeployTypeOK /\ StageInv /\ PodInv
      /\ code \subseteq declared /\ kube.spec \subseteq declared
  BY DEF DeployInv, DeployTypeOK
<1>1. CASE UNCHANGED deployVars
  BY <1>0, <1>1 DEF deployVars
<1>2. CASE BeginRun
  BY <1>0, <1>2 DEF BeginRun, BeginCf, BeginAws, BeginNode, BeginDeploy
<1>3. CASE Onward
  BY <1>0, <1>3 DEF Onward, AfterFile, DeployTypeOK, StageInv
<1>4. CASE Fails \/ Tear \/ LoadState
  BY <1>0, <1>4 DEF Fails, Tear, Exit, LoadState, AfterState, DeployTypeOK
<1>5. ASSUME NEW k \in Kinds, Adopt(k) \/ (Create(k) /\ stage' = Saving(k)) \/ Save(k)
      PROVE  PodInv'
  BY <1>0, <1>5 DEF Adopt, Create, Save, Saving, Kinds, StageInv
<1>6. CASE DeployWorker \/ ListSecrets \/ Skip \/ Put \/ Mark \/ PutsDone
  BY <1>0, <1>6 DEF DeployWorker, ListSecrets, Skip, Put, Mark, PutsDone, StageInv
<1>7. CASE Resolve \/ DeployStack
  BY <1>0, <1>7 DEF Resolve, DeployStack
<1>8. CASE BuildImages
  <2>1. /\ kube'.image = declared /\ kube'.secret = kube.secret /\ kube'.spec = kube.spec
        /\ kube'.pinned = kube.pinned
    BY <1>0, <1>8 DEF BuildImages, DeployTypeOK
  <2> QED BY <1>0, <1>8, <2>1 DEF BuildImages
<1>9. CASE SyncSecret
  <2> DEFINE held == [s \in Secrets |-> IF s \in declared THEN Material(s) ELSE 0]
  <2>1. \A s \in declared :
           Material(s) \in Values /\ (s \in FromFile => Material(s) = file)
    BY <1>0, <1>9, MaterialIsAValue DEF SyncSecret, DeployInv
  <2>2. \A s \in declared : held[s] # 0 /\ (s \in FromFile => held[s] = file)
    <3>1. declared \subseteq Secrets
      BY <1>0 DEF DeployTypeOK
    <3>2. TAKE s \in declared
    <3>3. held[s] = Material(s)
      BY <3>1
    <3>4. Material(s) # 0 /\ (s \in FromFile => Material(s) = file)
      BY <2>1 DEF Values
    <3> QED BY <3>3, <3>4
  <2> HIDE DEF held
  <2>3. kube' = [kube EXCEPT !.secret = held]
    BY <1>9 DEF SyncSecret, held
  <2>4. /\ kube'.image = kube.image /\ kube'.secret = held /\ kube'.spec = kube.spec
        /\ kube'.pinned = kube.pinned
    BY <1>0, <2>3 DEF DeployTypeOK
  <2> QED BY <1>0, <1>9, <2>2, <2>4 DEF SyncSecret
<1>10. CASE Apply
  <2>1. /\ kube'.image = kube.image /\ kube'.secret = kube.secret /\ kube'.spec = kube.image
        /\ kube'.pinned = kube.pinned
    BY <1>0, <1>10 DEF Apply, DeployTypeOK
  <2> QED BY <1>0, <1>10, <2>1 DEF Apply, PodsStart
<1>11. CASE Restart
  <2>1. PICK version \in {code, kube.spec} \cup (IF kube.pinned THEN {} ELSE {kube.image}) :
           version # {} /\ code' = version /\ bound' = kube.secret
    BY <1>11 DEF Restart, PodsStart
  <2>2. UNCHANGED <<tool, declared, file, stage, ended, kube, warned>>
    BY <1>11 DEF Restart
  <2>3. kube.pinned => \A s \in version : kube.secret[s] # 0
    BY <1>0, <1>11, <2>1 DEF Restart
  <2> QED BY <1>0, <2>1, <2>2, <2>3
<1>12. CASE Verify
  BY <1>0, <1>12 DEF Verify, Exit
<1>13. CASE \/ LoseStateFile \/ DeleteWorker \/ DeclareSecret \/ EditSecretsFile
            \/ AddClass \/ AdoptHub
  BY <1>0, <1>13 DEF LoseStateFile, DeleteWorker, DeclareSecret, EditSecretsFile, AddClass,
                     AdoptHub, Event
<1> QED
  BY <1>0, <1>1, <1>2, <1>3, <1>4, <1>5, <1>6, <1>7, <1>8, <1>9, <1>10, <1>11, <1>12, <1>13,
     StepCases

\* Being a prefix, index by index.
LEMMA PrefixByIndex ==
    ASSUME NEW T, NEW s \in Seq(T), NEW t \in Seq(T)
    PROVE  IsPrefix(s, t) <=> /\ Len(s) <= Len(t)
                              /\ \A i \in 1..Len(s) : s[i] = t[i]
<1>1. Len(s) \in Nat /\ Len(t) \in Nat /\ DOMAIN t = 1..Len(t)
  OBVIOUS
<1>2. ASSUME Len(s) <= Len(t)
      PROVE  SubSeq(s, 1, Len(s)) = SubSeq(t, 1, Len(s)) <=> \A i \in 1..Len(s) : s[i] = t[i]
  <2>1. SubSeq(s, 1, Len(s)) = s
    OBVIOUS
  <2>2. /\ SubSeq(t, 1, Len(s)) \in Seq(T) /\ Len(SubSeq(t, 1, Len(s))) = Len(s)
        /\ \A i \in 1..Len(s) : SubSeq(t, 1, Len(s))[i] = t[i]
    BY <1>1, <1>2
  <2> DEFINE u == SubSeq(t, 1, Len(s))
  <2> HIDE DEF u
  <2>3. u \in Seq(T) /\ Len(u) = Len(s) /\ \A i \in 1..Len(s) : u[i] = t[i]
    BY <2>2 DEF u
  <2>4. s = u <=> \A i \in 1..Len(s) : s[i] = u[i]
    BY <2>3
  <2> QED BY <2>1, <2>3, <2>4 DEF u
<1> QED BY <1>2 DEF IsPrefix

\* What the operators' convention lets the configuration add sorts last.
LEMMA ConfigurationGrows ==
    ASSUME DeployTypeOK, IsInjective(classTags), AddClass \/ AdoptHub
    PROVE  /\ IsInjective(classTags')
           /\ \A s \in Seq(Tags) :
                 IsPrefix(s, Migrations(Bindings)) => IsPrefix(s, Migrations(Bindings)')
<1> DEFINE B == Bindings
           C == Bindings'
<1>1. classTags \in Seq(ClassTags) /\ hub \in BOOLEAN /\ Len(classTags) \in Nat
  BY DEF DeployTypeOK
<1>2. B = BindingsOf(classTags, hub) /\ C = BindingsOf(classTags', hub')
  BY DEF Bindings, BindingsOf
<1>3. Migrations(Bindings) = Migrations(B) /\ Migrations(Bindings)' = Migrations(C)
  BY DEF Migrations, TagsAt, TagsBefore, Before, FirstAppearance, ToSet
<1> HIDE DEF B, C
<1>4. /\ B \in Seq(Tags) /\ IsInjective(B) /\ IsFiniteSet(ToSet(B))
      /\ ToSet(B) = ToSet(classTags) \cup (IF hub THEN {HubTag} ELSE {})
      /\ ToSet(classTags) \subseteq ClassTags /\ HubTag \notin ClassTags
      /\ \A a, b \in ToSet(classTags) : Before(B, a, b) <=> Before(classTags, a, b)
      /\ Migrations(B) \in Seq(Tags)
  BY <1>1, <1>2, BindingsAreTags
<1>5. \A t : Generation(t) \in Int
  BY GenerationsAreNumbers
<1>6. Generation(HubTag) = 1 /\ \A t \in BaseTags : Generation(t) = 1
  BY GenerationsAreNumbers DEF Tags, ClassTags
<1>7. /\ classTags' \in Seq(ClassTags) /\ IsInjective(classTags') /\ hub' \in BOOLEAN
      /\ \E x :
         /\ x \notin ToSet(B) /\ ToSet(C) = ToSet(B) \cup {x}
         /\ \A a, b \in ToSet(B) : Before(C, a, b) <=> Before(B, a, b)
         /\ \A a \in ToSet(B) : Before(C, a, x)
  <2>1. CASE AddClass
    <3>1. PICK tag \in ClassTags \ ToSet(classTags), i \in 1..(Len(classTags) + 1) :
             /\ classTags' = InsertAt(classTags, i, tag) /\ hub' = hub
             /\ \A t \in ToSet(B) :
                   Generation(t) < Generation(tag) \/ (tag \in BaseTags /\ ~hub)
             /\ tag \in BaseTags => /\ ToSet(classTags) \subseteq BaseTags
                                    /\ i = Len(classTags) + 1
      BY <1>1, <2>1 DEF AddClass, B
    <3> DEFINE r == InsertAt(classTags, i, tag)
    <3>2. /\ r \in Seq(ClassTags) /\ IsInjective(r)
          /\ ToSet(r) = ToSet(classTags) \cup {tag}
          /\ \A a, b \in ToSet(classTags) :
                FirstAppearance(r, a) < FirstAppearance(r, b)
                  <=> FirstAppearance(classTags, a) < FirstAppearance(classTags, b)
          /\ i = Len(classTags) + 1 => \A a \in ToSet(classTags) :
                FirstAppearance(r, a) < FirstAppearance(r, tag)
      BY <1>1, Inserted
    <3>3. classTags' = r /\ hub' = hub
      BY <3>1
    <3> HIDE DEF r
    <3>4. /\ C \in Seq(Tags) /\ IsInjective(C)
          /\ ToSet(C) = ToSet(r) \cup (IF hub THEN {HubTag} ELSE {})
          /\ \A a, b \in ToSet(r) : Before(C, a, b) <=> Before(r, a, b)
      BY <1>1, <1>2, <3>2, <3>3, BindingsAreTags
    <3>5. tag \notin ToSet(B) /\ ToSet(C) = ToSet(B) \cup {tag}
      BY <1>4, <3>2, <3>4
    <3>6. ASSUME NEW a \in ToSet(B), NEW b \in ToSet(B)
          PROVE  Before(C, a, b) <=> Before(B, a, b)
      <4>1. CASE a \in ToSet(classTags) /\ b \in ToSet(classTags)
        <5>1. Before(r, a, b) <=> Before(classTags, a, b)
          BY <3>2, <4>1 DEF Before
        <5> QED BY <1>4, <3>2, <3>4, <4>1, <5>1
      <4>2. CASE a = HubTag /\ b = HubTag
        BY <1>4, <3>4, <3>5, <4>2, TotallyOrdered
      <4>3. CASE (a = HubTag) # (b = HubTag)
        BY <4>3 DEF Before
      <4> QED BY <1>4, <4>1, <4>2, <4>3
    <3>7. ASSUME NEW a \in ToSet(B) PROVE Before(C, a, tag)
      <4>1. CASE Generation(a) < Generation(tag)
        BY <4>1 DEF Before
      <4>2. CASE tag \in BaseTags /\ ~hub
        <5>1. a \in ToSet(classTags) /\ a \in BaseTags
          BY <1>4, <3>1, <4>2
        <5>2. FirstAppearance(r, a) < FirstAppearance(r, tag)
          BY <3>1, <3>2, <4>2, <5>1
        <5>3. Before(r, a, tag)
          BY <1>4, <1>6, <4>2, <5>1, <5>2 DEF Before
        <5> QED BY <3>2, <3>4, <5>1, <5>3
      <4> QED BY <3>1, <4>1, <4>2
    <3> QED BY <1>1, <3>2, <3>3, <3>5, <3>6, <3>7
  <2>2. CASE AdoptHub
    <3>1. /\ ~hub /\ hub' = TRUE /\ classTags' = classTags /\ ToSet(classTags) \subseteq BaseTags
      BY <2>2 DEF AdoptHub
    <3>2. /\ ToSet(C) = ToSet(classTags) \cup {HubTag}
          /\ \A a, b \in ToSet(classTags) : Before(C, a, b) <=> Before(classTags, a, b)
      BY <1>1, <1>2, <3>1, BindingsAreTags
    <3>3. ToSet(B) = ToSet(classTags)
      BY <1>4, <3>1
    <3>4. \A a \in ToSet(B) : Before(C, a, HubTag)
      BY <1>4, <1>6, <3>1, <3>3 DEF Before
    <3>5. HubTag \notin ToSet(B)
      BY <1>4, <3>3
    <3> QED BY <1>1, <1>4, <3>1, <3>2, <3>3, <3>4, <3>5
  <2> QED BY <2>1, <2>2
<1>8. /\ C \in Seq(Tags) /\ IsInjective(C) /\ IsFiniteSet(ToSet(C))
      /\ Migrations(C) \in Seq(Tags)
  BY <1>2, <1>7, BindingsAreTags
<1>9. /\ Len(Migrations(B)) <= Len(Migrations(C))
      /\ \A i \in 1..Len(Migrations(B)) : Migrations(C)[i] = Migrations(B)[i]
  BY <1>4, <1>7, <1>8, NewTagGoesLast
<1>10. ASSUME NEW s \in Seq(Tags), IsPrefix(s, Migrations(B)) PROVE IsPrefix(s, Migrations(C))
  <2>1. Len(s) <= Len(Migrations(B)) /\ \A i \in 1..Len(s) : s[i] = Migrations(B)[i]
    BY <1>4, <1>10, PrefixByIndex
  <2>2. Len(s) \in Nat /\ Len(Migrations(B)) \in Nat /\ Len(Migrations(C)) \in Nat
    BY <1>4, <1>8
  <2>3. Len(s) <= Len(Migrations(C)) /\ \A i \in 1..Len(s) : s[i] = Migrations(C)[i]
    BY <1>9, <2>1, <2>2
  <2> QED BY <1>8, <2>3, PrefixByIndex
<1> QED BY <1>3, <1>7, <1>10

\* Only a deployment moves a Worker on, and it has the configuration's tags.
LEMMA TagStep ==
    ASSUME DeployInv, [DeployNext]_deployVars
    PROVE  TagInv'
<1> USE DEF TagInv
<1>0. DeployTypeOK /\ StageInv /\ TagInv
  BY DEF DeployInv
<1>1. ASSUME UNCHANGED <<tool, classTags, hub>>,
             live' => live /\ applied' = applied
      PROVE  TagInv'
  <2>1. Migrations(Bindings)' = Migrations(Bindings)
    BY <1>1 DEF Bindings, Migrations, TagsAt, TagsBefore, Before, FirstAppearance, ToSet
  <2>2. CASE live'
    <3>1. IsPrefix(applied, Migrations(Bindings))' <=> IsPrefix(applied, Migrations(Bindings))
      BY <1>1, <2>1, <2>2 DEF IsPrefix
    <3> QED BY <1>0, <1>1, <2>2, <3>1
  <2>3. CASE ~live'
    BY <1>0, <1>1, <2>3
  <2> QED BY <2>2, <2>3
<1>2. CASE UNCHANGED deployVars
  BY <1>1, <1>2 DEF deployVars
<1>3. CASE BeginRun \/ Onward \/ Fails \/ Tear \/ PutsDone \/ Verify \/ LoadState
  BY <1>1, <1>3 DEF BeginRun, BeginCf, BeginAws, BeginNode, BeginDeploy, Onward, Fails, Tear, PutsDone,
                    Verify, LoadState
<1>4. ASSUME NEW k \in Kinds, Adopt(k) \/ (Create(k) /\ stage' = Saving(k)) \/ Save(k)
      PROVE  TagInv'
  BY <1>1, <1>4 DEF Adopt, Create, Save
<1>5. CASE ListSecrets \/ Skip \/ Put \/ Mark \/ Resolve \/ BuildImages \/ SyncSecret
  BY <1>1, <1>5 DEF ListSecrets, Skip, Put, Mark, Resolve, BuildImages, SyncSecret
<1>6. CASE LoseStateFile \/ DeleteWorker \/ DeclareSecret \/ EditSecretsFile
  BY <1>1, <1>6 DEF LoseStateFile, DeleteWorker, DeclareSecret, EditSecretsFile
<1>7. CASE DeployStack \/ Apply \/ Restart
  BY <1>0, <1>7 DEF DeployStack, Apply, Restart, StageInv
<1>8. CASE DeployWorker
  <2>1. Migrations(Bindings) \in Seq(Tags)
    <3>1. Bindings = BindingsOf(classTags, hub)
      BY DEF Bindings, BindingsOf
    <3> QED BY <1>0, <3>1, BindingsAreTags DEF DeployTypeOK
  <2>2. Migrations(Bindings)' = Migrations(Bindings)
    BY <1>8 DEF DeployWorker, Bindings, Migrations, TagsAt, TagsBefore, Before,
                FirstAppearance, ToSet
  <2>3. IsPrefix(Migrations(Bindings), Migrations(Bindings))
    BY <2>1, PrefixByIndex
  <2>4. applied' = Migrations(Bindings) /\ classTags' = classTags
    BY <1>8 DEF DeployWorker
  <2>5. IsPrefix(applied, Migrations(Bindings))'
    BY <2>2, <2>3, <2>4 DEF IsPrefix
  <2> QED BY <1>0, <2>4, <2>5
<1>9. CASE AddClass \/ AdoptHub
  <2>1. UNCHANGED <<tool, live, applied>>
    BY <1>9 DEF AddClass, AdoptHub
  <2>2. applied \in Seq(Tags)
    BY <1>0 DEF DeployTypeOK, Tags
  <2>3. IsInjective(classTags')
    BY <1>0, <1>9, ConfigurationGrows
  <2>4. IsPrefix(applied, Migrations(Bindings)) => IsPrefix(applied, Migrations(Bindings)')
    BY <1>0, <1>9, <2>2, ConfigurationGrows
  <2>5. IsPrefix(applied, Migrations(Bindings))' <=> IsPrefix(applied, Migrations(Bindings)')
    BY <2>1 DEF IsPrefix
  <2> QED BY <1>0, <2>1, <2>3, <2>4, <2>5
<1> QED
  BY <1>0, <1>2, <1>3, <1>4, <1>5, <1>6, <1>7, <1>8, <1>9, StepCases

\* It all holds before the first run.
LEMMA DeployInvStarts == DeployInit => DeployInv
<1> SUFFICES ASSUME DeployInit PROVE DeployInv
  OBVIOUS
<1>1. PICK s \in Secrets : declared = {s}
  BY DEF DeployInit
<1>2. classTags \in Seq(ClassTags) /\ IsInjective(classTags)
  <2>1. <<>> \in Seq(ClassTags) /\ IsInjective(<<>>)
    BY DEF IsInjective
  <2>2. <<"v1">> \in Seq(ClassTags) /\ IsInjective(<<"v1">>)
    BY DEF IsInjective, ClassTags, BaseTags
  <2> QED BY <2>1, <2>2 DEF DeployInit
<1>3. DeployTypeOK
  <2>1. budget \in Budgets
    BY DeployAssumption DEF DeployInit, Budgets
  <2>2. kube \in [secret : [Secrets -> {0} \cup Values], image : SUBSET declared,
                 spec : SUBSET declared, pinned : BOOLEAN]
    BY BlankTypes DEF DeployInit
  <2> QED BY <1>1, <1>2, <2>1, <2>2, BlankTypes
          DEF DeployInit, DeployTypeOK, FileStates, Budgets, Kinds
<1>4. StageInv /\ FileInv /\ MemInv /\ UseInv /\ PodInv
  BY DEF DeployInit, StageInv, FileInv, MemInv, UseInv, PodInv
<1>5. LeftInv
  <2>1. IsFiniteSet({}) /\ IsInjective(<<>>) /\ IsFiniteSet(declared)
    BY <1>1, FS_Singleton, FS_EmptySet DEF IsInjective
  <2> QED BY <2>1 DEF DeployInit, LeftInv
<1>6. ResourceInv
  BY BlankTypes DEF DeployInit, ResourceInv
<1>7. PutInv /\ KnownInv /\ CacheInv
  BY DEF DeployInit, PutInv, KnownInv, CacheInv, Generated
<1>8. TagInv
  BY <1>2 DEF DeployInit, TagInv
<1> QED BY <1>3, <1>4, <1>5, <1>6, <1>7, <1>8 DEF DeployInv

\* However runs fail or are cut short, and whatever is lost, deleted or added
\* between them, what the three tools rely on stays true.
THEOREM DeployInvariant == DeploySpec => []DeployInv
<1>1. DeployInv /\ [DeployNext]_deployVars => DeployInv'
  <2> SUFFICES ASSUME DeployInv, [DeployNext]_deployVars PROVE DeployInv'
    OBVIOUS
  <2> QED BY DeployTypeStep, FlowStep, LeftStep, ResourceStep, MemStep, PutStep, KnownStep,
             CacheStep, UseStep, PodStep, TagStep DEF DeployInv
<1> QED BY <1>1, DeployInvStarts, PTL DEF DeploySpec

\* Every variable of a deployment keeps its type; the values, ids and tags that
\* the tools choose exist.
THEOREM DeployTypeCorrect == DeploySpec => []DeployTypeOK
<1>1. DeployInv => DeployTypeOK
  BY DEF DeployInv
<1> QED BY <1>1, DeployInvariant, PTL

\* A run that ends well leaves a complete service, whatever failed, was lost or
\* was deleted before: a Worker with every secret bound and wired to the only
\* namespace and database; a stack that never ran without its secrets; a Secret
\* with every value, which the pods have if their image tag is new and rolled out.
THEOREM OkIsComplete == DeploySpec => []OkMeansComplete
<1>1. DeployInv => OkMeansComplete
  <2> SUFFICES ASSUME DeployInv, live PROVE OkMeansComplete
    BY DEF OkMeansComplete
  <2>1. code \subseteq declared /\ tool \in {"cf", "aws", "node"}
    BY DEF DeployInv, DeployTypeOK
  <2>2. tool = "cf" => WorkerComplete
    BY <2>1 DEF DeployInv, PutInv, ResourceInv, WorkerComplete, Well
  <2>3. tool = "aws" => StackComplete
    BY <2>1 DEF DeployInv, UseInv, StackComplete, Well
  <2>4. tool = "node" => PodsComplete
    BY <2>1 DEF DeployInv, PodInv, PodsComplete, Well
  <2> QED BY <2>1, <2>2, <2>3, <2>4 DEF OkMeansComplete
<1> QED BY <1>1, DeployInvariant, PTL

\* No generated secret in use is replaced that the state file knows of, unless
\* on request: whatever a listing shows, or cannot.
THEOREM KeysAreKept == DeploySpec => KeysKept
<1> DEFINE Kept == \A s \in Generated :
                      tool # "node" /\ bound[s] # 0 /\ bound'[s] \notin {0, bound[s]}
                         => s \in excused
<1>1. DeployInv /\ [DeployNext]_deployVars => [Kept]_deployVars
  <2> SUFFICES ASSUME DeployInv, DeployNext, NEW s \in Generated, tool # "node",
                      bound[s] # 0, bound'[s] \notin {0, bound[s]}
               PROVE  s \in excused
    OBVIOUS
  <2>1. /\ DeployTypeOK /\ StageInv /\ s \in Secrets /\ s \notin FromFile
        /\ left \in Seq(declared) /\ IsInjective(left) /\ declared \subseteq Secrets
    BY DEF DeployInv, DeployTypeOK, LeftInv, Generated
  <2>2. Put \/ DeployStack
    <3>1. \/ UNCHANGED bound \/ DeleteWorker \/ Put \/ DeployStack \/ Apply \/ Restart
      BY <2>1, StepCases DEF BeginRun, BeginCf, BeginAws, BeginNode, BeginDeploy, Onward, Fails,
           LoadState, Tear, BuildImages, SyncSecret, Adopt, Create, Save, DeployWorker, ListSecrets, Skip, Mark, PutsDone,
           Resolve, Verify, LoseStateFile, DeclareSecret, EditSecretsFile, AddClass,
           AdoptHub
    <3>2. ~DeleteWorker /\ ~Apply /\ ~Restart
      BY <2>1 DEF DeleteWorker, Apply, Restart, StageInv
    <3> QED BY <3>1, <3>2
  <2>3. CASE Put
    <3>1. s = Head(left) /\ stage = "put" /\ tool = "cf" /\ left # <<>>
      BY <2>1, <2>3 DEF Put, DeployTypeOK, StageInv
    <3>2. s \in ToSet(left)
      BY <2>1, <3>1, Beheaded
    <3>3. CASE rotate
      BY <3>1, <3>2, <3>3 DEF DeployInv, KnownInv
    <3>4. CASE ~rotate /\ s \notin excused
      <4>1. s \in mem.marks
        BY <3>1, <3>4 DEF DeployInv, KnownInv, MemInv
      <4>2. Present(s)
        BY <3>1, <3>2, <4>1 DEF DeployInv, PutInv, Present
      <4> QED BY <2>3, <3>1, <3>4, <4>1, <4>2 DEF Put, EffectivelyProvisioned
    <3> QED BY <3>3, <3>4
  <2>4. CASE DeployStack
    <3>1. bound'[s] = mem.cache[s] /\ mem.cache = disk.cache /\ tool = "aws"
      BY <2>1, <2>4 DEF DeployStack, DeployInv, MemInv
    <3> QED BY <3>1 DEF DeployInv, CacheInv
  <2> QED BY <2>2, <2>3, <2>4
<1>2. DeploySpec => [][Kept]_deployVars
  BY <1>1, DeployInvariant, PTL DEF DeploySpec
<1> QED BY <1>2 DEF KeysKept

\* A new migration goes after every one a deployed Worker has been through.
THEOREM MigrationsOnlyAppend == DeploySpec => MigrationsAppendOnly
<1> DEFINE Appends == live /\ live' => IsPrefix(applied, applied')
<1>1. DeployInv /\ [DeployNext]_deployVars => [Appends]_deployVars
  <2> SUFFICES ASSUME DeployInv, DeployNext, live, live' PROVE IsPrefix(applied, applied')
    OBVIOUS
  <2>1. DeployTypeOK /\ applied \in Seq(Tags)
    BY DEF DeployInv, DeployTypeOK, Tags
  <2>2. UNCHANGED applied \/ DeployWorker
    <3>1. ~DeleteWorker
      BY DEF DeleteWorker
    <3> QED
      BY <2>1, <3>1, StepCases DEF BeginRun, BeginCf, BeginAws, BeginNode, BeginDeploy, Onward,
         Fails, LoadState, Tear, BuildImages, Restart, Adopt, Create, Save, ListSecrets, Skip, Put, Mark, PutsDone, Resolve,
         DeployStack, SyncSecret, Apply, Verify, LoseStateFile, DeclareSecret, EditSecretsFile,
         AddClass, AdoptHub
  <2>3. CASE UNCHANGED applied
    <3>1. IsPrefix(applied, applied)
      BY <2>1, PrefixByIndex
    <3> QED BY <2>3, <3>1
  <2>4. CASE DeployWorker
    <3>1. applied' = Migrations(Bindings) /\ tool = "cf"
      BY <2>4 DEF DeployWorker, DeployInv, StageInv
    <3> QED BY <3>1 DEF DeployInv, TagInv
  <2> QED BY <2>2, <2>3, <2>4
<1>2. DeploySpec => [][Appends]_deployVars
  BY <1>1, DeployInvariant, PTL DEF DeploySpec
<1> QED BY <1>2 DEF MigrationsAppendOnly
=============================================================================
