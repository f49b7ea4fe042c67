----------------------- MODULE StoreConformance_proofs -----------------------
(***************************************************************************)
(* Proofs about StoreConformance for any number of calls: every back-end   *)
(* implements the DataStore port for the mixes of calls Atomic names, is   *)
(* the reference when calls come one at a time, and reports no conflict    *)
(* that is none.  And about ListPages, for any keys, values, page sizes,   *)
(* caps and writes: a listing misses no record, returns none twice and     *)
(* none that is stale.                                                     *)
(*                                                                         *)
(* One record: what a call in mid-flight has read need not be what the   *)
(* record is now, but if its conditional write goes through, what it       *)
(* writes is what it would have computed from the record as it is (Sound). *)
(* For the mixes of Atomic that follows from how far others can have moved *)
(* the record since (Plan); for calls in turn nobody has moved it          *)
(* (Still).  Given Sound, every step is a step of the reference, a stutter *)
(* or a refusal (one lemma per back-end).                                  *)
(*                                                                         *)
(* Lists: what was returned is behind the cursor, and nothing steady there *)
(* is left (Behind, Complete); a page in the making has taken all that is  *)
(* steady between the cursor and where it stands (WellMade).  A request    *)
(* reads on to such a page or ends one (Advance; one lemma per back-end),  *)
(* because what a backend returns first is first in the order of keys      *)
(* (IsStart).                                                              *)
(***************************************************************************)
EXTENDS StoreConformance, ListPages, FiniteSetTheorems, WellFoundedInduction, TLAPS

Positions ==
    {"idle", "held", "insertWrite", "putWrite", "updateCas", "updateWrite", "updateReread",
     "deleteCas", "deleteWrite", "deleteReread", "getVersion", "loadVersion", "eval",
     "kvWrite"} \cup Outcomes

Typed ==
    /\ backend \in Backends /\ serial \in BOOLEAN /\ soft \in BOOLEAN
    /\ row \in Row
    /\ kind \in [Calls -> Kinds] /\ kind \in [Calls -> AllKinds]
    /\ pc \in [Calls -> Positions]
    /\ held \in [Calls -> Envelope]
    /\ reply \in [Calls -> Envelope]
    /\ seen \in [Calls -> Row]
    /\ cur \in [Calls -> Row]

\* An absent row has nothing in it, and only a soft delete leaves a tombstone.
RowShape ==
    /\ row.st = "absent" => row.ver = 0
    /\ row.st = "dead" => soft

Tables == {"dynamo", "sql", "fakeDynamo", "fakeSql"}
Hashes == {"redis", "fakeRedis"}

\* Which calls of which back-end come to which position, with which reads.
PlacedAt(c, l, x, y) ==
    /\ l = "held" => kind[c] \in Guarded
    /\ backend = "kv" => kind[c] \notin Guarded
    /\ l = "insertWrite" => kind[c] = "create" /\ backend = "dynamo" /\ soft
    /\ l = "idle" /\ backend = "dynamo" => y.st = "absent"
    /\ l = "putWrite" => kind[c] = "put" /\ backend \in {"sql", "fakeSql"}
    /\ l = "updateCas" =>
          kind[c] \in Patches /\ backend \in Tables /\ x.st = "live"
    /\ l = "updateWrite" =>
          kind[c] \in Updates \cup Patches /\ backend \in {"dynamo", "sql"} /\ y.st = "live"
    /\ l = "updateReread" => kind[c] \in Updates \cup Patches /\ backend = "dynamo"
    /\ l = "deleteCas" => kind[c] \in Deletes /\ backend \in Tables
    /\ l = "deleteWrite" =>
          kind[c] \in Deletes /\ backend \in {"dynamo", "sql"} /\ y.st = "live"
    /\ l = "deleteReread" => kind[c] \in Deletes /\ backend = "dynamo" /\ soft
    /\ l = "getVersion" => kind[c] \in Guarded /\ backend \in Hashes
    /\ l = "loadVersion" =>
          (kind[c] \in Patches \/ (soft /\ kind[c] \in Deletes)) /\ backend \in Hashes
    /\ l = "eval" =>
          /\ kind[c] \in Patches \/ (soft /\ kind[c] \in Deletes)
          /\ backend \in Hashes /\ x.st = "live"
    /\ l = "kvWrite" =>
          /\ backend = "kv"
          /\ kind[c] = "create" => x.st # "live"
          /\ kind[c] \notin {"create", "put"} => x.st = "live"

Placed(c) ==
    /\ kind[c] \notin Guarded => held[c] = NoEnvelope
    /\ PlacedAt(c, pc[c], seen[c], cur[c])

Shape == Typed /\ RowShape /\ \A c \in Calls : Placed(c)

-----------------------------------------------------------------------------

\* Should c's next write go through, it is computed from the row as it is.
Sound(c) ==
    /\ pc[c] \in {"updateCas", "updateWrite", "eval"} /\ kind[c] \in Patches =>
          (row.st = "live" /\ row.ver = seen[c].ver =>
              row.val = seen[c].val /\ (kind[c] = "patchIf" => row.ver = held[c].ver))
    /\ pc[c] \in {"putWrite", "kvWrite"} => row.ver = seen[c].ver
    /\ pc[c] = "kvWrite" => row.st = seen[c].st /\ row.val = seen[c].val
    /\ pc[c] = "deleteWrite" =>
          /\ kind[c] = "deleteIf" => cur[c].ver = held[c].ver
          /\ backend = "dynamo" /\ soft /\ row.st = "live" /\ row.ver = cur[c].ver =>
                row.ver = seen[c].ver
    /\ pc[c] = "insertWrite" /\ row.st # "live" =>
          IF cur[c].st = "dead" THEN row.st = "dead" ELSE row.st = "absent"
    /\ pc[c] = "getVersion" /\ seen[c].st = "live" =>
          row.st = "live" /\ row.val = seen[c].val

-----------------------------------------------------------------------------
(* Steps of the reference                                                  *)

\* The position a port sees.
Seen(c, l) ==
    IF l \in {"idle", "held"} \cup Outcomes THEN l
    ELSE IF kind[c] \in Guarded /\ l # "getVersion" THEN "held" ELSE "idle"

\* To the port, c has not happened yet.
Waits(c) == AtomicPc[c] = IF kind[c] \in Guarded THEN "held" ELSE "idle"

\* A step that is a refusal, for a good reason or not.
Refused(c) ==
    /\ Waits(c)
    /\ \/ kind[c] = "create" /\ Step(c, "exists")
       \/ kind[c] \notin {"create", "put"} /\ (Step(c, "miss") \/ Step(c, "conflict"))

\* A position moves alone.
LEMMA Moved ==
  ASSUME Typed, NEW c \in Calls, NEW l, Goto(c, l), kind' = kind
  PROVE  /\ AtomicPc' = [AtomicPc EXCEPT ![c] = Seen(c, l)]
         /\ pc'[c] = l /\ \A d \in Calls \ {c} : pc'[d] = pc[d]
BY DEF Typed, Goto, AtomicPc, MidFlight, Seen

LEMMA Stutters ==
  ASSUME Typed, NEW c \in Calls, NEW l, Step(c, l), Seen(c, l) = AtomicPc[c]
  PROVE  UNCHANGED Reference!callVars
<1>1. AtomicPc' = [AtomicPc EXCEPT ![c] = AtomicPc[c]]
  BY Moved DEF Step
<1>2. AtomicPc' = AtomicPc
  BY <1>1 DEF AtomicPc
<1> QED BY <1>2 DEF Step, Reference!callVars

LEMMA Gets ==
  ASSUME Typed, NEW c \in Calls, AtomicPc[c] = "idle", kind[c] \in Guarded, row.st = "live",
         held' = [held EXCEPT ![c] = EnvelopeOf(row)], Goto(c, "held"),
         UNCHANGED <<soft, row, kind, reply>>
  PROVE  Reference!Get(c)
<1>1. AtomicPc' = [AtomicPc EXCEPT ![c] = "held"]
  BY Moved DEF Seen
<1> QED BY <1>1
  DEF Reference!Get, Reference!Goto, Reference!EnvelopeOf, EnvelopeOf, Reference!Guarded, Guarded

LEMMA Commits ==
  ASSUME Typed, NEW c \in Calls, NEW v, Waits(c), Commit(c, Live(row.ver + 1, v)),
         \/ kind[c] = "create" /\ row.st # "live" /\ v = {c}
         \/ kind[c] = "put" /\ v = {c}
         \/ kind[c] \in Updates \cup Patches /\ row.st = "live"
               /\ (kind[c] \in Guarded => row.ver = held[c].ver)
               /\ v = (IF kind[c] \in Patches THEN row.val ELSE held[c].val) \cup {c}
  PROVE  Reference!Create(c) \/ Reference!Put(c) \/ Reference!Update(c) \/ Reference!Patch(c)
<1>1. AtomicPc' = [AtomicPc EXCEPT ![c] = "ok"]
  BY Moved DEF Seen, Outcomes, Commit
<1>2. Reference!Ready(c)
  BY DEF Waits, Reference!Ready, Reference!Guarded, Guarded
<1>3. Reference!Commit(c, Reference!Live(row.ver + 1, v))
  BY <1>1 DEF Commit, Reference!Commit, Reference!Goto, Reference!Live, Live, EnvelopeOf,
              Reference!EnvelopeOf
<1>4. Reference!VersionMatches(c) <=> (kind[c] \in Guarded => held[c].ver = row.ver)
  BY DEF Reference!VersionMatches, Guarded, Reference!Guarded
<1> QED BY <1>2, <1>3, <1>4
  DEF Reference!Create, Reference!Put, Reference!Update, Reference!Patch,
      Reference!Updates, Reference!Patches, Updates, Patches

LEMMA Deleted ==
  ASSUME Typed, NEW c \in Calls, Waits(c), kind[c] \in Deletes, row.st = "live",
         kind[c] \in Guarded => row.ver = held[c].ver,
         CommitDelete(c, IF soft THEN Dead(row.ver + 1) ELSE Absent)
  PROVE  Reference!Delete(c)
<1>1. AtomicPc' = [AtomicPc EXCEPT ![c] = "ok"]
  BY Moved DEF Seen, Outcomes, CommitDelete
<1>2. Reference!Ready(c)
  BY DEF Waits, Reference!Ready, Reference!Guarded, Guarded
<1>3. Reference!VersionMatches(c)
  BY DEF Reference!VersionMatches, Guarded, Reference!Guarded
<1> QED BY <1>1, <1>2, <1>3
  DEF CommitDelete, Reference!Delete, Reference!CommitDelete, Reference!Goto, Reference!Deletes,
      Deletes, Reference!Dead, Dead, Reference!Absent, Absent

\* The port may refuse whenever it likes, the reference when there is a reason.
LEMMA Refuses ==
  ASSUME Typed, NEW c \in Calls, Refused(c)
  PROVE  /\ Port!Refuse(c)
         /\ (\/ kind[c] = "create" /\ row.st = "live"
             \/ Step(c, "miss") /\ row.st # "live"
             \/ Step(c, "conflict") /\ row.st = "live" /\ kind[c] \in Guarded
                   /\ row.ver # held[c].ver)
            => Reference!Refuse(c)
<1>0. \A l \in Outcomes : Step(c, l) => AtomicPc' = [AtomicPc EXCEPT ![c] = l]
  BY Moved DEF Seen, Step
<1>1. \A l \in Outcomes : Step(c, l) => Port!Step(c, l) /\ Reference!Step(c, l)
  BY <1>0 DEF Step, Port!Step, Port!Goto, Reference!Step, Reference!Goto
<1>2. {"exists", "miss", "conflict"} \subseteq Outcomes
  BY DEF Outcomes
<1>3. Port!Ready(c) /\ Reference!Ready(c)
  BY DEF Refused, Waits, Reference!Ready, Reference!Guarded, Port!Ready, Port!Guarded, Guarded
<1>4. \A l, m \in Outcomes : Step(c, l) /\ Step(c, m) => l = m
  BY DEF Step, Goto, Typed
<1>5. Port!Refuse(c)
  BY <1>1, <1>2, <1>3 DEF Refused, Port!Refuse
<1>6. ASSUME kind[c] = "create", row.st = "live" PROVE Reference!Refuse(c)
  BY <1>1, <1>2, <1>3, <1>6 DEF Refused, Reference!Refuse
<1>7. ASSUME kind[c] # "create", Step(c, "miss"), row.st # "live" PROVE Reference!Refuse(c)
  BY <1>1, <1>2, <1>3, <1>7 DEF Refused, Reference!Refuse
<1>8. ASSUME kind[c] # "create", Step(c, "conflict"), row.st = "live",
             kind[c] \in Guarded, row.ver # held[c].ver
      PROVE  Reference!Refuse(c)
  BY <1>1, <1>2, <1>3, <1>8
     DEF Refused, Reference!Refuse, Reference!VersionMatches, Reference!Guarded, Guarded
<1>9. kind[c] = "create" => ~Step(c, "miss") /\ ~Step(c, "conflict")
  BY <1>2, <1>4 DEF Refused
<1> QED BY <1>5, <1>6, <1>7, <1>8, <1>9

-----------------------------------------------------------------------------
(* Every back-end takes steps of the reference, or refuses                 *)

RefStep(c) ==
    \/ Reference!Get(c) \/ Reference!Create(c) \/ Reference!Put(c) \/ Reference!Update(c)
    \/ Reference!Patch(c) \/ Reference!Delete(c)

Takes(c) == RefStep(c) \/ (UNCHANGED Reference!callVars) \/ Refused(c)

\* Calls that have not returned have not happened yet.
LEMMA Waiting ==
  ASSUME Typed, NEW c \in Calls
  PROVE  /\ Ready(c) => Waits(c)
         /\ pc[c] \in Positions \ (Outcomes \cup {"idle", "held", "getVersion"}) => Waits(c)
         /\ pc[c] \in {"idle", "getVersion"} => AtomicPc[c] = "idle"
BY DEF Typed, Ready, Waits, AtomicPc, MidFlight, Positions, Outcomes

\* Going on to a position in mid-flight is no step to the port.
LEMMA GoesOn ==
  ASSUME Typed, NEW c \in Calls, NEW l \in Positions, Waits(c), Step(c, l)
  PROVE  l \notin Outcomes \cup {"idle", "held", "getVersion"} => UNCHANGED Reference!callVars
<1>1. SUFFICES ASSUME l \notin Outcomes \cup {"idle", "held", "getVersion"}
               PROVE  UNCHANGED Reference!callVars
  OBVIOUS
<1>2. Seen(c, l) = AtomicPc[c]
  BY <1>1 DEF Seen, Waits
<1> QED BY <1>2, Stutters

\* A row written after an absent one has version 1.
LEMMA Fresh ==
  ASSUME Typed, RowShape
  PROVE  /\ row.ver \in Nat /\ row.st \in {"absent", "live", "dead"}
         /\ row.st = "absent" => row.ver + 1 = 1
BY DEF Typed, RowShape, Row

\* D1 and Postgres.
LEMMA SqlTakes ==
  ASSUME Shape, NEW c \in Calls, Sound(c), backend = "sql", Sql!CallStep(c)
  PROVE  Takes(c)
<1> USE DEF Sql!Guarded, Sql!Updates, Sql!Patches, Sql!Deletes, Guarded, Updates, Patches, Deletes
<1> USE DEF Sql!Step, Step, Sql!Goto, Goto, Sql!Commit, Commit, Sql!CommitDelete, CommitDelete,
            Sql!Live, Live, Sql!Dead, Dead, Sql!Absent, Absent, Sql!EnvelopeOf, EnvelopeOf,
            Sql!Ready, Sql!Unmoved
<1>0. Typed /\ RowShape /\ Placed(c)
  BY DEF Shape
<1>1. CASE Sql!Get(c)
  BY <1>0, <1>1, Gets, Waiting DEF Sql!Get, Takes, RefStep
<1>2. CASE Sql!Insert(c)
  BY <1>0, <1>2, Commits, Waiting DEF Sql!Insert, Takes, RefStep, Ready, Refused
<1>3. CASE Sql!PutRead(c)
  BY <1>0, <1>3, GoesOn, Waiting DEF Sql!PutRead, Takes, Ready, Positions, Outcomes
<1>4. CASE Sql!PutWrite(c)
  BY <1>0, <1>4, Commits, Waiting DEF Sql!PutWrite, Takes, RefStep, Placed, PlacedAt, Sound, Positions, Outcomes
<1>5. CASE Sql!PatchRead(c)
  BY <1>0, <1>5, GoesOn, Waiting DEF Sql!PatchRead, Takes, Ready, Refused, Positions, Outcomes
<1>6. CASE Sql!UpdateCasRead(c)
  BY <1>0, <1>6, GoesOn, Waiting
     DEF Sql!UpdateCasRead, Takes, Ready, Placed, PlacedAt, Refused, Positions, Outcomes
<1>7. CASE Sql!UpdateWrite(c)
  <2>1. Waits(c) /\ kind[c] \in Updates \cup Patches
    BY <1>0, <1>7, Waiting DEF Sql!UpdateWrite, Placed, PlacedAt, Positions, Outcomes
  <2>2. CASE Sql!Unmoved(Sql!UpdateGuard(c))
    <3>1. row.st = "live" /\ row.ver = Sql!UpdateGuard(c)
      BY <2>2
    <3>2. Commit(c, Live(row.ver + 1, Sql!UpdateValue(c)))
      BY <1>7, <3>1 DEF Sql!UpdateWrite
    <3>3. kind[c] \in Guarded => row.ver = held[c].ver
      BY <1>7, <2>1, <3>1 DEF Sql!UpdateWrite, Sql!UpdateGuard, Sound
    <3>4. Sql!UpdateValue(c) = (IF kind[c] \in Patches THEN row.val ELSE held[c].val) \cup {c}
      BY <1>7, <2>1, <3>1 DEF Sql!UpdateWrite, Sql!UpdateGuard, Sql!UpdateValue, Sound
    <3> HIDE DEF Commit, Live
    <3> QED BY <1>0, <2>1, <3>1, <3>2, <3>3, <3>4, Commits DEF Takes, RefStep
  <2>3. CASE ~Sql!Unmoved(Sql!UpdateGuard(c))
    BY <1>7, <2>1, <2>3 DEF Sql!UpdateWrite, Takes, Refused
  <2> QED BY <2>2, <2>3
<1>8. CASE Sql!DeleteRead(c)
  BY <1>0, <1>8, GoesOn, Waiting DEF Sql!DeleteRead, Takes, Ready, Refused, Positions, Outcomes
<1>9. CASE Sql!DeleteCasRead(c)
  BY <1>0, <1>9, GoesOn, Waiting
     DEF Sql!DeleteCasRead, Takes, Ready, Placed, PlacedAt, Refused, Positions, Outcomes
<1>10. CASE Sql!DeleteWrite(c)
  BY <1>0, <1>10, Deleted, Waiting
     DEF Sql!DeleteWrite, Takes, RefStep, RowShape, Typed, Row, Placed, PlacedAt, Sound, Refused, Positions, Outcomes
<1> QED BY <1>1, <1>2, <1>3, <1>4, <1>5, <1>6, <1>7, <1>8, <1>9, <1>10 DEF Sql!CallStep

\* DynamoDB.
LEMMA DynamoTakes ==
  ASSUME Shape, NEW c \in Calls, Sound(c), backend = "dynamo", Dynamo!CallStep(c)
  PROVE  Takes(c)
<1> USE DEF Dynamo!Guarded, Dynamo!Updates, Dynamo!Patches, Dynamo!Deletes, Guarded, Updates, Patches, Deletes
<1> USE DEF Dynamo!Step, Step, Dynamo!Goto, Goto, Dynamo!Commit, Commit, Dynamo!CommitDelete, CommitDelete,
            Dynamo!Live, Live, Dynamo!Dead, Dead, Dynamo!Absent, Absent, Dynamo!EnvelopeOf, EnvelopeOf,
            Dynamo!Ready, Dynamo!Unmoved
<1>0. Typed /\ RowShape /\ Placed(c)
  BY DEF Shape
<1>1. CASE Dynamo!Get(c)
  BY <1>0, <1>1, Gets, Waiting DEF Dynamo!Get, Takes, RefStep
<1>2. CASE Dynamo!InsertRead(c)
  BY <1>0, <1>2, GoesOn, Waiting DEF Dynamo!InsertRead, Takes, Ready, Positions, Outcomes
<1>3. CASE Dynamo!InsertWrite(c)
  <2>1. Waits(c) /\ kind[c] = "create"
    BY <1>0, <1>3, Waiting DEF Dynamo!InsertWrite, Ready, Positions, Outcomes
  <2>2. CASE Step(c, "exists")
    BY <2>1, <2>2 DEF Takes, Refused
  <2>3. CASE row.st # "live" /\ Commit(c, Live(row.ver + 1, {c}))
    BY <1>0, <2>1, <2>3, Commits DEF Takes, RefStep
  <2>4. Step(c, "exists") \/ (row.st # "live" /\ Commit(c, Live(row.ver + 1, {c})))
    BY <1>0, <1>3, Fresh DEF Dynamo!InsertWrite, Placed, PlacedAt, Sound
  <2> QED BY <2>2, <2>3, <2>4
<1>4. CASE Dynamo!PutRow(c)
  BY <1>0, <1>4, Commits, Waiting DEF Dynamo!PutRow, Takes, RefStep, Ready
<1>5. CASE Dynamo!PatchRead(c)
  BY <1>0, <1>5, GoesOn, Waiting DEF Dynamo!PatchRead, Takes, Ready, Refused, Positions, Outcomes
<1>6. CASE Dynamo!DeleteRead(c)
  BY <1>0, <1>6, GoesOn, Waiting DEF Dynamo!DeleteRead, Takes, Ready, Refused, Positions, Outcomes
<1>7. CASE Dynamo!UpdateCasRead(c)
  BY <1>0, <1>7, GoesOn, Waiting
     DEF Dynamo!UpdateCasRead, Takes, Ready, Placed, PlacedAt, Refused, Positions, Outcomes
<1>8. CASE Dynamo!DeleteCasRead(c)
  BY <1>0, <1>8, GoesOn, Waiting
     DEF Dynamo!DeleteCasRead, Takes, Ready, Placed, PlacedAt, Refused, Positions, Outcomes
<1>9. CASE Dynamo!UpdateWrite(c)
  <2>1. Waits(c) /\ kind[c] \in Updates \cup Patches
    BY <1>0, <1>9, Waiting DEF Dynamo!UpdateWrite, Placed, PlacedAt, Positions, Outcomes
  <2>2. CASE Dynamo!Unmoved(Dynamo!UpdateGuard(c))
    <3>1. row.st = "live" /\ row.ver = Dynamo!UpdateGuard(c)
      BY <2>2
    <3>2. Commit(c, Live(row.ver + 1, Dynamo!UpdateValue(c)))
      BY <1>9, <2>2, <3>1 DEF Dynamo!UpdateWrite
    <3>3. kind[c] \in Guarded => row.ver = held[c].ver
      BY <1>9, <2>1, <3>1 DEF Dynamo!UpdateWrite, Dynamo!UpdateGuard, Sound
    <3>4. Dynamo!UpdateValue(c) = (IF kind[c] \in Patches THEN row.val ELSE held[c].val) \cup {c}
      BY <1>9, <2>1, <3>1 DEF Dynamo!UpdateWrite, Dynamo!UpdateGuard, Dynamo!UpdateValue, Sound
    <3> HIDE DEF Commit, Live
    <3> QED BY <1>0, <2>1, <3>1, <3>2, <3>3, <3>4, Commits DEF Takes, RefStep
  <2>3. CASE ~Dynamo!Unmoved(Dynamo!UpdateGuard(c))
    BY <1>0, <1>9, <2>1, <2>3, GoesOn DEF Dynamo!UpdateWrite, Takes, Refused, Positions, Outcomes
  <2> QED BY <2>2, <2>3
<1>10. CASE Dynamo!DeleteWrite(c)
  <2>1. Waits(c) /\ kind[c] \in Deletes
    BY <1>0, <1>10, Waiting DEF Dynamo!DeleteWrite, Placed, PlacedAt, Positions, Outcomes
  <2>2. CASE Step(c, "conflict") \/ Step(c, "deleteReread")
    BY <1>0, <2>1, <2>2, GoesOn DEF Takes, Refused, Positions, Outcomes
  <2>3. CASE /\ row.st = "live" /\ row.ver = cur[c].ver
             /\ CommitDelete(c, IF soft THEN Dead(row.ver + 1) ELSE Absent)
    BY <1>0, <1>10, <2>1, <2>3, Deleted DEF Dynamo!DeleteWrite, Takes, RefStep, Sound
  <2>4. \/ Step(c, "conflict") \/ Step(c, "deleteReread")
        \/ /\ row.st = "live" /\ row.ver = cur[c].ver
           /\ CommitDelete(c, IF soft THEN Dead(row.ver + 1) ELSE Absent)
    BY <1>0, <1>10, Fresh DEF Dynamo!DeleteWrite, RowShape, Sound
  <2> QED BY <2>2, <2>3, <2>4
<1>11. CASE Dynamo!Reread(c)
  BY <1>0, <1>11, Waiting DEF Dynamo!Reread, Takes, Placed, PlacedAt, Refused, Positions, Outcomes
<1> QED BY <1>1, <1>2, <1>3, <1>4, <1>5, <1>6, <1>7, <1>8, <1>9, <1>10, <1>11
        DEF Dynamo!CallStep

\* Redis.
LEMMA RedisTakes ==
  ASSUME Shape, NEW c \in Calls, Sound(c), backend = "redis", Redis!CallStep(c)
  PROVE  Takes(c)
<1> USE DEF Redis!Guarded, Redis!Updates, Redis!Patches, Redis!Deletes, Guarded, Updates, Patches, Deletes
<1> USE DEF Redis!Step, Step, Redis!Goto, Goto, Redis!Commit, Commit, Redis!CommitDelete, CommitDelete,
            Redis!Live, Live, Redis!Dead, Dead, Redis!Absent, Absent, Redis!EnvelopeOf, EnvelopeOf,
            Redis!Ready
<1>0. Typed /\ RowShape /\ Placed(c)
  BY DEF Shape
<1>1. CASE Redis!GetValue(c)
  <2>1. Step(c, "getVersion") /\ AtomicPc[c] = "idle"
    BY <1>0, <1>1, Waiting DEF Redis!GetValue
  <2>2. Seen(c, "getVersion") = "idle"
    BY DEF Seen, Outcomes
  <2> QED BY <1>0, <2>1, <2>2, Stutters DEF Takes
<1>2. CASE Redis!GetVersion(c)
  <2>1. kind[c] \in Guarded /\ AtomicPc[c] = "idle"
    BY <1>0, <1>2, Waiting DEF Redis!GetVersion, Placed, PlacedAt
  <2>2. CASE seen[c].st = "live"
    <3>1. row.st = "live" /\ Redis!VersionField = row.ver /\ row.val = seen[c].val
      BY <1>2, <2>2 DEF Redis!GetVersion, Redis!VersionField, Sound
    <3>2. EnvelopeOf(seen'[c]) = EnvelopeOf(row)
      BY <1>0, <1>2, <3>1 DEF Redis!GetVersion, Redis!ReadVersion, Typed, Row
    <3> QED BY <1>0, <1>2, <2>1, <2>2, <3>1, <3>2, Gets DEF Redis!GetVersion, Takes, RefStep
  <2>3. CASE seen[c].st # "live"
    <3>1. Seen(c, "idle") = "idle"
      BY DEF Seen
    <3> QED BY <1>0, <1>2, <2>1, <2>3, <3>1, Stutters DEF Redis!GetVersion, Takes
  <2> QED BY <2>2, <2>3
<1>3. CASE Redis!LoadValue(c)
  BY <1>0, <1>3, GoesOn, Waiting DEF Redis!LoadValue, Takes, Ready, Refused, Positions, Outcomes
<1>4. CASE Redis!LoadVersion(c)
  BY <1>0, <1>4, GoesOn, Waiting
     DEF Redis!LoadVersion, Takes, Placed, PlacedAt, Refused, Positions, Outcomes
<1>5. CASE Redis!CreateEval(c)
  BY <1>0, <1>5, Commits, Waiting DEF Redis!CreateEval, Takes, RefStep, Ready, Refused
<1>6. CASE Redis!PutEval(c)
  BY <1>0, <1>6, Commits, Waiting DEF Redis!PutEval, Takes, RefStep, Ready
<1>7. CASE Redis!UpdateEval(c)
  <2>1. Waits(c) /\ kind[c] \in Updates
    BY <1>0, <1>7, Waiting DEF Redis!UpdateEval, Ready
  <2>2. CASE Step(c, "miss") \/ Step(c, "conflict")
    BY <2>1, <2>2 DEF Takes, Refused
  <2>3. CASE /\ row.st = "live" /\ (kind[c] \in Guarded => row.ver = held[c].ver)
             /\ Commit(c, Live(row.ver + 1, held[c].val \cup {c}))
    BY <1>0, <2>1, <2>3, Commits DEF Takes, RefStep
  <2> QED BY <1>7, <2>2, <2>3 DEF Redis!UpdateEval, Redis!Guard, Redis!Expected
<1>8. CASE Redis!PatchEval(c)
  <2>1. Waits(c) /\ kind[c] \in Patches
    BY <1>0, <1>8, Waiting DEF Redis!PatchEval, Positions, Outcomes
  <2>2. CASE Step(c, "miss") \/ Step(c, "conflict")
    BY <2>1, <2>2 DEF Takes, Refused
  <2>3. CASE /\ row.st = "live" /\ row.ver = seen[c].ver
             /\ Commit(c, Live(row.ver + 1, seen[c].val \cup {c}))
    BY <1>0, <1>8, <2>1, <2>3, Commits DEF Redis!PatchEval, Takes, RefStep, Sound
  <2> QED BY <1>8, <2>2, <2>3 DEF Redis!PatchEval, Redis!Guard
<1>9. CASE Redis!DeleteEval(c)
  <2>1. Waits(c) /\ kind[c] \in Deletes
    BY <1>0, <1>9, Waiting DEF Redis!DeleteEval, Ready, Positions, Outcomes
  <2>2. CASE Step(c, "miss") \/ Step(c, "conflict")
    BY <2>1, <2>2 DEF Takes, Refused
  <2>3. CASE /\ row.st = "live" /\ (kind[c] \in Guarded => row.ver = held[c].ver)
             /\ CommitDelete(c, IF soft THEN Dead(row.ver + 1) ELSE Absent)
    BY <1>0, <2>1, <2>3, Deleted DEF Takes, RefStep
  <2> QED BY <1>9, <2>2, <2>3 DEF Redis!DeleteEval, Redis!Guard, Redis!Expected
<1> QED BY <1>1, <1>2, <1>3, <1>4, <1>5, <1>6, <1>7, <1>8, <1>9 DEF Redis!CallStep

\* Workers KV.
LEMMA KvTakes ==
  ASSUME Shape, NEW c \in Calls, Sound(c), backend = "kv", Kv!CallStep(c)
  PROVE  Takes(c)
<1> USE DEF Kv!Guarded, Kv!Updates, Kv!Patches, Kv!Deletes, Guarded, Updates, Patches, Deletes
<1> USE DEF Kv!Step, Step, Kv!Goto, Goto, Kv!Commit, Commit, Kv!CommitDelete, CommitDelete,
            Kv!Live, Live, Kv!Dead, Dead, Kv!Absent, Absent, Kv!EnvelopeOf, EnvelopeOf,
            Kv!Ready
<1>0. Typed /\ RowShape /\ Placed(c)
  BY DEF Shape
<1>1. CASE Kv!Load(c)
  <2>1. Waits(c)
    BY <1>0, <1>1, Waiting DEF Kv!Load, Ready
  <2>2. PICK l \in {"kvWrite", "exists", "miss"} :
           /\ Step(c, l)
           /\ l = "exists" => kind[c] = "create"
           /\ l = "miss" => kind[c] \notin {"create", "put"}
    BY <1>1 DEF Kv!Load, Kv!AfterRead
  <2> QED BY <1>0, <2>1, <2>2, GoesOn DEF Takes, Refused, Positions, Outcomes
<1>2. CASE Kv!KvPut(c)
  <2>1. Waits(c) /\ kind[c] \in AllKinds \ Deletes /\ kind[c] \notin Guarded
    BY <1>0, <1>2, Waiting DEF Kv!KvPut, Placed, PlacedAt, Positions, Outcomes, Typed
  <2>2. row.st = seen[c].st /\ row.ver = seen[c].ver /\ row.val = seen[c].val
    BY <1>2 DEF Kv!KvPut, Sound
  <2>3. Commit(c, Live(row.ver + 1, Kv!UpdateValue(c)))
    BY <1>2, <2>2 DEF Kv!KvPut
  <2>4. /\ kind[c] = "create" => row.st # "live"
        /\ kind[c] \in Updates \cup Patches => row.st = "live"
    BY <1>0, <1>2, <2>2 DEF Kv!KvPut, Placed, PlacedAt
  <2>5. Kv!UpdateValue(c) = (IF kind[c] \in Patches THEN row.val ELSE held[c].val) \cup {c}
    BY <2>2 DEF Kv!UpdateValue
  <2>6. held[c].val = {}
    BY <1>0, <2>1 DEF Placed, PlacedAt, NoEnvelope
  <2>7. kind[c] \in {"create", "put"} \cup Updates \cup Patches
    BY <2>1 DEF AllKinds
  <2>8. kind[c] \in {"create", "put"} => Kv!UpdateValue(c) = {c}
    BY <2>5, <2>6
  <2> HIDE DEF Commit, Live
  <2> QED BY <1>0, <2>1, <2>3, <2>4, <2>5, <2>7, <2>8, Commits DEF Takes, RefStep
<1>3. CASE Kv!KvDelete(c)
  <2>1. Waits(c) /\ kind[c] \in Deletes /\ kind[c] \notin Guarded
    BY <1>0, <1>3, Waiting DEF Kv!KvDelete, Placed, PlacedAt, Positions, Outcomes
  <2>2. row.st = "live" /\ row.ver = seen[c].ver
    BY <1>0, <1>3, <2>1 DEF Kv!KvDelete, Sound, Placed, PlacedAt
  <2>3. CommitDelete(c, IF soft THEN Dead(row.ver + 1) ELSE Absent)
    BY <1>3, <2>2 DEF Kv!KvDelete
  <2> HIDE DEF CommitDelete, Dead, Absent
  <2> QED BY <1>0, <2>1, <2>2, <2>3, Deleted DEF Takes, RefStep
<1> QED BY <1>1, <1>2, <1>3 DEF Kv!CallStep

\* The in-process ports: what MapCas leads to.
MapWrites(c) ==
    \/ Step(c, "miss") \/ Step(c, "conflict")
    \/ /\ row.st = "live" /\ row.ver \in Fake!MapExpected(c)
       /\ Commit(c, Live(row.ver + 1, Fake!UpdateValue(c)))

MapDeletes(c) ==
    \/ Step(c, "miss") \/ Step(c, "conflict")
    \/ /\ row.st = "live" /\ row.ver \in Fake!MapExpected(c)
       /\ CommitDelete(c, IF soft THEN Dead(row.ver + 1) ELSE Absent)

LEMMA MapWriteTakes ==
  ASSUME Shape, NEW c \in Calls, Sound(c), Waits(c), MapWrites(c),
         \/ kind[c] \in Updates
         \/ kind[c] \in Patches /\ pc[c] \in {"updateCas", "eval"}
  PROVE  Takes(c)
<1>0. Typed
  BY DEF Shape
<1>1. CASE Step(c, "miss") \/ Step(c, "conflict")
  BY <1>1 DEF Takes, Refused, Updates, Patches
<1>2. CASE /\ row.st = "live" /\ row.ver \in Fake!MapExpected(c)
           /\ Commit(c, Live(row.ver + 1, Fake!UpdateValue(c)))
  <2>1. kind[c] \in Guarded => row.ver = held[c].ver
    BY <1>2 DEF Fake!MapExpected, Sound, Guarded, Updates, Patches, Fake!Guarded, Fake!Patches
  <2>2. Fake!UpdateValue(c) = (IF kind[c] \in Patches THEN row.val ELSE held[c].val) \cup {c}
    BY <1>2 DEF Fake!MapExpected, Fake!UpdateValue, Sound, Updates, Patches, Fake!Patches
  <2> QED BY <1>0, <1>2, <2>1, <2>2, Commits DEF Takes, RefStep
<1> QED BY <1>1, <1>2 DEF MapWrites

LEMMA MapDeleteTakes ==
  ASSUME Shape, NEW c \in Calls, Waits(c), kind[c] \in Deletes, MapDeletes(c)
  PROVE  Takes(c)
<1>0. Typed
  BY DEF Shape
<1>1. CASE Step(c, "miss") \/ Step(c, "conflict")
  BY <1>1 DEF Takes, Refused, Deletes
<1>2. CASE /\ row.st = "live" /\ row.ver \in Fake!MapExpected(c)
           /\ CommitDelete(c, IF soft THEN Dead(row.ver + 1) ELSE Absent)
  <2>1. kind[c] \in Guarded => row.ver = held[c].ver
    BY <1>2 DEF Fake!MapExpected, Guarded, Deletes, Fake!Guarded, Fake!Patches
  <2> QED BY <1>0, <1>2, <2>1, Deleted DEF Takes, RefStep
<1> QED BY <1>1, <1>2 DEF MapDeletes

\* The steps the three in-process ports share.
FakeTable(c) ==
    \/ Fake!Get(c) \/ Fake!MapInsert(c) \/ Fake!MapPut(c) \/ Fake!MapPutRead(c)
    \/ Fake!MapPutAfter(c) \/ Fake!PatchRead(c) \/ Fake!MapUpdate(c) \/ Fake!DeleteRead(c)
    \/ Fake!MapDelete(c)

LEMMA FakeTableTakes ==
  ASSUME Shape, NEW c \in Calls, Sound(c), FakeTable(c)
  PROVE  Takes(c)
<1> USE DEF Fake!Guarded, Fake!Updates, Fake!Patches, Fake!Deletes, Guarded, Updates, Patches, Deletes
<1> USE DEF Fake!Step, Step, Fake!Goto, Goto, Fake!Commit, Commit, Fake!CommitDelete, CommitDelete,
            Fake!Live, Live, Fake!Dead, Dead, Fake!Absent, Absent, Fake!EnvelopeOf, EnvelopeOf,
            Fake!Ready
<1>0. Typed /\ RowShape /\ Placed(c)
  BY DEF Shape
<1>1. CASE Fake!Get(c)
  BY <1>0, <1>1, Gets, Waiting DEF Fake!Get, Takes, RefStep
<1>2. CASE Fake!MapInsert(c)
  BY <1>0, <1>2, Commits, Waiting DEF Fake!MapInsert, Fake!InTheWay, Typed, Row, Takes, RefStep, Ready, Refused
<1>3. CASE Fake!MapPut(c)
  BY <1>0, <1>3, Commits, Waiting DEF Fake!MapPut, Takes, RefStep, Ready
<1>4. CASE Fake!MapPutRead(c)
  BY <1>0, <1>4, GoesOn, Waiting DEF Fake!MapPutRead, Takes, Ready, Positions, Outcomes
<1>5. CASE Fake!MapPutAfter(c)
  BY <1>0, <1>5, Commits, Waiting DEF Fake!MapPutAfter, Takes, RefStep, Placed, PlacedAt, Sound, Positions, Outcomes
<1>6. CASE Fake!PatchRead(c)
  BY <1>0, <1>6, GoesOn, Waiting DEF Fake!PatchRead, Takes, Ready, Refused, Positions, Outcomes
<1>7. CASE Fake!DeleteRead(c)
  BY <1>0, <1>7, GoesOn, Waiting DEF Fake!DeleteRead, Takes, Ready, Refused, Positions, Outcomes
<1>8. CASE Fake!MapUpdate(c)
  <2>1. Waits(c) /\ (kind[c] \in Updates \/ (kind[c] \in Patches /\ pc[c] = "updateCas"))
    BY <1>0, <1>8, Waiting DEF Fake!MapUpdate, Ready, Placed, PlacedAt, Positions, Outcomes
  <2>2. MapWrites(c)
    BY <1>8 DEF Fake!MapUpdate, Fake!MapCas, MapWrites
  <2> QED BY <2>1, <2>2, MapWriteTakes
<1>9. CASE Fake!MapDelete(c)
  <2>1. Waits(c) /\ kind[c] \in Deletes
    BY <1>0, <1>9, Waiting DEF Fake!MapDelete, Placed, PlacedAt, Positions, Outcomes
  <2>2. MapDeletes(c)
    BY <1>9 DEF Fake!MapDelete, Fake!MapCas, MapDeletes
  <2> QED BY <2>1, <2>2, MapDeleteTakes
<1> QED BY <1>1, <1>2, <1>3, <1>4, <1>5, <1>6, <1>7, <1>8, <1>9 DEF FakeTable

LEMMA FakeEvalTakes ==
  ASSUME Shape, NEW c \in Calls, Sound(c), Fake!FakeEval(c)
  PROVE  Takes(c)
<1> USE DEF Fake!Guarded, Fake!Updates, Fake!Patches, Fake!Deletes, Guarded, Updates, Patches, Deletes
<1> USE DEF Fake!Step, Step, Fake!Goto, Goto, Fake!Commit, Commit, Fake!CommitDelete, CommitDelete,
            Fake!Live, Live, Fake!Dead, Dead, Fake!Absent, Absent, Fake!EnvelopeOf, EnvelopeOf,
            Fake!Ready
<1>0. Typed /\ RowShape /\ Placed(c) /\ kind[c] \in AllKinds
  BY DEF Shape, Typed
<1>1. CASE kind[c] = "create" \/ kind[c] = "put"
  BY <1>1, FakeTableTakes DEF Fake!FakeEval, FakeTable
<1>2. CASE kind[c] \in Updates
  <2>1. Waits(c) /\ MapWrites(c)
    BY <1>0, <1>2, Waiting DEF Fake!FakeEval, Fake!MapCas, MapWrites, Ready
  <2> QED BY <1>2, <2>1, MapWriteTakes
<1>3. CASE kind[c] \in Patches
  <2>1. Waits(c) /\ MapWrites(c) /\ pc[c] = "eval"
    BY <1>0, <1>3, Waiting DEF Fake!FakeEval, Fake!MapCas, MapWrites, Positions, Outcomes
  <2> QED BY <1>3, <2>1, MapWriteTakes
<1>4. CASE kind[c] \in Deletes
  <2>1. Waits(c) /\ MapDeletes(c)
    BY <1>0, <1>4, Waiting DEF Fake!FakeEval, Fake!MapCas, MapDeletes, Ready, Positions, Outcomes
  <2> QED BY <1>4, <2>1, MapDeleteTakes
<1> QED BY <1>0, <1>1, <1>2, <1>3, <1>4 DEF AllKinds

LEMMA FakeTakes ==
  ASSUME Shape, NEW c \in Calls, Sound(c),
         \/ Fake!FakeDynamoStep(c) \/ Fake!FakeSqlStep(c) \/ Fake!FakeRedisStep(c)
  PROVE  Takes(c)
<1> USE DEF Fake!Guarded, Fake!Updates, Fake!Patches, Fake!Deletes, Guarded, Updates, Patches, Deletes
<1> USE DEF Fake!Step, Step, Fake!Goto, Goto, Fake!Commit, Commit, Fake!CommitDelete, CommitDelete,
            Fake!Live, Live, Fake!Dead, Dead, Fake!Absent, Absent, Fake!EnvelopeOf, EnvelopeOf,
            Fake!Ready
<1> USE DEF Fake!Redis!Step, Fake!Redis!Goto, Fake!Redis!Guarded, Fake!Redis!Patches, Fake!Redis!Deletes,
            Fake!Redis!Ready, Fake!Redis!EnvelopeOf
<1>0. Typed /\ RowShape /\ Placed(c)
  BY DEF Shape
<1>1. CASE Fake!Redis!GetValue(c)
  <2>1. Step(c, "getVersion") /\ AtomicPc[c] = "idle"
    BY <1>0, <1>1, Waiting DEF Fake!Redis!GetValue
  <2>2. Seen(c, "getVersion") = "idle"
    BY DEF Seen, Outcomes
  <2> QED BY <1>0, <2>1, <2>2, Stutters DEF Takes
<1>2. CASE Fake!Redis!GetVersion(c)
  <2>1. kind[c] \in Guarded /\ AtomicPc[c] = "idle"
    BY <1>0, <1>2, Waiting DEF Fake!Redis!GetVersion, Placed, PlacedAt
  <2>2. CASE seen[c].st = "live"
    <3>1. row.st = "live" /\ Fake!Redis!VersionField = row.ver /\ row.val = seen[c].val
      BY <1>2, <2>2 DEF Fake!Redis!GetVersion, Fake!Redis!VersionField, Sound
    <3>2. EnvelopeOf(seen'[c]) = EnvelopeOf(row)
      BY <1>0, <1>2, <3>1 DEF Fake!Redis!GetVersion, Fake!Redis!ReadVersion, Typed, Row
    <3> QED BY <1>0, <1>2, <2>1, <2>2, <3>1, <3>2, Gets DEF Fake!Redis!GetVersion, Takes, RefStep
  <2>3. CASE seen[c].st # "live"
    <3>1. Seen(c, "idle") = "idle"
      BY DEF Seen
    <3> QED BY <1>0, <1>2, <2>1, <2>3, <3>1, Stutters DEF Fake!Redis!GetVersion, Takes
  <2> QED BY <2>2, <2>3
<1>3. CASE Fake!Redis!LoadValue(c)
  BY <1>0, <1>3, GoesOn, Waiting DEF Fake!Redis!LoadValue, Takes, Ready, Refused, Positions, Outcomes
<1>4. CASE Fake!Redis!LoadVersion(c)
  BY <1>0, <1>4, GoesOn, Waiting
     DEF Fake!Redis!LoadVersion, Takes, Placed, PlacedAt, Refused, Positions, Outcomes
<1>5. CASE Fake!FakeEval(c)
  BY <1>5, FakeEvalTakes
<1>6. CASE FakeTable(c)
  BY <1>6, FakeTableTakes
<1> QED BY <1>1, <1>2, <1>3, <1>4, <1>5, <1>6
        DEF Fake!FakeDynamoStep, Fake!FakeSqlStep, Fake!FakeRedisStep, FakeTable

\* Whichever back-end it is.
LEMMA StepTakes ==
  ASSUME Shape, NEW c \in Calls, Sound(c), CallStep(c)
  PROVE  Takes(c)
BY DynamoTakes, SqlTakes, RedisTakes, KvTakes, FakeTakes
   DEF CallStep, DynamoStep, SqlStep, RedisStep, KvStep, FakeStep


-----------------------------------------------------------------------------
(* How far the record can have moved under a call in mid-flight            *)

\* Under the mixes of Atomic: x and y are what c has read.
PlanAt(c, l, x, y) ==
    /\ l \in {"updateCas", "updateWrite"} /\ kind[c] \in Patches =>
          /\ kind[c] = "patchIf" => x.ver = held[c].ver
          /\ row.st = "absent" => ~soft /\ Some(Deletes)
          /\ row.st # "absent" => x.ver <= row.ver
          /\ row.st = "live" /\ row.ver = x.ver => row.val = x.val
    /\ l = "putWrite" => row.ver = x.ver
    /\ l = "deleteWrite" /\ kind[c] = "deleteIf" => y.ver = held[c].ver
    /\ l \in {"deleteCas", "deleteWrite"} /\ backend = "dynamo" /\ soft =>
          IF kind[c] = "deleteIf" THEN x.ver = held[c].ver
          ELSE row.st = "live" => row.ver = x.ver
    /\ l = "insertWrite" =>
          /\ row.st = "dead" => y.st = "dead"
          /\ y.st = "dead" => row.st # "absent"
    /\ l \in {"getVersion", "loadVersion", "eval"} /\ kind[c] \in Guarded \cup Patches =>
          /\ row.st # "absent" /\ row.st = x.st /\ row.val = x.val
          /\ l = "eval" => row.ver = x.ver /\ (kind[c] = "patchIf" => row.ver = held[c].ver)

Plan(c) == PlanAt(c, pc[c], seen[c], cur[c])

\* In turn: not at all.
StillAt(c, l, x, y) ==
    /\ l = "updateCas" => x = row
    /\ l = "updateWrite" => y = row /\ (kind[c] \in Patches => x = row)
    /\ l \in {"updateCas", "updateWrite"} /\ kind[c] = "patchIf" => row.ver = held[c].ver
    /\ l = "updateReread" =>
          kind[c] \in Guarded /\ row.st = "live" /\ row.ver # held[c].ver
    /\ l = "deleteCas" /\ soft => row.st = "live" /\ x = row
    /\ l = "deleteWrite" => y = row /\ (soft => x = row)
    /\ (l = "deleteWrite" \/ (l = "deleteCas" /\ soft)) /\ kind[c] = "deleteIf" =>
          row.ver = held[c].ver
    /\ l # "deleteReread"
    /\ l = "insertWrite" => y = row
    /\ l \in {"putWrite", "kvWrite"} => x = row
    /\ l \in {"getVersion", "loadVersion", "eval"} =>
          row.st # "absent" /\ row.st = x.st /\ row.val = x.val
    /\ l = "eval" =>
          row.ver = x.ver /\ (kind[c] = "patchIf" => row.ver = held[c].ver)

Still(c) == StillAt(c, pc[c], seen[c], cur[c])

\* A refusal with a reason.
Reason(c, l) ==
    /\ l = "exists" => row.st = "live"
    /\ l = "miss" => row.st # "live"
    /\ l = "conflict" => row.st = "live" /\ kind[c] \in Guarded /\ row.ver # held[c].ver

\* With tombstones the version a caller holds is of the past, and of the record
\* that is still there; when it is refused it is not the present one.
RealAt(c, l, x, y) ==
    soft =>
       /\ kind[c] \in Guarded /\ l \notin {"idle", "getVersion"} =>
             held[c].ver <= row.ver /\ row.st # "absent"
       /\ l = "getVersion" => row.st # "absent"
       /\ l \in {"updateReread", "deleteReread", "conflict"} /\ kind[c] \in Guarded =>
             (row.st = "live" => held[c].ver < row.ver)
       /\ l \in {"updateCas", "updateWrite", "eval"} /\ kind[c] = "patchIf" =>
             x.ver = held[c].ver
       /\ l = "deleteWrite" /\ kind[c] = "deleteIf" => y.ver = held[c].ver

Real(c) == RealAt(c, pc[c], seen[c], cur[c])

\* How a step ends: with c somewhere else and the record alone, in success, or
\* with an envelope.
Lands(c) ==
    \E l \in Positions, x \in Row, y \in Row :
       /\ Step(c, l) /\ PlacedAt(c, l, x, y)
       /\ seen' = [seen EXCEPT ![c] = x] /\ cur' = [cur EXCEPT ![c] = y]
       /\ Plan(c) => PlanAt(c, l, x, y)
       /\ Still(c) => StillAt(c, l, x, y) /\ Reason(c, l)
       /\ Real(c) => RealAt(c, l, x, y)

Wins(c) ==
    /\ UNCHANGED <<seen, cur>>
    /\ kind[c] \in Guarded => pc[c] \notin {"idle", "getVersion"}
    /\ \E n \in Nat :
          \/ \E v \in SUBSET Calls : Commit(c, Live(n, v))
          \/ CommitDelete(c, IF soft THEN Dead(n) ELSE Absent)

HasGot(c) ==
    /\ kind[c] \in Guarded /\ backend # "kv"
    /\ Goto(c, "held") /\ UNCHANGED <<soft, row, kind, reply, cur>>
    /\ \E x \in Row : seen' = [seen EXCEPT ![c] = x]
    /\ \E e \in Envelope :
          /\ held' = [held EXCEPT ![c] = e]
          /\ Real(c) /\ soft => e.ver <= row.ver /\ row.st # "absent"

Settles(c) == Lands(c) \/ Wins(c) \/ HasGot(c)

LEMMA LandsAt ==
  ASSUME NEW c \in Calls, NEW l \in Positions, NEW x \in Row, NEW y \in Row, Step(c, l),
         PlacedAt(c, l, x, y),
         seen' = [seen EXCEPT ![c] = x], cur' = [cur EXCEPT ![c] = y],
         Plan(c) => PlanAt(c, l, x, y),
         Still(c) => StillAt(c, l, x, y) /\ Reason(c, l),
         Real(c) => RealAt(c, l, x, y)
  PROVE  Settles(c)
BY DEF Lands, Settles

LEMMA GotAt ==
  ASSUME NEW c \in Calls, kind[c] \in Guarded, backend # "kv", NEW x \in Row, NEW e \in Envelope,
         Goto(c, "held"), UNCHANGED <<soft, row, kind, reply, cur>>,
         seen' = [seen EXCEPT ![c] = x], held' = [held EXCEPT ![c] = e],
         Real(c) /\ soft => e.ver <= row.ver /\ row.st # "absent"
  PROVE  Settles(c)
BY DEF HasGot, Settles

\* What the writes are given.
LEMMA Givens ==
  ASSUME Shape, NEW c \in Calls
  PROVE  /\ row.ver + 1 \in Nat /\ seen[c].ver + 1 \in Nat /\ cur[c].ver + 1 \in Nat
         /\ held[c].ver + 1 \in Nat /\ 1 \in Nat
         /\ {c} \in SUBSET Calls
         /\ {c} \cup seen[c].val \in SUBSET Calls /\ {c} \cup held[c].val \in SUBSET Calls
         /\ EnvelopeOf(row) \in Envelope /\ kind[c] \in AllKinds
BY DEF Shape, Typed, Row, Envelope, EnvelopeOf

\* D1 and Postgres.
LEMMA SqlSettles ==
  ASSUME Shape, NEW c \in Calls, SqlStep(c)
  PROVE  Settles(c)
<1> USE DEF Sql!Guarded, Sql!Updates, Sql!Patches, Sql!Deletes, Guarded, Updates, Patches, Deletes
<1> USE DEF Sql!Step, Step, Sql!Goto, Goto, Sql!Commit, Commit, Sql!CommitDelete, CommitDelete,
            Sql!Live, Live, Sql!Dead, Dead, Sql!Absent, Absent, Sql!EnvelopeOf, EnvelopeOf,
            Sql!Ready
<1>0. /\ PlacedAt(c, pc[c], seen[c], cur[c]) /\ RowShape
      /\ seen[c] \in Row /\ cur[c] \in Row /\ row \in Row /\ held[c] \in Envelope
      /\ seen = [seen EXCEPT ![c] = seen[c]] /\ cur = [cur EXCEPT ![c] = cur[c]]
      /\ row.ver \in Nat /\ seen[c].ver \in Nat /\ cur[c].ver \in Nat /\ held[c].ver \in Nat
      /\ pc = [pc EXCEPT ![c] = pc[c]] /\ \A l : [pc EXCEPT ![c] = l][c] = l
      /\ kind[c] \in AllKinds /\ row.st \in {"absent", "live", "dead"}
  BY DEF Shape, Placed, Typed, Row, Envelope
<1> USE <1>0
<1>1. CASE Sql!Get(c)
  <2>1. /\ EnvelopeOf(row) \in Envelope /\ EnvelopeOf(row).ver = row.ver /\ seen[c] \in Row
        /\ kind[c] \in Guarded /\ backend # "kv" /\ row.st # "absent"
    BY <1>1, Givens DEF Sql!Get, EnvelopeOf, SqlStep
  <2>2. held' = [held EXCEPT ![c] = EnvelopeOf(row)]
    BY <1>1 DEF Sql!Get, EnvelopeOf
  <2>3. /\ Goto(c, "held") /\ UNCHANGED <<soft, row, kind, reply, cur>>
        /\ seen' = [seen EXCEPT ![c] = seen[c]]
    BY <1>1 DEF Sql!Get, Sql!casVars
  <2>4. EnvelopeOf(row).ver <= row.ver
    BY <2>1
  <2> HIDE DEF Goto, EnvelopeOf
  <2> QED BY <2>1, <2>2, <2>3, <2>4, GotAt
<1>2. CASE Sql!Insert(c)
  <2>1. UNCHANGED <<seen, cur>> /\ (kind[c] \in Guarded => pc[c] \notin {"idle", "getVersion"})
    BY <1>2 DEF Sql!Insert, Sql!casVars, SqlStep, PlacedAt
  <2>2. ASSUME Commit(c, Live(row.ver + 1, {c})) PROVE Settles(c)
    <3> HIDE DEF Commit, Live
    <3> QED BY <2>1, <2>2, Givens DEF Settles, Wins
  <2>3. ASSUME NEW l \in {"exists"}, Step(c, l) PROVE Settles(c)
    <3>1. /\ seen' = [seen EXCEPT ![c] = seen[c]] /\ cur' = [cur EXCEPT ![c] = cur[c]]
          /\ PlacedAt(c, l, seen[c], cur[c]) /\ l \in Positions
      BY <1>2, <2>1, <2>3 DEF Sql!Insert, SqlStep, Positions, Outcomes, PlacedAt, Tables, Hashes
    <3>2. Plan(c) => PlanAt(c, l, seen[c], cur[c])
      BY <2>3 DEF PlanAt
    <3>3. Still(c) => StillAt(c, l, seen[c], cur[c]) /\ Reason(c, l)
      BY <1>2, <2>3 DEF Sql!Insert, Still, StillAt, Reason, AllKinds, PlacedAt, RowShape
    <3>4. Real(c) => RealAt(c, l, seen[c], cur[c])
      BY <1>2, <2>3 DEF Sql!Insert, Real, RealAt, AllKinds, PlacedAt, RowShape
    <3> HIDE DEF Step
    <3> QED BY <2>3, <3>1, <3>2, <3>3, <3>4, LandsAt
  <2> QED BY <1>2, <2>2, <2>3 DEF Sql!Insert
<1>3. CASE Sql!PutRead(c)
  <2>1. /\ pc'[c] \in {"putWrite"} /\ Step(c, pc'[c])
        /\ seen' = [seen EXCEPT ![c] = row] /\ row \in Row
        /\ cur' = [cur EXCEPT ![c] = cur[c]] /\ cur[c] \in Row
    BY <1>3 DEF Sql!PutRead, Sql!casVars, SqlStep
  <2>2. Plan(c) => PlanAt(c, pc'[c], row, cur[c])
    BY <1>3, <2>1 DEF Sql!PutRead, Plan, PlanAt
  <2>3. Still(c) => StillAt(c, pc'[c], row, cur[c]) /\ Reason(c, pc'[c])
    BY <1>3, <2>1 DEF Sql!PutRead, Still, StillAt, Reason, AllKinds
  <2>4. Real(c) => RealAt(c, pc'[c], row, cur[c])
    BY <1>3, <2>1 DEF Sql!PutRead, Real, RealAt
  <2>5. pc'[c] \in Positions /\ PlacedAt(c, pc'[c], row, cur[c])
    BY <1>3, <2>1 DEF Sql!PutRead, SqlStep, Positions, Outcomes, PlacedAt, Tables, Hashes
  <2> HIDE DEF Step
  <2> QED BY <2>1, <2>2, <2>3, <2>4, <2>5, LandsAt
<1>4. CASE Sql!PutWrite(c)
  <2>1. UNCHANGED <<seen, cur>> /\ (kind[c] \in Guarded => pc[c] \notin {"idle", "getVersion"})
    BY <1>4 DEF Sql!PutWrite, Sql!casVars, SqlStep, PlacedAt
  <2>2. ASSUME Commit(c, Live(seen[c].ver + 1, {c})) PROVE Settles(c)
    <3> HIDE DEF Commit, Live
    <3> QED BY <2>1, <2>2, Givens DEF Settles, Wins
  <2> QED BY <1>4, <2>2 DEF Sql!PutWrite
<1>5. CASE Sql!PatchRead(c)
  <2>1. /\ pc'[c] \in {"miss", "conflict", "updateCas"} /\ Step(c, pc'[c])
        /\ seen' = [seen EXCEPT ![c] = row] /\ row \in Row
        /\ cur' = [cur EXCEPT ![c] = cur[c]] /\ cur[c] \in Row
    BY <1>5 DEF Sql!PatchRead, Sql!casVars, SqlStep
  <2>2. Plan(c) => PlanAt(c, pc'[c], row, cur[c])
    BY <1>5, <2>1 DEF Sql!PatchRead, Plan, PlanAt
  <2>3. Still(c) => StillAt(c, pc'[c], row, cur[c]) /\ Reason(c, pc'[c])
    BY <1>5, <2>1 DEF Sql!PatchRead, Still, StillAt, Reason, AllKinds
  <2>4. Real(c) => RealAt(c, pc'[c], row, cur[c])
    BY <1>5, <2>1 DEF Sql!PatchRead, Real, RealAt
  <2>5. pc'[c] \in Positions /\ PlacedAt(c, pc'[c], row, cur[c])
    BY <1>5, <2>1 DEF Sql!PatchRead, SqlStep, Positions, Outcomes, PlacedAt, Tables, Hashes
  <2> HIDE DEF Step
  <2> QED BY <2>1, <2>2, <2>3, <2>4, <2>5, LandsAt
<1>6. CASE Sql!UpdateCasRead(c)
  <2>1. /\ pc'[c] \in {"miss", "updateWrite"} /\ Step(c, pc'[c])
        /\ seen' = [seen EXCEPT ![c] = seen[c]] /\ seen[c] \in Row
        /\ cur' = [cur EXCEPT ![c] = row] /\ row \in Row
    BY <1>6 DEF Sql!UpdateCasRead, Sql!casVars, SqlStep
  <2>2. Plan(c) => PlanAt(c, pc'[c], seen[c], row)
    BY <1>6, <2>1 DEF Sql!UpdateCasRead, Plan, PlanAt
  <2>3. Still(c) => StillAt(c, pc'[c], seen[c], row) /\ Reason(c, pc'[c])
    BY <1>6, <2>1 DEF Sql!UpdateCasRead, Still, StillAt, Reason, AllKinds
  <2>4. Real(c) => RealAt(c, pc'[c], seen[c], row)
    BY <1>6, <2>1 DEF Sql!UpdateCasRead, Real, RealAt
  <2>5. pc'[c] \in Positions /\ PlacedAt(c, pc'[c], seen[c], row)
    BY <1>6, <2>1 DEF Sql!UpdateCasRead, SqlStep, Positions, Outcomes, PlacedAt, Tables, Hashes
  <2> HIDE DEF Step
  <2> QED BY <2>1, <2>2, <2>3, <2>4, <2>5, LandsAt
<1>7. CASE Sql!UpdateWrite(c)
  <2>1. UNCHANGED <<seen, cur>> /\ (kind[c] \in Guarded => pc[c] \notin {"idle", "getVersion"})
    BY <1>7 DEF Sql!UpdateWrite, Sql!Unmoved, Sql!UpdateGuard, Sql!casVars, SqlStep, PlacedAt
  <2>2. ASSUME Commit(c, Live(row.ver + 1, Sql!UpdateValue(c))) PROVE Settles(c)
    <3> HIDE DEF Commit, Live
    <3> QED BY <2>1, <2>2, Givens DEF Settles, Wins, Sql!UpdateValue
  <2>3. ASSUME NEW l \in {"conflict"}, Step(c, l) PROVE Settles(c)
    <3>1. /\ seen' = [seen EXCEPT ![c] = seen[c]] /\ cur' = [cur EXCEPT ![c] = cur[c]]
          /\ PlacedAt(c, l, seen[c], cur[c]) /\ l \in Positions
      BY <1>7, <2>1, <2>3 DEF Sql!UpdateWrite, Sql!Unmoved, Sql!UpdateGuard, SqlStep, Positions, Outcomes, PlacedAt, Tables, Hashes
    <3>2. Plan(c) => PlanAt(c, l, seen[c], cur[c])
      BY <2>3 DEF PlanAt
    <3>3. Still(c) => StillAt(c, l, seen[c], cur[c]) /\ Reason(c, l)
      BY <1>7, <2>3 DEF Sql!UpdateWrite, Sql!Unmoved, Sql!UpdateGuard, Still, StillAt, Reason, AllKinds, PlacedAt, RowShape
    <3>4. Real(c) => RealAt(c, l, seen[c], cur[c])
      BY <1>7, <2>3 DEF Sql!UpdateWrite, Sql!Unmoved, Sql!UpdateGuard, Real, RealAt, AllKinds, PlacedAt, RowShape
    <3> HIDE DEF Step
    <3> QED BY <2>3, <3>1, <3>2, <3>3, <3>4, LandsAt
  <2> QED BY <1>7, <2>2, <2>3 DEF Sql!UpdateWrite, Sql!Unmoved, Sql!UpdateGuard
<1>8. CASE Sql!DeleteRead(c)
  <2>1. /\ pc'[c] \in {"miss", "conflict", "deleteCas"} /\ Step(c, pc'[c])
        /\ seen' = [seen EXCEPT ![c] = (IF soft THEN row ELSE seen[c])] /\ (IF soft THEN row ELSE seen[c]) \in Row
        /\ cur' = [cur EXCEPT ![c] = cur[c]] /\ cur[c] \in Row
    BY <1>8 DEF Sql!DeleteRead, Sql!casVars, SqlStep
  <2>2. Plan(c) => PlanAt(c, pc'[c], (IF soft THEN row ELSE seen[c]), cur[c])
    BY <1>8, <2>1 DEF Sql!DeleteRead, Plan, PlanAt
  <2>3. Still(c) => StillAt(c, pc'[c], (IF soft THEN row ELSE seen[c]), cur[c]) /\ Reason(c, pc'[c])
    BY <1>8, <2>1 DEF Sql!DeleteRead, Still, StillAt, Reason, AllKinds
  <2>4. Real(c) => RealAt(c, pc'[c], (IF soft THEN row ELSE seen[c]), cur[c])
    BY <1>8, <2>1 DEF Sql!DeleteRead, Real, RealAt
  <2>5. pc'[c] \in Positions /\ PlacedAt(c, pc'[c], (IF soft THEN row ELSE seen[c]), cur[c])
    BY <1>8, <2>1 DEF Sql!DeleteRead, SqlStep, Positions, Outcomes, PlacedAt, Tables, Hashes
  <2> HIDE DEF Step
  <2> QED BY <2>1, <2>2, <2>3, <2>4, <2>5, LandsAt
<1>9. CASE Sql!DeleteCasRead(c)
  <2>1. /\ pc'[c] \in {"miss", "conflict", "deleteWrite"} /\ Step(c, pc'[c])
        /\ seen' = [seen EXCEPT ![c] = seen[c]] /\ seen[c] \in Row
        /\ cur' = [cur EXCEPT ![c] = row] /\ row \in Row
    BY <1>9 DEF Sql!DeleteCasRead, Sql!casVars, SqlStep
  <2>2. Plan(c) => PlanAt(c, pc'[c], seen[c], row)
    BY <1>9, <2>1 DEF Sql!DeleteCasRead, Plan, PlanAt
  <2>3. Still(c) => StillAt(c, pc'[c], seen[c], row) /\ Reason(c, pc'[c])
    BY <1>9, <2>1 DEF Sql!DeleteCasRead, Still, StillAt, Reason, AllKinds
  <2>4. Real(c) => RealAt(c, pc'[c], seen[c], row)
    BY <1>9, <2>1 DEF Sql!DeleteCasRead, Real, RealAt
  <2>5. pc'[c] \in Positions /\ PlacedAt(c, pc'[c], seen[c], row)
    BY <1>9, <2>1 DEF Sql!DeleteCasRead, SqlStep, Positions, Outcomes, PlacedAt, Tables, Hashes
  <2> HIDE DEF Step
  <2> QED BY <2>1, <2>2, <2>3, <2>4, <2>5, LandsAt
<1>10. CASE Sql!DeleteWrite(c)
  <2>1. UNCHANGED <<seen, cur>> /\ (kind[c] \in Guarded => pc[c] \notin {"idle", "getVersion"})
    BY <1>10 DEF Sql!DeleteWrite, Sql!Unmoved, Sql!casVars, SqlStep, PlacedAt
  <2>2. ASSUME CommitDelete(c, IF soft THEN Dead(row.ver + 1) ELSE Absent) PROVE Settles(c)
    <3> HIDE DEF CommitDelete, Dead, Absent
    <3> QED BY <2>1, <2>2, Givens DEF Settles, Wins
  <2>3. ASSUME NEW l \in {"conflict"}, Step(c, l) PROVE Settles(c)
    <3>1. /\ seen' = [seen EXCEPT ![c] = seen[c]] /\ cur' = [cur EXCEPT ![c] = cur[c]]
          /\ PlacedAt(c, l, seen[c], cur[c]) /\ l \in Positions
      BY <1>10, <2>1, <2>3 DEF Sql!DeleteWrite, Sql!Unmoved, SqlStep, Positions, Outcomes, PlacedAt, Tables, Hashes
    <3>2. Plan(c) => PlanAt(c, l, seen[c], cur[c])
      BY <2>3 DEF PlanAt
    <3>3. Still(c) => StillAt(c, l, seen[c], cur[c]) /\ Reason(c, l)
      BY <1>10, <2>3 DEF Sql!DeleteWrite, Sql!Unmoved, Still, StillAt, Reason, AllKinds, PlacedAt, RowShape
    <3>4. Real(c) => RealAt(c, l, seen[c], cur[c])
      BY <1>10, <2>3 DEF Sql!DeleteWrite, Sql!Unmoved, Real, RealAt, AllKinds, PlacedAt, RowShape
    <3> HIDE DEF Step
    <3> QED BY <2>3, <3>1, <3>2, <3>3, <3>4, LandsAt
  <2> QED BY <1>10, <2>2, <2>3 DEF Sql!DeleteWrite, Sql!Unmoved
<1> QED BY <1>1, <1>2, <1>3, <1>4, <1>5, <1>6, <1>7, <1>8, <1>9, <1>10 DEF SqlStep, Sql!CallStep

\* DynamoDB.
LEMMA DynamoSettles ==
  ASSUME Shape, NEW c \in Calls, DynamoStep(c)
  PROVE  Settles(c)
<1> USE DEF Dynamo!Guarded, Dynamo!Updates, Dynamo!Patches, Dynamo!Deletes, Guarded, Updates, Patches, Deletes
<1> USE DEF Dynamo!Step, Step, Dynamo!Goto, Goto, Dynamo!Commit, Commit, Dynamo!CommitDelete, CommitDelete,
            Dynamo!Live, Live, Dynamo!Dead, Dead, Dynamo!Absent, Absent, Dynamo!EnvelopeOf, EnvelopeOf,
            Dynamo!Ready
<1>0. /\ PlacedAt(c, pc[c], seen[c], cur[c]) /\ RowShape
      /\ seen[c] \in Row /\ cur[c] \in Row /\ row \in Row /\ held[c] \in Envelope
      /\ seen = [seen EXCEPT ![c] = seen[c]] /\ cur = [cur EXCEPT ![c] = cur[c]]
      /\ row.ver \in Nat /\ seen[c].ver \in Nat /\ cur[c].ver \in Nat /\ held[c].ver \in Nat
      /\ pc = [pc EXCEPT ![c] = pc[c]] /\ \A l : [pc EXCEPT ![c] = l][c] = l
      /\ kind[c] \in AllKinds /\ row.st \in {"absent", "live", "dead"}
  BY DEF Shape, Placed, Typed, Row, Envelope
<1> USE <1>0
<1>1. CASE Dynamo!Get(c)
  <2>1. /\ EnvelopeOf(row) \in Envelope /\ EnvelopeOf(row).ver = row.ver /\ seen[c] \in Row
        /\ kind[c] \in Guarded /\ backend # "kv" /\ row.st # "absent"
    BY <1>1, Givens DEF Dynamo!Get, EnvelopeOf, DynamoStep
  <2>2. held' = [held EXCEPT ![c] = EnvelopeOf(row)]
    BY <1>1 DEF Dynamo!Get, EnvelopeOf
  <2>3. /\ Goto(c, "held") /\ UNCHANGED <<soft, row, kind, reply, cur>>
        /\ seen' = [seen EXCEPT ![c] = seen[c]]
    BY <1>1 DEF Dynamo!Get, Dynamo!casVars
  <2>4. EnvelopeOf(row).ver <= row.ver
    BY <2>1
  <2> HIDE DEF Goto, EnvelopeOf
  <2> QED BY <2>1, <2>2, <2>3, <2>4, GotAt
<1>2. CASE Dynamo!InsertRead(c)
  <2>1. /\ pc'[c] \in {"insertWrite"} /\ Step(c, pc'[c])
        /\ seen' = [seen EXCEPT ![c] = seen[c]] /\ seen[c] \in Row
        /\ cur' = [cur EXCEPT ![c] = row] /\ row \in Row
    BY <1>2 DEF Dynamo!InsertRead, Dynamo!casVars, DynamoStep
  <2>2. Plan(c) => PlanAt(c, pc'[c], seen[c], row)
    BY <1>2, <2>1 DEF Dynamo!InsertRead, Plan, PlanAt
  <2>3. Still(c) => StillAt(c, pc'[c], seen[c], row) /\ Reason(c, pc'[c])
    BY <1>2, <2>1 DEF Dynamo!InsertRead, Still, StillAt, Reason, AllKinds
  <2>4. Real(c) => RealAt(c, pc'[c], seen[c], row)
    BY <1>2, <2>1 DEF Dynamo!InsertRead, Real, RealAt
  <2>5. pc'[c] \in Positions /\ PlacedAt(c, pc'[c], seen[c], row)
    BY <1>2, <2>1 DEF Dynamo!InsertRead, DynamoStep, Positions, Outcomes, PlacedAt, Tables, Hashes
  <2> HIDE DEF Step
  <2> QED BY <2>1, <2>2, <2>3, <2>4, <2>5, LandsAt
<1>3. CASE Dynamo!InsertWrite(c)
  <2>1. UNCHANGED <<seen, cur>> /\ (kind[c] \in Guarded => pc[c] \notin {"idle", "getVersion"})
    BY <1>3 DEF Dynamo!InsertWrite, Dynamo!casVars, DynamoStep, PlacedAt
  <2>2. ASSUME Commit(c, Live((IF cur[c].st = "dead" THEN cur[c].ver + 1 ELSE 1), {c})) PROVE Settles(c)
    <3> HIDE DEF Commit, Live
    <3> QED BY <2>1, <2>2, Givens DEF Settles, Wins
  <2>3. ASSUME NEW l \in {"exists"}, Step(c, l) PROVE Settles(c)
    <3>1. /\ seen' = [seen EXCEPT ![c] = seen[c]] /\ cur' = [cur EXCEPT ![c] = cur[c]]
          /\ PlacedAt(c, l, seen[c], cur[c]) /\ l \in Positions
      BY <1>3, <2>1, <2>3 DEF Dynamo!InsertWrite, DynamoStep, Positions, Outcomes, PlacedAt, Tables, Hashes
    <3>2. Plan(c) => PlanAt(c, l, seen[c], cur[c])
      BY <2>3 DEF PlanAt
    <3>3. Still(c) => StillAt(c, l, seen[c], cur[c]) /\ Reason(c, l)
      BY <1>3, <2>3 DEF Dynamo!InsertWrite, Still, StillAt, Reason, AllKinds, PlacedAt, RowShape
    <3>4. Real(c) => RealAt(c, l, seen[c], cur[c])
      BY <1>3, <2>3 DEF Dynamo!InsertWrite, Real, RealAt, AllKinds, PlacedAt, RowShape
    <3> HIDE DEF Step
    <3> QED BY <2>3, <3>1, <3>2, <3>3, <3>4, LandsAt
  <2> QED BY <1>3, <2>2, <2>3 DEF Dynamo!InsertWrite
<1>4. CASE Dynamo!PutRow(c)
  <2>1. UNCHANGED <<seen, cur>> /\ (kind[c] \in Guarded => pc[c] \notin {"idle", "getVersion"})
    BY <1>4 DEF Dynamo!PutRow, Dynamo!casVars, DynamoStep, PlacedAt
  <2>2. ASSUME Commit(c, Live(row.ver + 1, {c})) PROVE Settles(c)
    <3> HIDE DEF Commit, Live
    <3> QED BY <2>1, <2>2, Givens DEF Settles, Wins
  <2> QED BY <1>4, <2>2 DEF Dynamo!PutRow
<1>5. CASE Dynamo!PatchRead(c)
  <2>1. /\ pc'[c] \in {"miss", "conflict", "updateCas"} /\ Step(c, pc'[c])
        /\ seen' = [seen EXCEPT ![c] = row] /\ row \in Row
        /\ cur' = [cur EXCEPT ![c] = cur[c]] /\ cur[c] \in Row
    BY <1>5 DEF Dynamo!PatchRead, Dynamo!casVars, DynamoStep
  <2>2. Plan(c) => PlanAt(c, pc'[c], row, cur[c])
    BY <1>5, <2>1 DEF Dynamo!PatchRead, Plan, PlanAt
  <2>3. Still(c) => StillAt(c, pc'[c], row, cur[c]) /\ Reason(c, pc'[c])
    BY <1>5, <2>1 DEF Dynamo!PatchRead, Still, StillAt, Reason, AllKinds
  <2>4. Real(c) => RealAt(c, pc'[c], row, cur[c])
    BY <1>5, <2>1 DEF Dynamo!PatchRead, Real, RealAt
  <2>5. pc'[c] \in Positions /\ PlacedAt(c, pc'[c], row, cur[c])
    BY <1>5, <2>1 DEF Dynamo!PatchRead, DynamoStep, Positions, Outcomes, PlacedAt, Tables, Hashes
  <2> HIDE DEF Step
  <2> QED BY <2>1, <2>2, <2>3, <2>4, <2>5, LandsAt
<1>6. CASE Dynamo!UpdateCasRead(c)
  <2>1. /\ pc'[c] \in {"miss", "updateWrite"} /\ Step(c, pc'[c])
        /\ seen' = [seen EXCEPT ![c] = seen[c]] /\ seen[c] \in Row
        /\ cur' = [cur EXCEPT ![c] = row] /\ row \in Row
    BY <1>6 DEF Dynamo!UpdateCasRead, Dynamo!casVars, DynamoStep
  <2>2. Plan(c) => PlanAt(c, pc'[c], seen[c], row)
    BY <1>6, <2>1 DEF Dynamo!UpdateCasRead, Plan, PlanAt
  <2>3. Still(c) => StillAt(c, pc'[c], seen[c], row) /\ Reason(c, pc'[c])
    BY <1>6, <2>1 DEF Dynamo!UpdateCasRead, Still, StillAt, Reason, AllKinds
  <2>4. Real(c) => RealAt(c, pc'[c], seen[c], row)
    BY <1>6, <2>1 DEF Dynamo!UpdateCasRead, Real, RealAt
  <2>5. pc'[c] \in Positions /\ PlacedAt(c, pc'[c], seen[c], row)
    BY <1>6, <2>1 DEF Dynamo!UpdateCasRead, DynamoStep, Positions, Outcomes, PlacedAt, Tables, Hashes
  <2> HIDE DEF Step
  <2> QED BY <2>1, <2>2, <2>3, <2>4, <2>5, LandsAt
<1>7. CASE Dynamo!UpdateWrite(c)
  <2>1. UNCHANGED <<seen, cur>> /\ (kind[c] \in Guarded => pc[c] \notin {"idle", "getVersion"})
    BY <1>7 DEF Dynamo!UpdateWrite, Dynamo!Unmoved, Dynamo!UpdateGuard, Dynamo!casVars, DynamoStep, PlacedAt
  <2>2. ASSUME Commit(c, Live(row.ver + 1, Dynamo!UpdateValue(c))) PROVE Settles(c)
    <3> HIDE DEF Commit, Live
    <3> QED BY <2>1, <2>2, Givens DEF Settles, Wins, Dynamo!UpdateValue
  <2>3. ASSUME NEW l \in {"updateReread"}, Step(c, l) PROVE Settles(c)
    <3>1. /\ seen' = [seen EXCEPT ![c] = seen[c]] /\ cur' = [cur EXCEPT ![c] = cur[c]]
          /\ PlacedAt(c, l, seen[c], cur[c]) /\ l \in Positions
      BY <1>7, <2>1, <2>3 DEF Dynamo!UpdateWrite, Dynamo!Unmoved, Dynamo!UpdateGuard, DynamoStep, Positions, Outcomes, PlacedAt, Tables, Hashes
    <3>2. Plan(c) => PlanAt(c, l, seen[c], cur[c])
      BY <2>3 DEF PlanAt
    <3>3. Still(c) => StillAt(c, l, seen[c], cur[c]) /\ Reason(c, l)
      BY <1>7, <2>3 DEF Dynamo!UpdateWrite, Dynamo!Unmoved, Dynamo!UpdateGuard, Still, StillAt, Reason, AllKinds, PlacedAt, RowShape
    <3>4. Real(c) => RealAt(c, l, seen[c], cur[c])
      BY <1>7, <2>3 DEF Dynamo!UpdateWrite, Dynamo!Unmoved, Dynamo!UpdateGuard, Real, RealAt, AllKinds, PlacedAt, RowShape
    <3> HIDE DEF Step
    <3> QED BY <2>3, <3>1, <3>2, <3>3, <3>4, LandsAt
  <2> QED BY <1>7, <2>2, <2>3 DEF Dynamo!UpdateWrite, Dynamo!Unmoved, Dynamo!UpdateGuard
<1>8. CASE Dynamo!DeleteRead(c)
  <2>1. /\ pc'[c] \in {"miss", "conflict", "deleteCas"} /\ Step(c, pc'[c])
        /\ seen' = [seen EXCEPT ![c] = (IF soft THEN row ELSE seen[c])] /\ (IF soft THEN row ELSE seen[c]) \in Row
        /\ cur' = [cur EXCEPT ![c] = cur[c]] /\ cur[c] \in Row
    BY <1>8 DEF Dynamo!DeleteRead, Dynamo!casVars, DynamoStep
  <2>2. Plan(c) => PlanAt(c, pc'[c], (IF soft THEN row ELSE seen[c]), cur[c])
    BY <1>8, <2>1 DEF Dynamo!DeleteRead, Plan, PlanAt
  <2>3. Still(c) => StillAt(c, pc'[c], (IF soft THEN row ELSE seen[c]), cur[c]) /\ Reason(c, pc'[c])
    BY <1>8, <2>1 DEF Dynamo!DeleteRead, Still, StillAt, Reason, AllKinds
  <2>4. Real(c) => RealAt(c, pc'[c], (IF soft THEN row ELSE seen[c]), cur[c])
    BY <1>8, <2>1 DEF Dynamo!DeleteRead, Real, RealAt
  <2>5. pc'[c] \in Positions /\ PlacedAt(c, pc'[c], (IF soft THEN row ELSE seen[c]), cur[c])
    BY <1>8, <2>1 DEF Dynamo!DeleteRead, DynamoStep, Positions, Outcomes, PlacedAt, Tables, Hashes
  <2> HIDE DEF Step
  <2> QED BY <2>1, <2>2, <2>3, <2>4, <2>5, LandsAt
<1>9. CASE Dynamo!DeleteCasRead(c)
  <2>1. /\ pc'[c] \in {"miss", "conflict", "deleteWrite"} /\ Step(c, pc'[c])
        /\ seen' = [seen EXCEPT ![c] = seen[c]] /\ seen[c] \in Row
        /\ cur' = [cur EXCEPT ![c] = row] /\ row \in Row
    BY <1>9 DEF Dynamo!DeleteCasRead, Dynamo!casVars, DynamoStep
  <2>2. Plan(c) => PlanAt(c, pc'[c], seen[c], row)
    BY <1>9, <2>1 DEF Dynamo!DeleteCasRead, Plan, PlanAt
  <2>3. Still(c) => StillAt(c, pc'[c], seen[c], row) /\ Reason(c, pc'[c])
    BY <1>9, <2>1 DEF Dynamo!DeleteCasRead, Still, StillAt, Reason, AllKinds
  <2>4. Real(c) => RealAt(c, pc'[c], seen[c], row)
    BY <1>9, <2>1 DEF Dynamo!DeleteCasRead, Real, RealAt
  <2>5. pc'[c] \in Positions /\ PlacedAt(c, pc'[c], seen[c], row)
    BY <1>9, <2>1 DEF Dynamo!DeleteCasRead, DynamoStep, Positions, Outcomes, PlacedAt, Tables, Hashes
  <2> HIDE DEF Step
  <2> QED BY <2>1, <2>2, <2>3, <2>4, <2>5, LandsAt
<1>10. CASE Dynamo!DeleteWrite(c)
  <2>1. UNCHANGED <<seen, cur>> /\ (kind[c] \in Guarded => pc[c] \notin {"idle", "getVersion"})
    BY <1>10 DEF Dynamo!DeleteWrite, Dynamo!Unmoved, Dynamo!casVars, DynamoStep, PlacedAt
  <2>2. ASSUME CommitDelete(c, IF soft THEN Dead(seen[c].ver + 1) ELSE Absent) PROVE Settles(c)
    <3> HIDE DEF CommitDelete, Dead, Absent
    <3> QED BY <2>1, <2>2, Givens DEF Settles, Wins
  <2>3. ASSUME NEW l \in {"conflict", "deleteReread"}, Step(c, l) PROVE Settles(c)
    <3>1. /\ seen' = [seen EXCEPT ![c] = seen[c]] /\ cur' = [cur EXCEPT ![c] = cur[c]]
          /\ PlacedAt(c, l, seen[c], cur[c]) /\ l \in Positions
      BY <1>10, <2>1, <2>3 DEF Dynamo!DeleteWrite, Dynamo!Unmoved, DynamoStep, Positions, Outcomes, PlacedAt, Tables, Hashes
    <3>2. Plan(c) => PlanAt(c, l, seen[c], cur[c])
      BY <2>3 DEF PlanAt
    <3>3. Still(c) => StillAt(c, l, seen[c], cur[c]) /\ Reason(c, l)
      BY <1>10, <2>3 DEF Dynamo!DeleteWrite, Dynamo!Unmoved, Still, StillAt, Reason, AllKinds, PlacedAt, RowShape
    <3>4. Real(c) => RealAt(c, l, seen[c], cur[c])
      BY <1>10, <2>3 DEF Dynamo!DeleteWrite, Dynamo!Unmoved, Real, RealAt, AllKinds, PlacedAt, RowShape
    <3> HIDE DEF Step
    <3> QED BY <2>3, <3>1, <3>2, <3>3, <3>4, LandsAt
  <2> QED BY <1>10, <2>2, <2>3 DEF Dynamo!DeleteWrite, Dynamo!Unmoved
<1>11. CASE Dynamo!Reread(c)
  <2>1. /\ pc'[c] \in {"conflict", "miss"} /\ Step(c, pc'[c])
        /\ seen' = [seen EXCEPT ![c] = seen[c]] /\ seen[c] \in Row
        /\ cur' = [cur EXCEPT ![c] = cur[c]] /\ cur[c] \in Row
    BY <1>11 DEF Dynamo!Reread, Dynamo!casVars, DynamoStep
  <2>2. Plan(c) => PlanAt(c, pc'[c], seen[c], cur[c])
    BY <1>11, <2>1 DEF Dynamo!Reread, Plan, PlanAt
  <2>3. Still(c) => StillAt(c, pc'[c], seen[c], cur[c]) /\ Reason(c, pc'[c])
    BY <1>11, <2>1 DEF Dynamo!Reread, Still, StillAt, Reason, AllKinds
  <2>4. Real(c) => RealAt(c, pc'[c], seen[c], cur[c])
    BY <1>11, <2>1 DEF Dynamo!Reread, Real, RealAt
  <2>5. pc'[c] \in Positions /\ PlacedAt(c, pc'[c], seen[c], cur[c])
    BY <1>11, <2>1 DEF Dynamo!Reread, DynamoStep, Positions, Outcomes, PlacedAt, Tables, Hashes
  <2> HIDE DEF Step
  <2> QED BY <2>1, <2>2, <2>3, <2>4, <2>5, LandsAt
<1> QED BY <1>1, <1>2, <1>3, <1>4, <1>5, <1>6, <1>7, <1>8, <1>9, <1>10, <1>11 DEF DynamoStep, Dynamo!CallStep

\* Redis.
LEMMA RedisSettles ==
  ASSUME Shape, NEW c \in Calls, RedisStep(c)
  PROVE  Settles(c)
<1> USE DEF Redis!Guarded, Redis!Updates, Redis!Patches, Redis!Deletes, Guarded, Updates, Patches, Deletes
<1> USE DEF Redis!Step, Step, Redis!Goto, Goto, Redis!Commit, Commit, Redis!CommitDelete, CommitDelete,
            Redis!Live, Live, Redis!Dead, Dead, Redis!Absent, Absent, Redis!EnvelopeOf, EnvelopeOf,
            Redis!Ready
<1>0. /\ PlacedAt(c, pc[c], seen[c], cur[c]) /\ RowShape
      /\ seen[c] \in Row /\ cur[c] \in Row /\ row \in Row /\ held[c] \in Envelope
      /\ seen = [seen EXCEPT ![c] = seen[c]] /\ cur = [cur EXCEPT ![c] = cur[c]]
      /\ row.ver \in Nat /\ seen[c].ver \in Nat /\ cur[c].ver \in Nat /\ held[c].ver \in Nat
      /\ pc = [pc EXCEPT ![c] = pc[c]] /\ \A l : [pc EXCEPT ![c] = l][c] = l
      /\ kind[c] \in AllKinds /\ row.st \in {"absent", "live", "dead"}
  BY DEF Shape, Placed, Typed, Row, Envelope
<1> USE <1>0
<1>1. CASE Redis!GetValue(c)
  <2>0. [row EXCEPT !.ver = 0].st = row.st /\ [row EXCEPT !.ver = 0].val = row.val
    BY DEF Row
  <2>1. /\ pc'[c] \in {"getVersion"} /\ Step(c, pc'[c])
        /\ seen' = [seen EXCEPT ![c] = [row EXCEPT !.ver = 0]] /\ [row EXCEPT !.ver = 0] \in Row
        /\ cur' = [cur EXCEPT ![c] = cur[c]] /\ cur[c] \in Row
    BY <1>1 DEF Redis!GetValue, Redis!ReadValue, RedisStep, Row
  <2>2. Plan(c) => PlanAt(c, pc'[c], [row EXCEPT !.ver = 0], cur[c])
    BY <2>0, <1>1, <2>1 DEF Redis!GetValue, Redis!ReadValue, Plan, PlanAt
  <2>3. Still(c) => StillAt(c, pc'[c], [row EXCEPT !.ver = 0], cur[c]) /\ Reason(c, pc'[c])
    BY <2>0, <1>1, <2>1 DEF Redis!GetValue, Redis!ReadValue, Still, StillAt, Reason, AllKinds
  <2>4. Real(c) => RealAt(c, pc'[c], [row EXCEPT !.ver = 0], cur[c])
    BY <2>0, <1>1, <2>1 DEF Redis!GetValue, Redis!ReadValue, Real, RealAt
  <2>5. pc'[c] \in Positions /\ PlacedAt(c, pc'[c], [row EXCEPT !.ver = 0], cur[c])
    BY <2>0, <1>1, <2>1 DEF Redis!GetValue, Redis!ReadValue, RedisStep, Positions, Outcomes, PlacedAt, Tables, Hashes
  <2> HIDE DEF Step
  <2> QED BY <2>1, <2>2, <2>3, <2>4, <2>5, LandsAt
<1>2. CASE Redis!GetVersion(c)
  <2> DEFINE n == IF row.st = "absent" THEN 1 ELSE row.ver
             x == [seen[c] EXCEPT !.ver = n]
  <2>0. /\ x \in Row /\ x.ver = n /\ kind[c] \in Guarded /\ backend # "kv" /\ backend # "dynamo"
        /\ EnvelopeOf(x) \in Envelope /\ EnvelopeOf(x).ver = n
    BY <1>2 DEF Redis!GetVersion, PlacedAt, Hashes, Row, Envelope
  <2>1. CASE seen[c].st = "live"
    <3>1. Real(c) /\ soft => row.st # "absent"
      BY <1>2 DEF Redis!GetVersion, Real, RealAt
    <3>5. Real(c) /\ soft => EnvelopeOf(x).ver <= row.ver /\ row.st # "absent"
      BY <2>0, <3>1
    <3>2. seen' = [seen EXCEPT ![c] = x] /\ seen'[c] = x
      BY <1>2, <2>0 DEF Redis!GetVersion, Redis!ReadVersion, Redis!VersionField, Shape, Typed
    <3>3. held' = [held EXCEPT ![c] = EnvelopeOf(x)]
      BY <1>2, <2>1, <3>2 DEF Redis!GetVersion
    <3>4. Goto(c, "held") /\ UNCHANGED <<soft, row, kind, reply, cur>>
      BY <1>2, <2>1 DEF Redis!GetVersion, RedisStep
    <3> HIDE DEF x, Goto, EnvelopeOf
    <3> QED BY <2>0, <3>2, <3>3, <3>4, <3>5, GotAt
  <2>2. CASE seen[c].st # "live"
    <3>1. /\ pc'[c] = "idle" /\ Step(c, pc'[c]) /\ "idle" \in Positions
          /\ seen' = [seen EXCEPT ![c] = x] /\ x \in Row
          /\ cur' = [cur EXCEPT ![c] = cur[c]]
      BY <1>2, <2>2 DEF Redis!GetVersion, Redis!ReadVersion, Redis!VersionField, Positions, Row, RedisStep
    <3>2. PlanAt(c, "idle", x, cur[c])
      BY DEF PlanAt
    <3>3. StillAt(c, "idle", x, cur[c]) /\ Reason(c, "idle")
      BY DEF StillAt, Reason
    <3>4. RealAt(c, "idle", x, cur[c])
      BY DEF RealAt
    <3>5. PlacedAt(c, "idle", x, cur[c])
      BY <2>0 DEF PlacedAt
    <3> HIDE DEF Step, x
    <3> QED BY <3>1, <3>2, <3>3, <3>4, <3>5, LandsAt
  <2> QED BY <2>1, <2>2
<1>3. CASE Redis!LoadValue(c)
  <2>0. [row EXCEPT !.ver = 0].st = row.st /\ [row EXCEPT !.ver = 0].val = row.val
    BY DEF Row
  <2>1. /\ pc'[c] \in {"miss", "loadVersion"} /\ Step(c, pc'[c])
        /\ seen' = [seen EXCEPT ![c] = [row EXCEPT !.ver = 0]] /\ [row EXCEPT !.ver = 0] \in Row
        /\ cur' = [cur EXCEPT ![c] = cur[c]] /\ cur[c] \in Row
    BY <1>3 DEF Redis!LoadValue, Redis!ReadValue, RedisStep, Row
  <2>2. Plan(c) => PlanAt(c, pc'[c], [row EXCEPT !.ver = 0], cur[c])
    BY <2>0, <1>3, <2>1 DEF Redis!LoadValue, Redis!ReadValue, Plan, PlanAt
  <2>3. Still(c) => StillAt(c, pc'[c], [row EXCEPT !.ver = 0], cur[c]) /\ Reason(c, pc'[c])
    BY <2>0, <1>3, <2>1 DEF Redis!LoadValue, Redis!ReadValue, Still, StillAt, Reason, AllKinds
  <2>4. Real(c) => RealAt(c, pc'[c], [row EXCEPT !.ver = 0], cur[c])
    BY <2>0, <1>3, <2>1 DEF Redis!LoadValue, Redis!ReadValue, Real, RealAt
  <2>5. pc'[c] \in Positions /\ PlacedAt(c, pc'[c], [row EXCEPT !.ver = 0], cur[c])
    BY <2>0, <1>3, <2>1 DEF Redis!LoadValue, Redis!ReadValue, RedisStep, Positions, Outcomes, PlacedAt, Tables, Hashes
  <2> HIDE DEF Step
  <2> QED BY <2>1, <2>2, <2>3, <2>4, <2>5, LandsAt
<1>4. CASE Redis!LoadVersion(c)
  <2>0. /\ [seen[c] EXCEPT !.ver = IF row.st = "absent" THEN 1 ELSE row.ver].st = seen[c].st /\ [seen[c] EXCEPT !.ver = IF row.st = "absent" THEN 1 ELSE row.ver].val = seen[c].val
        /\ [seen[c] EXCEPT !.ver = IF row.st = "absent" THEN 1 ELSE row.ver].ver = (IF row.st = "absent" THEN 1 ELSE row.ver)
    BY DEF Row
  <2>1. /\ pc'[c] \in {"miss", "conflict", "eval"} /\ Step(c, pc'[c])
        /\ seen' = [seen EXCEPT ![c] = [seen[c] EXCEPT !.ver = IF row.st = "absent" THEN 1 ELSE row.ver]] /\ [seen[c] EXCEPT !.ver = IF row.st = "absent" THEN 1 ELSE row.ver] \in Row
        /\ cur' = [cur EXCEPT ![c] = cur[c]] /\ cur[c] \in Row
    BY <1>4 DEF Redis!LoadVersion, Redis!ReadVersion, Redis!VersionField, RedisStep, Row
  <2>2. Plan(c) => PlanAt(c, pc'[c], [seen[c] EXCEPT !.ver = IF row.st = "absent" THEN 1 ELSE row.ver], cur[c])
    BY <2>0, <1>4, <2>1 DEF Redis!LoadVersion, Redis!ReadVersion, Redis!VersionField, Plan, PlanAt
  <2>3. Still(c) => StillAt(c, pc'[c], [seen[c] EXCEPT !.ver = IF row.st = "absent" THEN 1 ELSE row.ver], cur[c]) /\ Reason(c, pc'[c])
    BY <2>0, <1>4, <2>1 DEF Redis!LoadVersion, Redis!ReadVersion, Redis!VersionField, Still, StillAt, Reason, AllKinds
  <2>4. Real(c) => RealAt(c, pc'[c], [seen[c] EXCEPT !.ver = IF row.st = "absent" THEN 1 ELSE row.ver], cur[c])
    BY <2>0, <1>4, <2>1 DEF Redis!LoadVersion, Redis!ReadVersion, Redis!VersionField, Real, RealAt
  <2>5. pc'[c] \in Positions /\ PlacedAt(c, pc'[c], [seen[c] EXCEPT !.ver = IF row.st = "absent" THEN 1 ELSE row.ver], cur[c])
    BY <2>0, <1>4, <2>1 DEF Redis!LoadVersion, Redis!ReadVersion, Redis!VersionField, RedisStep, Positions, Outcomes, PlacedAt, Tables, Hashes
  <2> HIDE DEF Step
  <2> QED BY <2>1, <2>2, <2>3, <2>4, <2>5, LandsAt
<1>5. CASE Redis!CreateEval(c)
  <2>1. UNCHANGED <<seen, cur>> /\ (kind[c] \in Guarded => pc[c] \notin {"idle", "getVersion"})
    BY <1>5 DEF Redis!CreateEval, RedisStep, PlacedAt
  <2>2. ASSUME Commit(c, Live(row.ver + 1, {c})) PROVE Settles(c)
    <3> HIDE DEF Commit, Live
    <3> QED BY <2>1, <2>2, Givens DEF Settles, Wins
  <2>3. ASSUME NEW l \in {"exists"}, Step(c, l) PROVE Settles(c)
    <3>1. /\ seen' = [seen EXCEPT ![c] = seen[c]] /\ cur' = [cur EXCEPT ![c] = cur[c]]
          /\ PlacedAt(c, l, seen[c], cur[c]) /\ l \in Positions
      BY <1>5, <2>1, <2>3 DEF Redis!CreateEval, RedisStep, Positions, Outcomes, PlacedAt, Tables, Hashes
    <3>2. Plan(c) => PlanAt(c, l, seen[c], cur[c])
      BY <2>3 DEF PlanAt
    <3>3. Still(c) => StillAt(c, l, seen[c], cur[c]) /\ Reason(c, l)
      BY <1>5, <2>3 DEF Redis!CreateEval, Still, StillAt, Reason, AllKinds, PlacedAt, RowShape
    <3>4. Real(c) => RealAt(c, l, seen[c], cur[c])
      BY <1>5, <2>3 DEF Redis!CreateEval, Real, RealAt, AllKinds, PlacedAt, RowShape
    <3> HIDE DEF Step
    <3> QED BY <2>3, <3>1, <3>2, <3>3, <3>4, LandsAt
  <2> QED BY <1>5, <2>2, <2>3 DEF Redis!CreateEval
<1>6. CASE Redis!PutEval(c)
  <2>1. UNCHANGED <<seen, cur>> /\ (kind[c] \in Guarded => pc[c] \notin {"idle", "getVersion"})
    BY <1>6 DEF Redis!PutEval, RedisStep, PlacedAt
  <2>2. ASSUME Commit(c, Live(row.ver + 1, {c})) PROVE Settles(c)
    <3> HIDE DEF Commit, Live
    <3> QED BY <2>1, <2>2, Givens DEF Settles, Wins
  <2> QED BY <1>6, <2>2 DEF Redis!PutEval
<1>7. CASE Redis!UpdateEval(c)
  <2>1. UNCHANGED <<seen, cur>> /\ (kind[c] \in Guarded => pc[c] \notin {"idle", "getVersion"})
    BY <1>7 DEF Redis!UpdateEval, Redis!Guard, Redis!Expected, RedisStep, PlacedAt
  <2>2. ASSUME Commit(c, Live(row.ver + 1, {c} \cup held[c].val)) PROVE Settles(c)
    <3> HIDE DEF Commit, Live
    <3> QED BY <2>1, <2>2, Givens DEF Settles, Wins
  <2>3. ASSUME NEW l \in {"miss", "conflict"}, Step(c, l) PROVE Settles(c)
    <3>1. /\ seen' = [seen EXCEPT ![c] = seen[c]] /\ cur' = [cur EXCEPT ![c] = cur[c]]
          /\ PlacedAt(c, l, seen[c], cur[c]) /\ l \in Positions
      BY <1>7, <2>1, <2>3 DEF Redis!UpdateEval, Redis!Guard, Redis!Expected, RedisStep, Positions, Outcomes, PlacedAt, Tables, Hashes
    <3>2. Plan(c) => PlanAt(c, l, seen[c], cur[c])
      BY <2>3 DEF PlanAt
    <3>3. Still(c) => StillAt(c, l, seen[c], cur[c]) /\ Reason(c, l)
      BY <1>7, <2>3 DEF Redis!UpdateEval, Redis!Guard, Redis!Expected, Still, StillAt, Reason, AllKinds, PlacedAt, RowShape
    <3>4. Real(c) => RealAt(c, l, seen[c], cur[c])
      BY <1>7, <2>3 DEF Redis!UpdateEval, Redis!Guard, Redis!Expected, Real, RealAt, AllKinds, PlacedAt, RowShape
    <3> HIDE DEF Step
    <3> QED BY <2>3, <3>1, <3>2, <3>3, <3>4, LandsAt
  <2> QED BY <1>7, <2>2, <2>3 DEF Redis!UpdateEval, Redis!Guard, Redis!Expected
<1>8. CASE Redis!PatchEval(c)
  <2>1. UNCHANGED <<seen, cur>> /\ (kind[c] \in Guarded => pc[c] \notin {"idle", "getVersion"})
    BY <1>8 DEF Redis!PatchEval, Redis!Guard, RedisStep, PlacedAt
  <2>2. ASSUME Commit(c, Live(row.ver + 1, {c} \cup seen[c].val)) PROVE Settles(c)
    <3> HIDE DEF Commit, Live
    <3> QED BY <2>1, <2>2, Givens DEF Settles, Wins
  <2>3. ASSUME NEW l \in {"miss", "conflict"}, Step(c, l) PROVE Settles(c)
    <3>1. /\ seen' = [seen EXCEPT ![c] = seen[c]] /\ cur' = [cur EXCEPT ![c] = cur[c]]
          /\ PlacedAt(c, l, seen[c], cur[c]) /\ l \in Positions
      BY <1>8, <2>1, <2>3 DEF Redis!PatchEval, Redis!Guard, RedisStep, Positions, Outcomes, PlacedAt, Tables, Hashes
    <3>2. Plan(c) => PlanAt(c, l, seen[c], cur[c])
      BY <2>3 DEF PlanAt
    <3>3. Still(c) => StillAt(c, l, seen[c], cur[c]) /\ Reason(c, l)
      BY <1>8, <2>3 DEF Redis!PatchEval, Redis!Guard, Still, StillAt, Reason, AllKinds, PlacedAt, RowShape
    <3>4. Real(c) => RealAt(c, l, seen[c], cur[c])
      BY <1>8, <2>3 DEF Redis!PatchEval, Redis!Guard, Real, RealAt, AllKinds, PlacedAt, RowShape
    <3> HIDE DEF Step
    <3> QED BY <2>3, <3>1, <3>2, <3>3, <3>4, LandsAt
  <2> QED BY <1>8, <2>2, <2>3 DEF Redis!PatchEval, Redis!Guard
<1>9. CASE Redis!DeleteEval(c)
  <2>1. UNCHANGED <<seen, cur>> /\ (kind[c] \in Guarded => pc[c] \notin {"idle", "getVersion"})
    BY <1>9 DEF Redis!DeleteEval, Redis!Guard, Redis!Expected, RedisStep, PlacedAt
  <2>2. ASSUME CommitDelete(c, IF soft THEN Dead(row.ver + 1) ELSE Absent) PROVE Settles(c)
    <3> HIDE DEF CommitDelete, Dead, Absent
    <3> QED BY <2>1, <2>2, Givens DEF Settles, Wins
  <2>3. ASSUME NEW l \in {"miss", "conflict"}, Step(c, l) PROVE Settles(c)
    <3>1. /\ seen' = [seen EXCEPT ![c] = seen[c]] /\ cur' = [cur EXCEPT ![c] = cur[c]]
          /\ PlacedAt(c, l, seen[c], cur[c]) /\ l \in Positions
      BY <1>9, <2>1, <2>3 DEF Redis!DeleteEval, Redis!Guard, Redis!Expected, RedisStep, Positions, Outcomes, PlacedAt, Tables, Hashes
    <3>2. Plan(c) => PlanAt(c, l, seen[c], cur[c])
      BY <2>3 DEF PlanAt
    <3>3. Still(c) => StillAt(c, l, seen[c], cur[c]) /\ Reason(c, l)
      BY <1>9, <2>3 DEF Redis!DeleteEval, Redis!Guard, Redis!Expected, Still, StillAt, Reason, AllKinds, PlacedAt, RowShape
    <3>4. Real(c) => RealAt(c, l, seen[c], cur[c])
      BY <1>9, <2>3 DEF Redis!DeleteEval, Redis!Guard, Redis!Expected, Real, RealAt, AllKinds, PlacedAt, RowShape
    <3> HIDE DEF Step
    <3> QED BY <2>3, <3>1, <3>2, <3>3, <3>4, LandsAt
  <2> QED BY <1>9, <2>2, <2>3 DEF Redis!DeleteEval, Redis!Guard, Redis!Expected
<1> QED BY <1>1, <1>2, <1>3, <1>4, <1>5, <1>6, <1>7, <1>8, <1>9 DEF RedisStep, Redis!CallStep

\* Workers KV.
LEMMA KvSettles ==
  ASSUME Shape, NEW c \in Calls, KvStep(c)
  PROVE  Settles(c)
<1> USE DEF Kv!Guarded, Kv!Updates, Kv!Patches, Kv!Deletes, Guarded, Updates, Patches, Deletes
<1> USE DEF Kv!Step, Step, Kv!Goto, Goto, Kv!Commit, Commit, Kv!CommitDelete, CommitDelete,
            Kv!Live, Live, Kv!Dead, Dead, Kv!Absent, Absent, Kv!EnvelopeOf, EnvelopeOf,
            Kv!Ready
<1>0. /\ PlacedAt(c, pc[c], seen[c], cur[c]) /\ RowShape
      /\ seen[c] \in Row /\ cur[c] \in Row /\ row \in Row /\ held[c] \in Envelope
      /\ seen = [seen EXCEPT ![c] = seen[c]] /\ cur = [cur EXCEPT ![c] = cur[c]]
      /\ row.ver \in Nat /\ seen[c].ver \in Nat /\ cur[c].ver \in Nat /\ held[c].ver \in Nat
      /\ pc = [pc EXCEPT ![c] = pc[c]] /\ \A l : [pc EXCEPT ![c] = l][c] = l
      /\ kind[c] \in AllKinds /\ row.st \in {"absent", "live", "dead"}
  BY DEF Shape, Placed, Typed, Row, Envelope
<1> USE <1>0
<1>1. CASE Kv!Load(c)
  <2>1. /\ pc'[c] \in {"exists", "miss", "kvWrite"} /\ Step(c, pc'[c])
        /\ seen' = [seen EXCEPT ![c] = row] /\ row \in Row
        /\ cur' = [cur EXCEPT ![c] = cur[c]] /\ cur[c] \in Row
    BY <1>1 DEF Kv!Load, Kv!AfterRead, Kv!casVars, KvStep
  <2>2. Plan(c) => PlanAt(c, pc'[c], row, cur[c])
    BY <1>1, <2>1 DEF Kv!Load, Kv!AfterRead, Plan, PlanAt
  <2>3. Still(c) => StillAt(c, pc'[c], row, cur[c]) /\ Reason(c, pc'[c])
    BY <1>1, <2>1 DEF Kv!Load, Kv!AfterRead, Still, StillAt, Reason, AllKinds
  <2>4. Real(c) => RealAt(c, pc'[c], row, cur[c])
    BY <1>1, <2>1 DEF Kv!Load, Kv!AfterRead, Real, RealAt
  <2>5. pc'[c] \in Positions /\ PlacedAt(c, pc'[c], row, cur[c])
    BY <1>1, <2>1 DEF Kv!Load, Kv!AfterRead, KvStep, Positions, Outcomes, PlacedAt, Tables, Hashes
  <2> HIDE DEF Step
  <2> QED BY <2>1, <2>2, <2>3, <2>4, <2>5, LandsAt
<1>2. CASE Kv!KvPut(c)
  <2>1. UNCHANGED <<seen, cur>> /\ (kind[c] \in Guarded => pc[c] \notin {"idle", "getVersion"})
    BY <1>2 DEF Kv!KvPut, Kv!casVars, KvStep, PlacedAt
  <2>2. ASSUME Commit(c, Live(seen[c].ver + 1, Kv!UpdateValue(c))) PROVE Settles(c)
    <3> HIDE DEF Commit, Live
    <3> QED BY <2>1, <2>2, Givens DEF Settles, Wins, Kv!UpdateValue
  <2> QED BY <1>2, <2>2 DEF Kv!KvPut
<1>3. CASE Kv!KvDelete(c)
  <2>1. UNCHANGED <<seen, cur>> /\ (kind[c] \in Guarded => pc[c] \notin {"idle", "getVersion"})
    BY <1>3 DEF Kv!KvDelete, Kv!casVars, KvStep, PlacedAt
  <2>2. ASSUME CommitDelete(c, IF soft THEN Dead(seen[c].ver + 1) ELSE Absent) PROVE Settles(c)
    <3> HIDE DEF CommitDelete, Dead, Absent
    <3> QED BY <2>1, <2>2, Givens DEF Settles, Wins
  <2> QED BY <1>3, <2>2 DEF Kv!KvDelete
<1> QED BY <1>1, <1>2, <1>3 DEF KvStep, Kv!CallStep

\* The in-process ports of the tables.
LEMMA FakeTableSettles ==
  ASSUME Shape, NEW c \in Calls,
         \/ backend = "fakeSql" /\ Fake!FakeSqlStep(c)
         \/ backend = "fakeDynamo" /\ Fake!FakeDynamoStep(c)
  PROVE  Settles(c)
<1> USE DEF Fake!Guarded, Fake!Updates, Fake!Patches, Fake!Deletes, Guarded, Updates, Patches, Deletes
<1> USE DEF Fake!Step, Step, Fake!Goto, Goto, Fake!Commit, Commit, Fake!CommitDelete, CommitDelete,
            Fake!Live, Live, Fake!Dead, Dead, Fake!Absent, Absent, Fake!EnvelopeOf, EnvelopeOf,
            Fake!Ready
<1>0. /\ PlacedAt(c, pc[c], seen[c], cur[c]) /\ RowShape
      /\ seen[c] \in Row /\ cur[c] \in Row /\ row \in Row /\ held[c] \in Envelope
      /\ seen = [seen EXCEPT ![c] = seen[c]] /\ cur = [cur EXCEPT ![c] = cur[c]]
      /\ row.ver \in Nat /\ seen[c].ver \in Nat /\ cur[c].ver \in Nat /\ held[c].ver \in Nat
      /\ pc = [pc EXCEPT ![c] = pc[c]] /\ \A l : [pc EXCEPT ![c] = l][c] = l
      /\ kind[c] \in AllKinds /\ row.st \in {"absent", "live", "dead"}
  BY DEF Shape, Placed, Typed, Row, Envelope
<1> USE <1>0
<1>10. backend \in {"fakeDynamo", "fakeSql"}
  OBVIOUS
<1> USE <1>10
<1>1. CASE Fake!Get(c)
  <2>1. /\ EnvelopeOf(row) \in Envelope /\ EnvelopeOf(row).ver = row.ver /\ seen[c] \in Row
        /\ kind[c] \in Guarded /\ backend # "kv" /\ row.st # "absent"
    BY <1>1, Givens DEF Fake!Get, EnvelopeOf
  <2>2. held' = [held EXCEPT ![c] = EnvelopeOf(row)]
    BY <1>1 DEF Fake!Get, EnvelopeOf
  <2>3. /\ Goto(c, "held") /\ UNCHANGED <<soft, row, kind, reply, cur>>
        /\ seen' = [seen EXCEPT ![c] = seen[c]]
    BY <1>1 DEF Fake!Get, Fake!casVars
  <2>4. EnvelopeOf(row).ver <= row.ver
    BY <2>1
  <2> HIDE DEF Goto, EnvelopeOf
  <2> QED BY <2>1, <2>2, <2>3, <2>4, GotAt
<1>2. CASE Fake!MapInsert(c)
  <2>1. UNCHANGED <<seen, cur>> /\ (kind[c] \in Guarded => pc[c] \notin {"idle", "getVersion"})
    BY <1>2 DEF Fake!MapInsert, Fake!InTheWay, Fake!casVars, PlacedAt
  <2>2. ASSUME Commit(c, Live(row.ver + 1, {c})) PROVE Settles(c)
    <3> HIDE DEF Commit, Live
    <3> QED BY <2>1, <2>2, Givens DEF Settles, Wins
  <2>3. ASSUME NEW l \in {"exists"}, Step(c, l) PROVE Settles(c)
    <3>1. /\ seen' = [seen EXCEPT ![c] = seen[c]] /\ cur' = [cur EXCEPT ![c] = cur[c]]
          /\ PlacedAt(c, l, seen[c], cur[c]) /\ l \in Positions
      BY <1>2, <2>1, <2>3 DEF Fake!MapInsert, Fake!InTheWay, Positions, Outcomes, PlacedAt, Tables, Hashes
    <3>2. Plan(c) => PlanAt(c, l, seen[c], cur[c])
      BY <2>3 DEF PlanAt
    <3>3. Still(c) => StillAt(c, l, seen[c], cur[c]) /\ Reason(c, l)
      BY <1>2, <2>3 DEF Fake!MapInsert, Fake!InTheWay, Still, StillAt, Reason, AllKinds, PlacedAt, RowShape
    <3>4. Real(c) => RealAt(c, l, seen[c], cur[c])
      BY <1>2, <2>3 DEF Fake!MapInsert, Fake!InTheWay, Real, RealAt, AllKinds, PlacedAt, RowShape
    <3> HIDE DEF Step
    <3> QED BY <2>3, <3>1, <3>2, <3>3, <3>4, LandsAt
  <2> QED BY <1>2, <2>2, <2>3 DEF Fake!MapInsert, Fake!InTheWay
<1>3. CASE backend = "fakeSql" /\ Fake!MapPutRead(c)
  <2>1. /\ pc'[c] \in {"putWrite"} /\ Step(c, pc'[c])
        /\ seen' = [seen EXCEPT ![c] = row] /\ row \in Row
        /\ cur' = [cur EXCEPT ![c] = cur[c]] /\ cur[c] \in Row
    BY <1>3 DEF Fake!MapPutRead, Fake!casVars
  <2>2. Plan(c) => PlanAt(c, pc'[c], row, cur[c])
    BY <1>3, <2>1 DEF Fake!MapPutRead, Plan, PlanAt
  <2>3. Still(c) => StillAt(c, pc'[c], row, cur[c]) /\ Reason(c, pc'[c])
    BY <1>3, <2>1 DEF Fake!MapPutRead, Still, StillAt, Reason, AllKinds
  <2>4. Real(c) => RealAt(c, pc'[c], row, cur[c])
    BY <1>3, <2>1 DEF Fake!MapPutRead, Real, RealAt
  <2>5. pc'[c] \in Positions /\ PlacedAt(c, pc'[c], row, cur[c])
    BY <1>3, <2>1 DEF Fake!MapPutRead, Positions, Outcomes, PlacedAt, Tables, Hashes
  <2> HIDE DEF Step
  <2> QED BY <2>1, <2>2, <2>3, <2>4, <2>5, LandsAt
<1>4. CASE Fake!MapPutAfter(c)
  <2>1. UNCHANGED <<seen, cur>> /\ (kind[c] \in Guarded => pc[c] \notin {"idle", "getVersion"})
    BY <1>4 DEF Fake!MapPutAfter, Fake!casVars, PlacedAt
  <2>2. ASSUME Commit(c, Live(seen[c].ver + 1, {c})) PROVE Settles(c)
    <3> HIDE DEF Commit, Live
    <3> QED BY <2>1, <2>2, Givens DEF Settles, Wins
  <2> QED BY <1>4, <2>2 DEF Fake!MapPutAfter
<1>5. CASE Fake!MapPut(c)
  <2>1. UNCHANGED <<seen, cur>> /\ (kind[c] \in Guarded => pc[c] \notin {"idle", "getVersion"})
    BY <1>5 DEF Fake!MapPut, Fake!casVars, PlacedAt
  <2>2. ASSUME Commit(c, Live(row.ver + 1, {c})) PROVE Settles(c)
    <3> HIDE DEF Commit, Live
    <3> QED BY <2>1, <2>2, Givens DEF Settles, Wins
  <2> QED BY <1>5, <2>2 DEF Fake!MapPut
<1>6. CASE Fake!PatchRead(c)
  <2>1. /\ pc'[c] \in {"miss", "conflict", "updateCas"} /\ Step(c, pc'[c])
        /\ seen' = [seen EXCEPT ![c] = row] /\ row \in Row
        /\ cur' = [cur EXCEPT ![c] = cur[c]] /\ cur[c] \in Row
    BY <1>6 DEF Fake!PatchRead, Fake!casVars
  <2>2. Plan(c) => PlanAt(c, pc'[c], row, cur[c])
    BY <1>6, <2>1 DEF Fake!PatchRead, Plan, PlanAt
  <2>3. Still(c) => StillAt(c, pc'[c], row, cur[c]) /\ Reason(c, pc'[c])
    BY <1>6, <2>1 DEF Fake!PatchRead, Still, StillAt, Reason, AllKinds
  <2>4. Real(c) => RealAt(c, pc'[c], row, cur[c])
    BY <1>6, <2>1 DEF Fake!PatchRead, Real, RealAt
  <2>5. pc'[c] \in Positions /\ PlacedAt(c, pc'[c], row, cur[c])
    BY <1>6, <2>1 DEF Fake!PatchRead, Positions, Outcomes, PlacedAt, Tables, Hashes
  <2> HIDE DEF Step
  <2> QED BY <2>1, <2>2, <2>3, <2>4, <2>5, LandsAt
<1>7. CASE Fake!MapUpdate(c)
  <2>1. UNCHANGED <<seen, cur>> /\ (kind[c] \in Guarded => pc[c] \notin {"idle", "getVersion"})
    BY <1>7 DEF Fake!MapUpdate, Fake!MapCas, Fake!MapExpected, Fake!casVars, PlacedAt
  <2>2. ASSUME Commit(c, Live(row.ver + 1, Fake!UpdateValue(c))) PROVE Settles(c)
    <3> HIDE DEF Commit, Live
    <3> QED BY <2>1, <2>2, Givens DEF Settles, Wins, Fake!UpdateValue
  <2>3. ASSUME NEW l \in {"miss", "conflict"}, Step(c, l) PROVE Settles(c)
    <3>1. /\ seen' = [seen EXCEPT ![c] = seen[c]] /\ cur' = [cur EXCEPT ![c] = cur[c]]
          /\ PlacedAt(c, l, seen[c], cur[c]) /\ l \in Positions
      BY <1>7, <2>1, <2>3 DEF Fake!MapUpdate, Fake!MapCas, Fake!MapExpected, Positions, Outcomes, PlacedAt, Tables, Hashes
    <3>2. Plan(c) => PlanAt(c, l, seen[c], cur[c])
      BY <2>3 DEF PlanAt
    <3>3. Still(c) => StillAt(c, l, seen[c], cur[c]) /\ Reason(c, l)
      BY <1>7, <2>3 DEF Fake!MapUpdate, Fake!MapCas, Fake!MapExpected, Still, StillAt, Reason, AllKinds, PlacedAt, RowShape
    <3>4. Real(c) => RealAt(c, l, seen[c], cur[c])
      BY <1>7, <2>3 DEF Fake!MapUpdate, Fake!MapCas, Fake!MapExpected, Real, RealAt, AllKinds, PlacedAt, RowShape
    <3> HIDE DEF Step
    <3> QED BY <2>3, <3>1, <3>2, <3>3, <3>4, LandsAt
  <2> QED BY <1>7, <2>2, <2>3 DEF Fake!MapUpdate, Fake!MapCas, Fake!MapExpected
<1>8. CASE Fake!DeleteRead(c)
  <2>1. /\ pc'[c] \in {"miss", "conflict", "deleteCas"} /\ Step(c, pc'[c])
        /\ seen' = [seen EXCEPT ![c] = (IF soft THEN row ELSE seen[c])] /\ (IF soft THEN row ELSE seen[c]) \in Row
        /\ cur' = [cur EXCEPT ![c] = cur[c]] /\ cur[c] \in Row
    BY <1>8 DEF Fake!DeleteRead, Fake!casVars
  <2>2. Plan(c) => PlanAt(c, pc'[c], (IF soft THEN row ELSE seen[c]), cur[c])
    BY <1>8, <2>1 DEF Fake!DeleteRead, Plan, PlanAt
  <2>3. Still(c) => StillAt(c, pc'[c], (IF soft THEN row ELSE seen[c]), cur[c]) /\ Reason(c, pc'[c])
    BY <1>8, <2>1 DEF Fake!DeleteRead, Still, StillAt, Reason, AllKinds
  <2>4. Real(c) => RealAt(c, pc'[c], (IF soft THEN row ELSE seen[c]), cur[c])
    BY <1>8, <2>1 DEF Fake!DeleteRead, Real, RealAt
  <2>5. pc'[c] \in Positions /\ PlacedAt(c, pc'[c], (IF soft THEN row ELSE seen[c]), cur[c])
    BY <1>8, <2>1 DEF Fake!DeleteRead, Positions, Outcomes, PlacedAt, Tables, Hashes
  <2> HIDE DEF Step
  <2> QED BY <2>1, <2>2, <2>3, <2>4, <2>5, LandsAt
<1>9. CASE Fake!MapDelete(c)
  <2>1. UNCHANGED <<seen, cur>> /\ (kind[c] \in Guarded => pc[c] \notin {"idle", "getVersion"})
    BY <1>9 DEF Fake!MapDelete, Fake!MapCas, Fake!MapExpected, Fake!casVars, PlacedAt
  <2>2. ASSUME CommitDelete(c, IF soft THEN Dead(row.ver + 1) ELSE Absent) PROVE Settles(c)
    <3> HIDE DEF CommitDelete, Dead, Absent
    <3> QED BY <2>1, <2>2, Givens DEF Settles, Wins
  <2>3. ASSUME NEW l \in {"miss", "conflict"}, Step(c, l) PROVE Settles(c)
    <3>1. /\ seen' = [seen EXCEPT ![c] = seen[c]] /\ cur' = [cur EXCEPT ![c] = cur[c]]
          /\ PlacedAt(c, l, seen[c], cur[c]) /\ l \in Positions
      BY <1>9, <2>1, <2>3 DEF Fake!MapDelete, Fake!MapCas, Fake!MapExpected, Positions, Outcomes, PlacedAt, Tables, Hashes
    <3>2. Plan(c) => PlanAt(c, l, seen[c], cur[c])
      BY <2>3 DEF PlanAt
    <3>3. Still(c) => StillAt(c, l, seen[c], cur[c]) /\ Reason(c, l)
      BY <1>9, <2>3 DEF Fake!MapDelete, Fake!MapCas, Fake!MapExpected, Still, StillAt, Reason, AllKinds, PlacedAt, RowShape
    <3>4. Real(c) => RealAt(c, l, seen[c], cur[c])
      BY <1>9, <2>3 DEF Fake!MapDelete, Fake!MapCas, Fake!MapExpected, Real, RealAt, AllKinds, PlacedAt, RowShape
    <3> HIDE DEF Step
    <3> QED BY <2>3, <3>1, <3>2, <3>3, <3>4, LandsAt
  <2> QED BY <1>9, <2>2, <2>3 DEF Fake!MapDelete, Fake!MapCas, Fake!MapExpected
<1> QED BY <1>1, <1>2, <1>3, <1>4, <1>5, <1>6, <1>7, <1>8, <1>9 DEF Fake!FakeSqlStep, Fake!FakeDynamoStep

\* The in-process port of Redis.
LEMMA FakeRedisSettles ==
  ASSUME Shape, NEW c \in Calls, backend = "fakeRedis", Fake!FakeRedisStep(c)
  PROVE  Settles(c)
<1> USE DEF Fake!Guarded, Fake!Updates, Fake!Patches, Fake!Deletes, Guarded, Updates, Patches, Deletes
<1> USE DEF Fake!Step, Step, Fake!Goto, Goto, Fake!Commit, Commit, Fake!CommitDelete, CommitDelete,
            Fake!Live, Live, Fake!Dead, Dead, Fake!Absent, Absent, Fake!EnvelopeOf, EnvelopeOf,
            Fake!Ready
<1>0. /\ PlacedAt(c, pc[c], seen[c], cur[c]) /\ RowShape
      /\ seen[c] \in Row /\ cur[c] \in Row /\ row \in Row /\ held[c] \in Envelope
      /\ seen = [seen EXCEPT ![c] = seen[c]] /\ cur = [cur EXCEPT ![c] = cur[c]]
      /\ row.ver \in Nat /\ seen[c].ver \in Nat /\ cur[c].ver \in Nat /\ held[c].ver \in Nat
      /\ pc = [pc EXCEPT ![c] = pc[c]] /\ \A l : [pc EXCEPT ![c] = l][c] = l
      /\ kind[c] \in AllKinds /\ row.st \in {"absent", "live", "dead"}
  BY DEF Shape, Placed, Typed, Row, Envelope
<1> USE <1>0
<1> USE DEF Fake!Redis!Step, Fake!Redis!Goto, Fake!Redis!Guarded, Fake!Redis!Patches,
            Fake!Redis!Deletes, Fake!Redis!Ready, Fake!Redis!EnvelopeOf
<1>1. CASE Fake!Redis!GetValue(c) /\ UNCHANGED cur
  <2>0. [row EXCEPT !.ver = 0].st = row.st /\ [row EXCEPT !.ver = 0].val = row.val
    BY DEF Row
  <2>1. /\ pc'[c] \in {"getVersion"} /\ Step(c, pc'[c])
        /\ seen' = [seen EXCEPT ![c] = [row EXCEPT !.ver = 0]] /\ [row EXCEPT !.ver = 0] \in Row
        /\ cur' = [cur EXCEPT ![c] = cur[c]] /\ cur[c] \in Row
    BY <1>1 DEF Fake!Redis!GetValue, Fake!Redis!ReadValue, Row
  <2>2. Plan(c) => PlanAt(c, pc'[c], [row EXCEPT !.ver = 0], cur[c])
    BY <2>0, <1>1, <2>1 DEF Fake!Redis!GetValue, Fake!Redis!ReadValue, Plan, PlanAt
  <2>3. Still(c) => StillAt(c, pc'[c], [row EXCEPT !.ver = 0], cur[c]) /\ Reason(c, pc'[c])
    BY <2>0, <1>1, <2>1 DEF Fake!Redis!GetValue, Fake!Redis!ReadValue, Still, StillAt, Reason, AllKinds
  <2>4. Real(c) => RealAt(c, pc'[c], [row EXCEPT !.ver = 0], cur[c])
    BY <2>0, <1>1, <2>1 DEF Fake!Redis!GetValue, Fake!Redis!ReadValue, Real, RealAt
  <2>5. pc'[c] \in Positions /\ PlacedAt(c, pc'[c], [row EXCEPT !.ver = 0], cur[c])
    BY <2>0, <1>1, <2>1 DEF Fake!Redis!GetValue, Fake!Redis!ReadValue, Positions, Outcomes, PlacedAt, Tables, Hashes
  <2> HIDE DEF Step
  <2> QED BY <2>1, <2>2, <2>3, <2>4, <2>5, LandsAt
<1>2. CASE Fake!Redis!GetVersion(c) /\ UNCHANGED cur
  <2> DEFINE n == IF row.st = "absent" THEN 1 ELSE row.ver
             x == [seen[c] EXCEPT !.ver = n]
  <2>0. /\ x \in Row /\ x.ver = n /\ kind[c] \in Guarded /\ backend # "kv" /\ backend # "dynamo"
        /\ EnvelopeOf(x) \in Envelope /\ EnvelopeOf(x).ver = n
    BY <1>2 DEF Fake!Redis!GetVersion, PlacedAt, Hashes, Row, Envelope
  <2>1. CASE seen[c].st = "live"
    <3>1. Real(c) /\ soft => row.st # "absent"
      BY <1>2 DEF Fake!Redis!GetVersion, Real, RealAt
    <3>5. Real(c) /\ soft => EnvelopeOf(x).ver <= row.ver /\ row.st # "absent"
      BY <2>0, <3>1
    <3>2. seen' = [seen EXCEPT ![c] = x] /\ seen'[c] = x
      BY <1>2, <2>0 DEF Fake!Redis!GetVersion, Fake!Redis!ReadVersion, Fake!Redis!VersionField, Shape, Typed
    <3>3. held' = [held EXCEPT ![c] = EnvelopeOf(x)]
      BY <1>2, <2>1, <3>2 DEF Fake!Redis!GetVersion
    <3>4. Goto(c, "held") /\ UNCHANGED <<soft, row, kind, reply, cur>>
      BY <1>2, <2>1 DEF Fake!Redis!GetVersion
    <3> HIDE DEF x, Goto, EnvelopeOf
    <3> QED BY <2>0, <3>2, <3>3, <3>4, <3>5, GotAt
  <2>2. CASE seen[c].st # "live"
    <3>1. /\ pc'[c] = "idle" /\ Step(c, pc'[c]) /\ "idle" \in Positions
          /\ seen' = [seen EXCEPT ![c] = x] /\ x \in Row
          /\ cur' = [cur EXCEPT ![c] = cur[c]]
      BY <1>2, <2>2 DEF Fake!Redis!GetVersion, Fake!Redis!ReadVersion, Fake!Redis!VersionField, Positions, Row
    <3>2. PlanAt(c, "idle", x, cur[c])
      BY DEF PlanAt
    <3>3. StillAt(c, "idle", x, cur[c]) /\ Reason(c, "idle")
      BY DEF StillAt, Reason
    <3>4. RealAt(c, "idle", x, cur[c])
      BY DEF RealAt
    <3>5. PlacedAt(c, "idle", x, cur[c])
      BY <2>0 DEF PlacedAt
    <3> HIDE DEF Step, x
    <3> QED BY <3>1, <3>2, <3>3, <3>4, <3>5, LandsAt
  <2> QED BY <2>1, <2>2
<1>3. CASE Fake!Redis!LoadValue(c) /\ UNCHANGED cur
  <2>0. [row EXCEPT !.ver = 0].st = row.st /\ [row EXCEPT !.ver = 0].val = row.val
    BY DEF Row
  <2>1. /\ pc'[c] \in {"miss", "loadVersion"} /\ Step(c, pc'[c])
        /\ seen' = [seen EXCEPT ![c] = [row EXCEPT !.ver = 0]] /\ [row EXCEPT !.ver = 0] \in Row
        /\ cur' = [cur EXCEPT ![c] = cur[c]] /\ cur[c] \in Row
    BY <1>3 DEF Fake!Redis!LoadValue, Fake!Redis!ReadValue, Row
  <2>2. Plan(c) => PlanAt(c, pc'[c], [row EXCEPT !.ver = 0], cur[c])
    BY <2>0, <1>3, <2>1 DEF Fake!Redis!LoadValue, Fake!Redis!ReadValue, Plan, PlanAt
  <2>3. Still(c) => StillAt(c, pc'[c], [row EXCEPT !.ver = 0], cur[c]) /\ Reason(c, pc'[c])
    BY <2>0, <1>3, <2>1 DEF Fake!Redis!LoadValue, Fake!Redis!ReadValue, Still, StillAt, Reason, AllKinds
  <2>4. Real(c) => RealAt(c, pc'[c], [row EXCEPT !.ver = 0], cur[c])
    BY <2>0, <1>3, <2>1 DEF Fake!Redis!LoadValue, Fake!Redis!ReadValue, Real, RealAt
  <2>5. pc'[c] \in Positions /\ PlacedAt(c, pc'[c], [row EXCEPT !.ver = 0], cur[c])
    BY <2>0, <1>3, <2>1 DEF Fake!Redis!LoadValue, Fake!Redis!ReadValue, Positions, Outcomes, PlacedAt, Tables, Hashes
  <2> HIDE DEF Step
  <2> QED BY <2>1, <2>2, <2>3, <2>4, <2>5, LandsAt
<1>4. CASE Fake!Redis!LoadVersion(c) /\ UNCHANGED cur
  <2>0. /\ [seen[c] EXCEPT !.ver = IF row.st = "absent" THEN 1 ELSE row.ver].st = seen[c].st /\ [seen[c] EXCEPT !.ver = IF row.st = "absent" THEN 1 ELSE row.ver].val = seen[c].val
        /\ [seen[c] EXCEPT !.ver = IF row.st = "absent" THEN 1 ELSE row.ver].ver = (IF row.st = "absent" THEN 1 ELSE row.ver)
    BY DEF Row
  <2>1. /\ pc'[c] \in {"miss", "conflict", "eval"} /\ Step(c, pc'[c])
        /\ seen' = [seen EXCEPT ![c] = [seen[c] EXCEPT !.ver = IF row.st = "absent" THEN 1 ELSE row.ver]] /\ [seen[c] EXCEPT !.ver = IF row.st = "absent" THEN 1 ELSE row.ver] \in Row
        /\ cur' = [cur EXCEPT ![c] = cur[c]] /\ cur[c] \in Row
    BY <1>4 DEF Fake!Redis!LoadVersion, Fake!Redis!ReadVersion, Fake!Redis!VersionField, Row
  <2>2. Plan(c) => PlanAt(c, pc'[c], [seen[c] EXCEPT !.ver = IF row.st = "absent" THEN 1 ELSE row.ver], cur[c])
    BY <2>0, <1>4, <2>1 DEF Fake!Redis!LoadVersion, Fake!Redis!ReadVersion, Fake!Redis!VersionField, Plan, PlanAt
  <2>3. Still(c) => StillAt(c, pc'[c], [seen[c] EXCEPT !.ver = IF row.st = "absent" THEN 1 ELSE row.ver], cur[c]) /\ Reason(c, pc'[c])
    BY <2>0, <1>4, <2>1 DEF Fake!Redis!LoadVersion, Fake!Redis!ReadVersion, Fake!Redis!VersionField, Still, StillAt, Reason, AllKinds
  <2>4. Real(c) => RealAt(c, pc'[c], [seen[c] EXCEPT !.ver = IF row.st = "absent" THEN 1 ELSE row.ver], cur[c])
    BY <2>0, <1>4, <2>1 DEF Fake!Redis!LoadVersion, Fake!Redis!ReadVersion, Fake!Redis!VersionField, Real, RealAt
  <2>5. pc'[c] \in Positions /\ PlacedAt(c, pc'[c], [seen[c] EXCEPT !.ver = IF row.st = "absent" THEN 1 ELSE row.ver], cur[c])
    BY <2>0, <1>4, <2>1 DEF Fake!Redis!LoadVersion, Fake!Redis!ReadVersion, Fake!Redis!VersionField, Positions, Outcomes, PlacedAt, Tables, Hashes
  <2> HIDE DEF Step
  <2> QED BY <2>1, <2>2, <2>3, <2>4, <2>5, LandsAt
<1>5. CASE kind[c] = "create" /\ Fake!FakeEval(c)
  <2>1. UNCHANGED <<seen, cur>> /\ (kind[c] \in Guarded => pc[c] \notin {"idle", "getVersion"})
    BY <1>5 DEF Fake!FakeEval, Fake!MapInsert, Fake!InTheWay, Fake!casVars, PlacedAt
  <2>2. ASSUME Commit(c, Live(row.ver + 1, {c})) PROVE Settles(c)
    <3> HIDE DEF Commit, Live
    <3> QED BY <2>1, <2>2, Givens DEF Settles, Wins
  <2>3. ASSUME NEW l \in {"exists"}, Step(c, l) PROVE Settles(c)
    <3>1. /\ seen' = [seen EXCEPT ![c] = seen[c]] /\ cur' = [cur EXCEPT ![c] = cur[c]]
          /\ PlacedAt(c, l, seen[c], cur[c]) /\ l \in Positions
      BY <1>5, <2>1, <2>3 DEF Fake!FakeEval, Fake!MapInsert, Fake!InTheWay, Positions, Outcomes, PlacedAt, Tables, Hashes
    <3>2. Plan(c) => PlanAt(c, l, seen[c], cur[c])
      BY <2>3 DEF PlanAt
    <3>3. Still(c) => StillAt(c, l, seen[c], cur[c]) /\ Reason(c, l)
      BY <1>5, <2>3 DEF Fake!FakeEval, Fake!MapInsert, Fake!InTheWay, Still, StillAt, Reason, AllKinds, PlacedAt, RowShape
    <3>4. Real(c) => RealAt(c, l, seen[c], cur[c])
      BY <1>5, <2>3 DEF Fake!FakeEval, Fake!MapInsert, Fake!InTheWay, Real, RealAt, AllKinds, PlacedAt, RowShape
    <3> HIDE DEF Step
    <3> QED BY <2>3, <3>1, <3>2, <3>3, <3>4, LandsAt
  <2> QED BY <1>5, <2>2, <2>3 DEF Fake!FakeEval, Fake!MapInsert, Fake!InTheWay
<1>6. CASE kind[c] = "put" /\ Fake!FakeEval(c)
  <2>1. UNCHANGED <<seen, cur>> /\ (kind[c] \in Guarded => pc[c] \notin {"idle", "getVersion"})
    BY <1>6 DEF Fake!FakeEval, Fake!MapPut, Fake!casVars, PlacedAt
  <2>2. ASSUME Commit(c, Live(row.ver + 1, {c})) PROVE Settles(c)
    <3> HIDE DEF Commit, Live
    <3> QED BY <2>1, <2>2, Givens DEF Settles, Wins
  <2> QED BY <1>6, <2>2 DEF Fake!FakeEval, Fake!MapPut
<1>7. CASE kind[c] \in Updates \cup Patches /\ Fake!FakeEval(c)
  <2>1. UNCHANGED <<seen, cur>> /\ (kind[c] \in Guarded => pc[c] \notin {"idle", "getVersion"})
    BY <1>7 DEF Fake!FakeEval, Fake!MapCas, Fake!MapExpected, Fake!casVars, PlacedAt
  <2>2. ASSUME Commit(c, Live(row.ver + 1, Fake!UpdateValue(c))) PROVE Settles(c)
    <3> HIDE DEF Commit, Live
    <3> QED BY <2>1, <2>2, Givens DEF Settles, Wins, Fake!UpdateValue
  <2>3. ASSUME NEW l \in {"miss", "conflict"}, Step(c, l) PROVE Settles(c)
    <3>1. /\ seen' = [seen EXCEPT ![c] = seen[c]] /\ cur' = [cur EXCEPT ![c] = cur[c]]
          /\ PlacedAt(c, l, seen[c], cur[c]) /\ l \in Positions
      BY <1>7, <2>1, <2>3 DEF Fake!FakeEval, Fake!MapCas, Fake!MapExpected, Positions, Outcomes, PlacedAt, Tables, Hashes
    <3>2. Plan(c) => PlanAt(c, l, seen[c], cur[c])
      BY <2>3 DEF PlanAt
    <3>3. Still(c) => StillAt(c, l, seen[c], cur[c]) /\ Reason(c, l)
      BY <1>7, <2>3 DEF Fake!FakeEval, Fake!MapCas, Fake!MapExpected, Still, StillAt, Reason, AllKinds, PlacedAt, RowShape
    <3>4. Real(c) => RealAt(c, l, seen[c], cur[c])
      BY <1>7, <2>3 DEF Fake!FakeEval, Fake!MapCas, Fake!MapExpected, Real, RealAt, AllKinds, PlacedAt, RowShape
    <3> HIDE DEF Step
    <3> QED BY <2>3, <3>1, <3>2, <3>3, <3>4, LandsAt
  <2> QED BY <1>7, <2>2, <2>3 DEF Fake!FakeEval, Fake!MapCas, Fake!MapExpected
<1>8. CASE kind[c] \in Deletes /\ Fake!FakeEval(c)
  <2>1. UNCHANGED <<seen, cur>> /\ (kind[c] \in Guarded => pc[c] \notin {"idle", "getVersion"})
    BY <1>8 DEF Fake!FakeEval, Fake!MapCas, Fake!MapExpected, Fake!casVars, PlacedAt
  <2>2. ASSUME CommitDelete(c, IF soft THEN Dead(row.ver + 1) ELSE Absent) PROVE Settles(c)
    <3> HIDE DEF CommitDelete, Dead, Absent
    <3> QED BY <2>1, <2>2, Givens DEF Settles, Wins
  <2>3. ASSUME NEW l \in {"miss", "conflict"}, Step(c, l) PROVE Settles(c)
    <3>1. /\ seen' = [seen EXCEPT ![c] = seen[c]] /\ cur' = [cur EXCEPT ![c] = cur[c]]
          /\ PlacedAt(c, l, seen[c], cur[c]) /\ l \in Positions
      BY <1>8, <2>1, <2>3 DEF Fake!FakeEval, Fake!MapCas, Fake!MapExpected, Positions, Outcomes, PlacedAt, Tables, Hashes
    <3>2. Plan(c) => PlanAt(c, l, seen[c], cur[c])
      BY <2>3 DEF PlanAt
    <3>3. Still(c) => StillAt(c, l, seen[c], cur[c]) /\ Reason(c, l)
      BY <1>8, <2>3 DEF Fake!FakeEval, Fake!MapCas, Fake!MapExpected, Still, StillAt, Reason, AllKinds, PlacedAt, RowShape
    <3>4. Real(c) => RealAt(c, l, seen[c], cur[c])
      BY <1>8, <2>3 DEF Fake!FakeEval, Fake!MapCas, Fake!MapExpected, Real, RealAt, AllKinds, PlacedAt, RowShape
    <3> HIDE DEF Step
    <3> QED BY <2>3, <3>1, <3>2, <3>3, <3>4, LandsAt
  <2> QED BY <1>8, <2>2, <2>3 DEF Fake!FakeEval, Fake!MapCas, Fake!MapExpected
<1> QED BY <1>1, <1>2, <1>3, <1>4, <1>5, <1>6, <1>7, <1>8 DEF Fake!FakeRedisStep, AllKinds

LEMMA StepSettles ==
  ASSUME Shape, NEW c \in Calls, CallStep(c)
  PROVE  Settles(c)
BY SqlSettles, DynamoSettles, RedisSettles, KvSettles, FakeTableSettles, FakeRedisSettles
   DEF CallStep, FakeStep

-----------------------------------------------------------------------------
(* A step moves its own call, and leaves things in shape                   *)

Moves(c) ==
    /\ UNCHANGED <<backend, serial, soft, kind>>
    /\ pc' = [pc EXCEPT ![c] = pc'[c]] /\ pc'[c] \in Positions
    /\ held' = [held EXCEPT ![c] = held'[c]] /\ held'[c] \in Envelope
    /\ reply' = [reply EXCEPT ![c] = reply'[c]] /\ reply'[c] \in Envelope
    /\ seen' = [seen EXCEPT ![c] = seen'[c]] /\ seen'[c] \in Row
    /\ cur' = [cur EXCEPT ![c] = cur'[c]] /\ cur'[c] \in Row
    /\ row' \in Row /\ RowShape' /\ Placed(c)'

LEMMA StepMoves ==
  ASSUME Shape, NEW c \in Calls, NEW l \in Positions, NEW x \in Row, NEW y \in Row,
         Step(c, l), PlacedAt(c, l, x, y), UNCHANGED <<backend, serial>>,
         seen' = [seen EXCEPT ![c] = x], cur' = [cur EXCEPT ![c] = y]
  PROVE  Moves(c)
<1>1. /\ pc' = [pc EXCEPT ![c] = l] /\ pc'[c] = l /\ seen'[c] = x /\ cur'[c] = y
      /\ UNCHANGED <<backend, serial, soft, kind, row, held, reply>>
  BY DEF Shape, Typed, Step, Goto
<1>2. PlacedAt(c, l, x, y)'
  BY <1>1 DEF PlacedAt
<1>3. Placed(c)'
  BY <1>1, <1>2 DEF Shape, Placed
<1>4. RowShape' /\ row' \in Row
  BY <1>1 DEF Shape, Typed, RowShape
<1> QED BY <1>1, <1>3, <1>4 DEF Moves, Shape, Typed

LEMMA GetMoves ==
  ASSUME Shape, NEW c \in Calls, NEW e \in Envelope, NEW x \in Row, kind[c] \in Guarded,
         backend # "kv", held' = [held EXCEPT ![c] = e], Goto(c, "held"),
         seen' = [seen EXCEPT ![c] = x],
         UNCHANGED <<backend, serial, soft, row, kind, reply, cur>>
  PROVE  Moves(c)
<1>1. pc' = [pc EXCEPT ![c] = "held"] /\ pc'[c] = "held" /\ held'[c] = e /\ seen'[c] = x
  BY DEF Shape, Typed, Goto
<1>2. PlacedAt(c, "held", x, cur[c])'
  BY DEF PlacedAt
<1>3. Placed(c)'
  BY <1>1, <1>2 DEF Placed
<1>4. RowShape' /\ row' \in Row
  BY DEF Shape, Typed, RowShape
<1> QED BY <1>1, <1>3, <1>4 DEF Moves, Shape, Typed, Positions

LEMMA Returned ==
  ASSUME Shape, NEW c \in Calls, pc' = [pc EXCEPT ![c] = "ok"],
         UNCHANGED <<backend, soft, kind, held>>
  PROVE  Placed(c)'
<1>1. pc'[c] = "ok"
  BY DEF Shape, Typed
<1>2. PlacedAt(c, "ok", seen[c], cur[c])'
  BY DEF Shape, Placed, PlacedAt
<1> QED BY <1>1, <1>2 DEF Shape, Placed

LEMMA CommitMoves ==
  ASSUME Shape, NEW c \in Calls, NEW n \in Nat, NEW v \in SUBSET Calls, Commit(c, Live(n, v)),
         UNCHANGED <<backend, serial, seen, cur>>
  PROVE  Moves(c)
<1>1. Live(n, v) \in Row /\ EnvelopeOf(Live(n, v)) \in Envelope
  BY DEF Live, Row, EnvelopeOf, Envelope
<1>2. RowShape' /\ row' \in Row
  BY <1>1 DEF Commit, RowShape, Live
<1>3. Placed(c)'
  BY Returned DEF Commit, Goto
<1> QED BY <1>1, <1>2, <1>3 DEF Moves, Commit, Goto, Shape, Typed, Positions, Outcomes

LEMMA DeleteMoves ==
  ASSUME Shape, NEW c \in Calls, NEW n \in Nat,
         CommitDelete(c, IF soft THEN Dead(n) ELSE Absent),
         UNCHANGED <<backend, serial, seen, cur>>
  PROVE  Moves(c)
<1>1. Dead(n) \in Row /\ Absent \in Row
  BY DEF Dead, Absent, Row
<1>2. RowShape' /\ row' \in Row
  BY <1>1 DEF CommitDelete, RowShape, Dead, Absent
<1>3. Placed(c)'
  BY Returned DEF CommitDelete, Goto
<1> QED BY <1>1, <1>2, <1>3 DEF Moves, CommitDelete, Goto, Shape, Typed, Positions, Outcomes

LEMMA SettlesMoves ==
  ASSUME Shape, NEW c \in Calls, Settles(c), UNCHANGED <<backend, serial>>
  PROVE  Moves(c)
<1>1. CASE Lands(c)
  BY <1>1, StepMoves DEF Lands
<1>2. CASE Wins(c)
  BY <1>2, CommitMoves, DeleteMoves DEF Wins
<1>3. CASE HasGot(c)
  BY <1>3, GetMoves DEF HasGot
<1> QED BY <1>1, <1>2, <1>3 DEF Settles

LEMMA StepMovesItsOwn ==
  ASSUME Shape, NEW c \in Calls, CallStep(c)
  PROVE  Moves(c)
<1>1. UNCHANGED <<backend, serial>>
  BY DEF CallStep, DynamoStep, SqlStep, RedisStep, KvStep, FakeStep
<1> QED BY <1>1, StepSettles, SettlesMoves

LEMMA InitShape == Init => Shape
<1> SUFFICES ASSUME Init PROVE Shape
  OBVIOUS
<1> USE DEF Init, CallsInit
<1>1. Absent \in Row /\ NoEnvelope \in Envelope /\ row \in Row /\ RowShape
  BY DEF InitRow, Absent, Live, Dead, Row, NoEnvelope, Envelope, RowShape
<1>2. Typed
  BY <1>1, KindsAssumption DEF Typed, Positions
<1>3. \A c \in Calls : Placed(c)
  BY DEF Placed, PlacedAt, Absent
<1> QED BY <1>1, <1>2, <1>3 DEF Shape

LEMMA OthersStay ==
  ASSUME Shape, NEW c \in Calls, Moves(c), NEW d \in Calls, d # c
  PROVE  /\ pc'[d] = pc[d] /\ held'[d] = held[d] /\ seen'[d] = seen[d] /\ cur'[d] = cur[d]
         /\ UNCHANGED <<backend, serial, soft, kind>>
BY DEF Shape, Typed, Moves

LEMMA ShapeStep ==
  ASSUME Shape, NEW c \in Calls, Moves(c)
  PROVE  Shape'
<1>1. Typed'
  BY DEF Shape, Typed, Moves
<1>2. ASSUME NEW d \in Calls PROVE Placed(d)'
  <2>1. CASE d = c
    BY <2>1 DEF Moves
  <2>2. CASE d # c
    <3>1. PlacedAt(d, pc[d], seen[d], cur[d])'
      BY <2>2, OthersStay DEF Shape, Placed, PlacedAt
    <3> QED BY <2>2, <3>1, OthersStay DEF Shape, Placed
  <2> QED BY <2>1, <2>2
<1> QED BY <1>1, <1>2 DEF Shape, Moves

-----------------------------------------------------------------------------
(* The invariant                                                           *)

\* What a call does to the record when what it writes is sound.
RowMoves(c) ==
    \/ row' = row
    \/ /\ row'.st = "live" /\ row'.ver = row.ver + 1
       /\ kind[c] \in AllKinds \ Deletes
       /\ row.st # "live" => kind[c] \in {"create", "put"}
    \/ /\ kind[c] \in Deletes /\ row.st = "live"
       /\ row' = IF soft THEN Dead(row.ver + 1) ELSE Absent

Inv ==
    /\ Shape
    /\ Atomic /\ backend # "kv" => \A c \in Calls : Plan(c)
    /\ serial => \A c \in Calls : Still(c)
    /\ Atomic \/ backend \in Hashes => \A c \in Calls : Real(c)

LEMMA PlannedIsSound ==
  ASSUME Shape, NEW c \in Calls, (Plan(c) /\ backend # "kv") \/ Still(c)
  PROVE  Sound(c)
<1>0. PlacedAt(c, pc[c], seen[c], cur[c]) /\ row.st \in {"absent", "live", "dead"}
  BY DEF Shape, Placed, Typed, Row
<1>1. CASE Plan(c) /\ backend # "kv"
  BY <1>0, <1>1 DEF Plan, PlanAt, Sound, PlacedAt, Guarded, Patches, Deletes
<1>2. CASE Still(c)
  BY <1>0, <1>2 DEF Still, StillAt, Sound, PlacedAt, Guarded, Patches, Deletes
<1> QED BY <1>1, <1>2

LEMMA TakesMovesRow ==
  ASSUME Shape, NEW c \in Calls, Takes(c)
  PROVE  RowMoves(c)
<1> USE DEF Reference!Live, Reference!Dead, Reference!Absent, Dead, Absent, Updates, Patches, Deletes,
            Reference!Updates, Reference!Patches, Reference!Deletes
<1>0. kind[c] \in AllKinds
  BY DEF Shape, Typed
<1>1. CASE Reference!Get(c) \/ UNCHANGED Reference!callVars \/ Refused(c)
  BY <1>1 DEF Reference!Get, Reference!callVars, Refused, Step, RowMoves
<1>2. CASE Reference!Create(c)
  BY <1>0, <1>2 DEF Reference!Create, Reference!Commit, RowMoves
<1>3. CASE Reference!Put(c)
  BY <1>0, <1>3 DEF Reference!Put, Reference!Commit, RowMoves
<1>4. CASE Reference!Update(c)
  BY <1>0, <1>4 DEF Reference!Update, Reference!Commit, RowMoves
<1>5. CASE Reference!Patch(c)
  BY <1>0, <1>5 DEF Reference!Patch, Reference!Commit, RowMoves
<1>6. CASE Reference!Delete(c)
  BY <1>0, <1>6 DEF Reference!Delete, Reference!CommitDelete, RowMoves
<1> QED BY <1>1, <1>2, <1>3, <1>4, <1>5, <1>6 DEF Takes, RefStep

\* Every write of Redis is one script, so it is sound as to versions.
LEMMA RedisMovesRow ==
  ASSUME Shape, NEW c \in Calls, backend \in Hashes, CallStep(c)
  PROVE  RowMoves(c)
<1>0. kind[c] \in AllKinds
  BY DEF Shape, Typed
<1> USE <1>0 DEF RowMoves, Updates, Patches, Deletes
<1>1. CASE RedisStep(c)
  <2> USE DEF Redis!Step, Redis!Commit, Redis!CommitDelete, Redis!Live, Redis!Dead, Redis!Absent,
              Redis!Updates, Redis!Patches, Redis!Deletes, Dead, Absent
  <2>1. CASE Redis!GetValue(c) \/ Redis!GetVersion(c) \/ Redis!LoadValue(c) \/ Redis!LoadVersion(c)
    BY <2>1 DEF Redis!GetValue, Redis!GetVersion, Redis!LoadValue, Redis!LoadVersion
  <2>2. CASE Redis!CreateEval(c)
    BY <2>2 DEF Redis!CreateEval
  <2>3. CASE Redis!PutEval(c)
    BY <2>3 DEF Redis!PutEval
  <2>4. CASE Redis!UpdateEval(c)
    BY <2>4 DEF Redis!UpdateEval, Redis!Guard
  <2>5. CASE Redis!PatchEval(c)
    BY <2>5 DEF Redis!PatchEval, Redis!Guard
  <2>6. CASE Redis!DeleteEval(c)
    BY <2>6 DEF Redis!DeleteEval, Redis!Guard
  <2> QED BY <1>1, <2>1, <2>2, <2>3, <2>4, <2>5, <2>6 DEF RedisStep, Redis!CallStep
<1>2. CASE FakeStep(c)
  <2> USE DEF Fake!Step, Fake!Commit, Fake!CommitDelete, Fake!Live, Fake!Dead, Fake!Absent,
              Fake!Updates, Fake!Patches, Fake!Deletes, Dead, Absent
  <2>1. CASE \/ Fake!Redis!GetValue(c) \/ Fake!Redis!GetVersion(c)
             \/ Fake!Redis!LoadValue(c) \/ Fake!Redis!LoadVersion(c)
    BY <2>1 DEF Fake!Redis!GetValue, Fake!Redis!GetVersion, Fake!Redis!LoadValue,
                Fake!Redis!LoadVersion, Fake!Redis!Step
  <2>2. CASE Fake!FakeEval(c)
    <3>1. CASE kind[c] = "create"
      BY <2>2, <3>1 DEF Fake!FakeEval, Fake!MapInsert
    <3>5. CASE kind[c] = "put"
      BY <2>2, <3>5 DEF Fake!FakeEval, Fake!MapPut
    <3>2. CASE kind[c] \in Updates
      BY <2>2, <3>2 DEF Fake!FakeEval, Fake!MapCas
    <3>3. CASE kind[c] \in Patches
      BY <2>2, <3>3 DEF Fake!FakeEval, Fake!MapCas
    <3>4. CASE kind[c] \in Deletes
      BY <2>2, <3>4 DEF Fake!FakeEval, Fake!MapCas
    <3> QED BY <3>1, <3>2, <3>3, <3>4, <3>5 DEF AllKinds
  <2> QED BY <1>2, <2>1, <2>2 DEF FakeStep, Fake!FakeRedisStep, Hashes
<1> QED BY <1>1, <1>2 DEF CallStep, DynamoStep, SqlStep, KvStep, Hashes

\* The call that moved.
LEMMA OwnPlan ==
  ASSUME Shape, NEW c \in Calls, Moves(c), Settles(c)
  PROVE  (Plan(c) => Plan(c)') /\ (Still(c) => Still(c)')
<1>1. CASE Lands(c)
  <2>1. PICK l \in Positions, x \in Row, y \in Row :
           /\ Step(c, l)
           /\ seen' = [seen EXCEPT ![c] = x] /\ cur' = [cur EXCEPT ![c] = y]
           /\ Plan(c) => PlanAt(c, l, x, y)
           /\ Still(c) => StillAt(c, l, x, y)
    BY <1>1 DEF Lands
  <2>2. /\ pc'[c] = l /\ seen'[c] = x /\ cur'[c] = y
        /\ UNCHANGED <<row, held, kind, soft, backend>>
    BY <2>1 DEF Step, Goto, Shape, Typed, Moves
  <2>3. PlanAt(c, l, x, y) => PlanAt(c, l, x, y)'
    BY <2>2 DEF PlanAt, Some
  <2>4. StillAt(c, l, x, y) => StillAt(c, l, x, y)'
    BY <2>2 DEF StillAt
  <2> QED BY <2>1, <2>2, <2>3, <2>4 DEF Plan, Still
<1>2. CASE Wins(c) \/ HasGot(c)
  <2>1. pc'[c] \in {"ok", "held"}
    BY <1>2 DEF Wins, HasGot, Commit, CommitDelete, Goto, Shape, Typed
  <2> QED BY <2>1 DEF Plan, Still, PlanAt, StillAt
<1> QED BY <1>1, <1>2 DEF Settles

LEMMA OthersPlan ==
  ASSUME Shape, NEW c \in Calls, Moves(c), RowMoves(c), Atomic,
         NEW d \in Calls, d # c, Plan(d)
  PROVE  Plan(d)'
<1>0. /\ pc'[d] = pc[d] /\ held'[d] = held[d] /\ seen'[d] = seen[d] /\ cur'[d] = cur[d]
      /\ UNCHANGED <<backend, serial, soft, kind>>
  BY OthersStay
<1>1. /\ row.ver \in Nat /\ row.st \in {"absent", "live", "dead"} /\ RowShape
      /\ seen[d].ver \in Nat /\ kind[c] \in AllKinds /\ kind[d] \in AllKinds
      /\ PlacedAt(d, pc[d], seen[d], cur[d])
  BY DEF Shape, Typed, Row, Placed
<1>2. /\ kind[c] \in Deletes => Some(Deletes)
      /\ kind[d] \in Patches => Some(Patches)
      /\ kind[c] \in {"create", "put"} => Some({"create", "put"})
      /\ kind[d] = "create" => Some({"create"})
  BY DEF Some
<1>3. \A K, L : kind[d] \in K /\ kind[c] \in L => Beside(K, L)
  BY DEF Beside
<1>4. Some(Deletes)' <=> Some(Deletes)
  BY <1>0 DEF Some
<1> SUFFICES PlanAt(d, pc[d], seen[d], cur[d])'
  BY <1>0 DEF Plan
<1> USE <1>0, <1>1 DEF PlanAt, RowMoves, Dead, Absent, RowShape, Deletes, Patches, Guarded
<1> USE DEF Plan
<1>5. CASE pc[d] \in {"updateCas", "updateWrite"} /\ kind[d] \in Patches
  <2>1. backend \in Tables
    BY <1>5 DEF PlacedAt, Tables
  <2>2. ~soft => ~(Some(Deletes) /\ Some({"create", "put"}))
    BY <2>1, <1>2, <1>5 DEF Atomic, Tables
  <2> QED BY <1>2, <1>4, <1>5, <2>2
<1>6. CASE pc[d] = "putWrite"
  <2>1. FALSE
    BY <1>3, <1>6 DEF PlacedAt, Atomic
  <2> QED BY <2>1
<1>7. CASE pc[d] \in {"deleteCas", "deleteWrite"}
  <2>1. backend = "dynamo" /\ soft /\ kind[d] = "delete" => kind[c] \in Deletes
    BY <1>3, <1>7 DEF Atomic
  <2>2. kind[d] \in Deletes
    BY <1>7 DEF PlacedAt
  <2> QED BY <1>7, <2>1, <2>2
<1>8. CASE pc[d] = "insertWrite"
  <2>1. kind[c] \notin Deletes
    BY <1>2, <1>8 DEF PlacedAt, Atomic
  <2> QED BY <1>8, <2>1
<1>9. CASE pc[d] \in {"getVersion", "loadVersion", "eval"} /\ kind[d] \in Guarded \cup Patches
  <2>1. FALSE
    BY <1>3, <1>9 DEF PlacedAt, Atomic, Hashes
  <2> QED BY <2>1
<1> QED BY <1>5, <1>6, <1>7, <1>8, <1>9

LEMMA OthersStill ==
  ASSUME Shape, NEW c \in Calls, Moves(c), Alone(c), NEW d \in Calls, d # c
  PROVE  Still(d)'
<1>1. pc'[d] \in {"idle", "held"} \cup Outcomes
  BY OthersStay DEF Alone, MidFlight
<1> QED BY <1>1 DEF Still, StillAt, Outcomes

\* Versions of the past stay in the past.
LEMMA OthersReal ==
  ASSUME Shape, NEW c \in Calls, Moves(c), RowMoves(c), NEW d \in Calls, d # c, Real(d)
  PROVE  Real(d)'
<1>1. /\ pc'[d] = pc[d] /\ held'[d] = held[d] /\ seen'[d] = seen[d] /\ cur'[d] = cur[d]
      /\ UNCHANGED <<soft, kind>>
  BY OthersStay
<1>2. row.ver \in Nat /\ held[d].ver \in Nat
  BY DEF Shape, Typed, Row, Envelope
<1> QED BY <1>1, <1>2 DEF Real, RealAt, RowMoves, Dead, Absent

LEMMA OwnReal ==
  ASSUME Shape, NEW c \in Calls, Moves(c), RowMoves(c), Settles(c), Real(c)
  PROVE  Real(c)'
<1>0. UNCHANGED <<soft, kind>>
  BY DEF Moves
<1>1. CASE Lands(c)
  <2>1. PICK l \in Positions, x \in Row, y \in Row :
           /\ Step(c, l)
           /\ seen' = [seen EXCEPT ![c] = x] /\ cur' = [cur EXCEPT ![c] = y]
           /\ RealAt(c, l, x, y)
    BY <1>1 DEF Lands
  <2>2. /\ pc'[c] = l /\ seen'[c] = x /\ cur'[c] = y /\ UNCHANGED <<row, held>>
    BY <2>1 DEF Step, Goto, Shape, Typed
  <2>3. RealAt(c, l, x, y)'
    BY <1>0, <2>1, <2>2 DEF RealAt
  <2> QED BY <2>2, <2>3 DEF Real
<1>2. CASE Wins(c)
  <2>1. pc'[c] = "ok" /\ held' = held /\ row.ver \in Nat /\ held[c].ver \in Nat
    BY <1>2 DEF Wins, Commit, CommitDelete, Goto, Shape, Typed, Row, Envelope
  <2>2. kind[c] \in Guarded => pc[c] \notin {"idle", "getVersion"}
    BY <1>2 DEF Wins
  <2> QED BY <1>0, <2>1, <2>2 DEF Real, RealAt, RowMoves, Dead, Absent
<1>3. CASE HasGot(c)
  <2>1. /\ pc'[c] = "held" /\ row' = row
        /\ soft => held'[c].ver <= row.ver /\ row.st # "absent"
    BY <1>3 DEF HasGot, Goto, Shape, Typed
  <2> QED BY <1>0, <2>1 DEF Real, RealAt
<1> QED BY <1>1, <1>2, <1>3 DEF Settles

LEMMA InitInv == Init => Inv
<1> SUFFICES ASSUME Init PROVE Inv
  OBVIOUS
<1>1. \A c \in Calls : pc[c] = "idle"
  BY DEF Init, CallsInit
<1>2. \A c \in Calls : Plan(c) /\ Still(c) /\ Real(c)
  BY <1>1 DEF Plan, PlanAt, Still, StillAt, Real, RealAt
<1> QED BY <1>2, InitShape DEF Inv

\* What is known of a step of any call.
LEMMA StepFacts ==
  ASSUME Inv, NEW c \in Calls, CallStep(c)
  PROVE  /\ Shape /\ Moves(c) /\ Settles(c)
         /\ serial => Alone(c)
         /\ Atomic \/ serial => Sound(c) /\ Takes(c)
         /\ Atomic \/ serial \/ backend \in Hashes => RowMoves(c)
<1>1. Shape /\ Moves(c) /\ Settles(c)
  BY StepMovesItsOwn, StepSettles DEF Inv
<1>2. serial => Alone(c)
  BY DEF CallStep, DynamoStep, SqlStep, RedisStep, KvStep, FakeStep, InTurn
<1>3. Atomic \/ serial => Sound(c)
  BY <1>1, PlannedIsSound DEF Inv, Atomic
<1>4. Atomic \/ serial => Takes(c)
  BY <1>1, <1>3, StepTakes
<1> QED BY <1>1, <1>2, <1>3, <1>4, TakesMovesRow, RedisMovesRow

LEMMA StepInv ==
  ASSUME Inv, NEW c \in Calls, CallStep(c)
  PROVE  Inv'
<1>1. Shape'
  BY StepFacts, ShapeStep
<1>2. UNCHANGED <<backend, serial, soft, kind>>
  BY StepFacts DEF Moves
<1>3. Atomic' <=> Atomic
  BY <1>2 DEF Atomic, Some, Beside
<1>4. ASSUME Atomic, backend # "kv", NEW d \in Calls PROVE Plan(d)'
  BY <1>4, StepFacts, OwnPlan, OthersPlan DEF Inv
<1>5. ASSUME serial, NEW d \in Calls PROVE Still(d)'
  BY <1>5, StepFacts, OwnPlan, OthersStill DEF Inv
<1>6. ASSUME Atomic \/ backend \in Hashes, NEW d \in Calls PROVE Real(d)'
  BY <1>6, StepFacts, OwnReal, OthersReal DEF Inv
<1> QED BY <1>1, <1>2, <1>3, <1>4, <1>5, <1>6 DEF Inv

LEMMA NextInv == Inv /\ [Next]_vars => Inv'
<1> SUFFICES ASSUME Inv, [Next]_vars PROVE Inv'
  OBVIOUS
<1>1. CASE Next
  BY <1>1, StepInv DEF Next
<1>2. CASE UNCHANGED vars
  <2> USE <1>2 DEF vars, callVars
  <2>1. Shape'
    BY DEF Inv, Shape, Typed, RowShape, Placed, PlacedAt
  <2>2. \A c \in Calls : (Plan(c)' <=> Plan(c)) /\ (Still(c)' <=> Still(c)) /\ (Real(c)' <=> Real(c))
    BY DEF Plan, PlanAt, Still, StillAt, Real, RealAt, Some
  <2>3. Atomic' <=> Atomic
    BY DEF Atomic, Some, Beside
  <2> QED BY <2>1, <2>2, <2>3 DEF Inv
<1> QED BY <1>1, <1>2

\* What the reference does, short of refusing, the port may.
LEMMA RefStepIsPortStep ==
  ASSUME NEW c \in Calls, RefStep(c)
  PROVE  \/ Port!Get(c) \/ Port!Create(c) \/ Port!Put(c) \/ Port!Update(c)
         \/ Port!Patch(c) \/ Port!Delete(c)
<1> USE DEF Reference!Guarded, Port!Guarded, Reference!Updates, Port!Updates,
            Reference!Patches, Port!Patches, Reference!Deletes, Port!Deletes,
            Reference!Ready, Port!Ready, Reference!VersionMatches, Port!VersionMatches,
            Reference!Goto, Port!Goto, Reference!EnvelopeOf, Port!EnvelopeOf,
            Reference!Live, Port!Live, Reference!Dead, Port!Dead, Reference!Absent, Port!Absent,
            Reference!Commit, Port!Commit, Reference!CommitDelete, Port!CommitDelete
<1>1. Reference!Get(c) => Port!Get(c)
  BY DEF Reference!Get, Port!Get
<1>2. Reference!Create(c) => Port!Create(c)
  BY DEF Reference!Create, Port!Create
<1>3. Reference!Put(c) => Port!Put(c)
  BY DEF Reference!Put, Port!Put
<1>4. Reference!Update(c) => Port!Update(c)
  BY DEF Reference!Update, Port!Update
<1>5. Reference!Patch(c) => Port!Patch(c)
  BY DEF Reference!Patch, Port!Patch
<1>6. Reference!Delete(c) => Port!Delete(c)
  BY DEF Reference!Delete, Port!Delete
<1> QED BY <1>1, <1>2, <1>3, <1>4, <1>5, <1>6 DEF RefStep

-----------------------------------------------------------------------------
(* Theorems                                                                *)

\* The inductive invariant holds throughout.
THEOREM Invariance == Spec => []Inv
BY InitInv, NextInv, PTL DEF Spec

\* Every back-end keeps to its positions, and its records and envelopes to
\* their types.
THEOREM TypeCorrect == Spec => []TypeOK
<1>1. Inv => TypeOK
  <2> SUFFICES ASSUME Inv PROVE TypeOK
    OBVIOUS
  <2>0. Typed /\ \A c \in Calls : PlacedAt(c, pc[c], seen[c], cur[c])
    BY DEF Inv, Shape, Placed
  <2> USE DEF Typed, PlacedAt, Positions, Outcomes, Tables, Hashes
  <2>1. backend = "dynamo" => Dynamo!TypeOK
    BY <2>0 DEF Dynamo!TypeOK, Dynamo!CasTypeOK, Dynamo!Outcomes, Dynamo!Row, Row, Dynamo!Envelope, Envelope
  <2>2. backend = "sql" => Sql!TypeOK
    BY <2>0 DEF Sql!TypeOK, Sql!CasTypeOK, Sql!Outcomes, Sql!Row, Row, Sql!Envelope, Envelope
  <2>3. backend = "redis" => Redis!TypeOK
    BY <2>0 DEF Redis!TypeOK, Redis!Outcomes, Redis!Row, Row, Redis!Envelope, Envelope
  <2>4. backend = "kv" => Kv!TypeOK
    BY <2>0 DEF Kv!TypeOK, Kv!Outcomes, Kv!Row, Row, Kv!Envelope, Envelope
  <2>5. backend \in {"fakeDynamo", "fakeSql", "fakeRedis"} => Fake!TypeOK
    BY <2>0 DEF Fake!TypeOK, Fake!Outcomes, Fake!Row, Row, Fake!Envelope, Envelope
  <2> QED BY <2>0, <2>1, <2>2, <2>3, <2>4, <2>5 DEF TypeOK
<1> QED BY <1>1, Invariance, PTL

\* createDynamoDataStore, createD1DataStore, createPostgresDataStore,
\* createRedisDataStore, KvDataStore and the in-process ports implement DataStore for every
\* mix of calls in Atomic: each call takes effect in one step, or not at all.
THEOREM BackendsImplementPort == Spec => ImplementsDataStore
<1>1. ASSUME Init, Atomic PROVE Port!Init
  <2>1. AtomicPc = [c \in Calls |-> "idle"]
    BY <1>1 DEF Init, CallsInit, AtomicPc, MidFlight
  <2> QED BY <1>1, <2>1
    DEF Init, CallsInit, Port!Init, Port!CallsInit, InitRow, Port!InitRow, NoEnvelope,
        Port!NoEnvelope, Absent, Port!Absent, Live, Port!Live, Dead, Port!Dead
<1>2. ASSUME Inv, [Next]_vars, Atomic PROVE Port!Next \/ UNCHANGED Port!callVars
  <2>1. CASE UNCHANGED vars
    BY <2>1 DEF vars, callVars, Port!callVars, AtomicPc, MidFlight
  <2>2. ASSUME NEW c \in Calls, CallStep(c) PROVE Port!Next \/ UNCHANGED Port!callVars
    <3>1. Typed /\ Takes(c)
      BY <1>2, <2>2, StepFacts DEF Shape
    <3>2. CASE RefStep(c)
      <4>1. \/ Port!Get(c) \/ Port!Create(c) \/ Port!Put(c) \/ Port!Update(c)
            \/ Port!Patch(c) \/ Port!Delete(c)
        BY <3>2, RefStepIsPortStep
      <4> QED BY <4>1 DEF Port!Next
    <3>3. CASE UNCHANGED Reference!callVars
      BY <3>3 DEF Reference!callVars, Port!callVars
    <3>4. CASE Refused(c)
      BY <3>1, <3>4, Refuses DEF Port!Next
    <3> QED BY <3>1, <3>2, <3>3, <3>4 DEF Takes
  <2> QED BY <1>2, <2>1, <2>2 DEF Next
<1> QED BY <1>1, <1>2, Invariance, PTL DEF Spec, ImplementsDataStore

\* Call by call every back-end is the reference, refusals and their kind
\* included.
THEOREM SerialBackendsAreTheReference == Spec => SerialMatchesReference
<1>1. ASSUME Init, serial PROVE Reference!Init
  <2>1. AtomicPc = [c \in Calls |-> "idle"]
    BY <1>1 DEF Init, CallsInit, AtomicPc, MidFlight
  <2> QED BY <1>1, <2>1
    DEF Init, CallsInit, Reference!Init, Reference!CallsInit, InitRow, Reference!InitRow,
        NoEnvelope, Reference!NoEnvelope, Absent, Reference!Absent, Live, Reference!Live,
        Dead, Reference!Dead
<1>2. ASSUME Inv, [Next]_vars, serial PROVE Reference!Next \/ UNCHANGED Reference!callVars
  <2>1. CASE UNCHANGED vars
    BY <2>1 DEF vars, callVars, Reference!callVars, AtomicPc, MidFlight
  <2>2. ASSUME NEW c \in Calls, CallStep(c) PROVE Reference!Next \/ UNCHANGED Reference!callVars
    <3>1. Typed /\ Takes(c) /\ Settles(c) /\ Still(c)
      BY <1>2, <2>2, StepFacts DEF Shape, Inv
    <3>2. CASE RefStep(c)
      BY <3>2 DEF RefStep, Reference!Next
    <3>3. CASE Refused(c)
      <4>1. Lands(c)
        BY <3>1, <3>3 DEF Settles, Refused, Step, Goto, Wins, Commit, CommitDelete, HasGot, Typed
      <4>2. PICK l \in Positions : Step(c, l) /\ Reason(c, l)
        BY <3>1, <4>1 DEF Lands
      <4>3. \A m : Step(c, m) => m = l
        BY <3>1, <4>2 DEF Step, Goto, Typed
      <4>4. Reference!Refuse(c)
        BY <3>1, <3>3, <4>2, <4>3, Refuses DEF Refused, Reason
      <4> QED BY <4>4 DEF Reference!Next
    <3> QED BY <3>1, <3>2, <3>3 DEF Takes
  <2> QED BY <1>2, <2>1, <2>2 DEF Next
<1> QED BY <1>1, <1>2, Invariance, PTL DEF Spec, SerialMatchesReference

\* No adapter tells a caller that its version is stale when it is not
\* (OptimisticConflictError).
THEOREM ConflictsAreNews == Spec => []ConflictsAreReal
<1>1. Inv => ConflictsAreReal
  <2> SUFFICES ASSUME Inv, Atomic \/ backend \in Hashes, soft,
                      NEW c \in Calls, pc[c] = "conflict", kind[c] \in Guarded
               PROVE  row.st = "dead" \/ held[c].ver < row.ver
    BY DEF ConflictsAreReal, NoSpuriousConflict, Hashes
  <2>1. Real(c) /\ row.st \in {"absent", "live", "dead"}
    BY DEF Inv, Shape, Typed, Row
  <2> QED BY <2>1 DEF Real, RealAt
<1> QED BY <1>1, Invariance, PTL

-----------------------------------------------------------------------------
(* Finite sets of keys: least and greatest members, and the n least.       *)

LEMMA LeastNatural ==
    ASSUME NEW T \in SUBSET Nat, T # {}
    PROVE  \E x \in T : \A y \in T : x <= y
<1>1. PICK x \in T : \A y \in T : ~(<<y, x>> \in OpToRel(<, Nat))
  BY WFMin, NatLessThanWellFounded
<1>2. \A y \in T : ~(y < x)
  BY <1>1 DEF OpToRel
<1> QED BY <1>2

\* A set of keys is finite.
LEMMA KeysFinite ==
    ASSUME NEW S \in SUBSET Keys
    PROVE  IsFiniteSet(S) /\ Cardinality(S) \in Nat /\ S \subseteq Nat
<1>1. MaxKey \in Nat
  BY ListAssumption
<1>2. IsFiniteSet(Keys)
  BY <1>1, FS_Interval DEF Keys
<1>3. IsFiniteSet(S)
  BY <1>2, FS_Subset
<1>4. Cardinality(S) \in Nat
  BY <1>3, FS_CardinalityType
<1>5. S \subseteq Nat
  BY <1>1 DEF Keys
<1> QED BY <1>3, <1>4, <1>5

\* Min and Max of keys are what their names say.
LEMMA MinFacts ==
    ASSUME NEW S \in SUBSET Keys, S # {}
    PROVE  Min(S) \in S /\ \A j \in S : Min(S) <= j
<1>1. S \in SUBSET Nat
  BY KeysFinite
<1>2. \E x \in S : \A y \in S : x <= y
  BY <1>1, LeastNatural
<1> QED BY <1>2 DEF Min

LEMMA MaxFacts ==
    ASSUME NEW S \in SUBSET Keys, S # {}
    PROVE  Max(S) \in S /\ \A j \in S : j <= Max(S)
<1> DEFINE T == {n \in Nat : \E j \in S : n = MaxKey - j}
<1>1. MaxKey \in Nat
  BY ListAssumption
<1>2. \A j \in S : j \in Nat /\ MaxKey - j \in Nat
  BY <1>1 DEF Keys
<1>3. T # {} /\ T \in SUBSET Nat
  BY <1>2
<1>4. PICK x \in T : \A y \in T : x <= y
  <2> HIDE DEF T
  <2> QED BY <1>3, LeastNatural
<1>5. PICK m \in S : x = MaxKey - m
  BY <1>4
<1>6. \A j \in S : j <= m
  <2>1. SUFFICES ASSUME NEW j \in S PROVE j <= m
    OBVIOUS
  <2>2. MaxKey - j \in T
    BY <1>2, <2>1
  <2>3. x <= MaxKey - j
    BY <1>4, <2>2
  <2>4. j \in Nat /\ m \in Nat
    BY <1>2
  <2> QED BY <2>3, <2>4, <1>5, <1>1
<1>7. \E a \in S : \A j \in S : a >= j
  <2>1. \A j \in S : m >= j
    BY <1>6, <1>2
  <2> QED BY <2>1
<1>8. Max(S) \in S /\ \A j \in S : Max(S) >= j
  BY <1>7 DEF Max
<1>9. Max(S) \in Nat
  BY <1>8, <1>2
<1> QED BY <1>8, <1>9, <1>2

\* The members of S before k.
Below(S, k) == {j \in S : j < k}

\* Least(S, n) is a piece of S from its start, of n members if S has them.
IsStart(L, S) ==
    /\ L \in SUBSET S
    /\ \A k \in L, j \in S : j < k => j \in L

LEMMA LeastStart ==
    ASSUME NEW S \in SUBSET Keys, NEW n \in Int
    PROVE  IsStart(Least(S, n), S) /\ Least(S, n) \in SUBSET Keys
<1>1. Least(S, n) \in SUBSET S
  BY DEF Least
<1>2. ASSUME NEW k \in Least(S, n), NEW j \in S, j < k PROVE j \in Least(S, n)
  <2>1. k \in S /\ Cardinality(Below(S, k)) < n
    BY <1>2 DEF Least, Below
  <2>2. k \in Nat /\ j \in Nat /\ \A i \in S : i \in Nat
    BY KeysFinite, <2>1
  <2>3. Below(S, j) \in SUBSET Below(S, k) /\ Below(S, k) \in SUBSET Keys
    <3>1. \A i \in S : i < j => i < k
      BY <2>2, <1>2
    <3> QED BY <3>1 DEF Below
  <2>4. Cardinality(Below(S, j)) <= Cardinality(Below(S, k))
    BY <2>3, KeysFinite, FS_Subset
  <2>5. Cardinality(Below(S, j)) \in Nat /\ Cardinality(Below(S, k)) \in Nat
    BY <2>3, KeysFinite
  <2>6. Cardinality(Below(S, j)) < n
    BY <2>1, <2>4, <2>5
  <2> QED BY <2>6 DEF Least, Below
<1> QED BY <1>1, <1>2 DEF IsStart

\* Fewer than n of them: that is all there are.
LEMMA LeastAll ==
    ASSUME NEW S \in SUBSET Keys, NEW n \in Nat, Cardinality(Least(S, n)) < n
    PROVE  Least(S, n) = S
<1> DEFINE R == S \ Least(S, n)
<1>0. R \in SUBSET Keys /\ S \in SUBSET Nat /\ Least(S, n) \in SUBSET Keys
  BY KeysFinite, LeastStart
<1>1. SUFFICES ASSUME R # {} PROVE FALSE
  BY DEF Least
<1>2. Min(R) \in R /\ \A j \in R : Min(R) <= j
  BY <1>0, <1>1, MinFacts
<1>3. Below(S, Min(R)) \in SUBSET Least(S, n)
  <2> SUFFICES ASSUME NEW j \in S, j < Min(R) PROVE j \in Least(S, n)
    BY DEF Below
  <2>1. j \in Nat /\ Min(R) \in Nat
    BY <1>0, <1>2
  <2> QED BY <1>2, <2>1
<1>4. ~(Cardinality(Below(S, Min(R))) < n)
  BY <1>2 DEF Least, Below
<1>5. /\ Cardinality(Below(S, Min(R))) <= Cardinality(Least(S, n))
      /\ Cardinality(Below(S, Min(R))) \in Nat /\ Cardinality(Least(S, n)) \in Nat
  BY <1>0, <1>3, KeysFinite, FS_Subset
<1> QED BY <1>4, <1>5

\* At most n.
LEMMA LeastBound ==
    ASSUME NEW S \in SUBSET Keys, NEW n \in Nat
    PROVE  Cardinality(Least(S, n)) <= n
<1> DEFINE L == Least(S, n)
<1>0. L \in SUBSET Keys /\ S \in SUBSET Nat /\ L \in SUBSET S
  BY KeysFinite, LeastStart DEF IsStart
<1>1. CASE L = {}
  BY <1>1, FS_EmptySet
<1>2. CASE L # {}
  <2>1. Max(L) \in L /\ \A j \in L : j <= Max(L)
    BY <1>0, <1>2, MaxFacts
  <2>2. Cardinality(Below(S, Max(L))) < n
    BY <2>1 DEF Least, Below
  <2>3. L \in SUBSET (Below(S, Max(L)) \cup {Max(L)})
    <3> SUFFICES ASSUME NEW j \in L, j # Max(L) PROVE j < Max(L) /\ j \in S
      BY DEF Below
    <3>1. j \in Nat /\ Max(L) \in Nat /\ j \in S
      BY <1>0, <2>1
    <3> QED BY <2>1, <3>1
  <2>4. Below(S, Max(L)) \in SUBSET Keys
    BY DEF Below
  <2>5. /\ IsFiniteSet(Below(S, Max(L)) \cup {Max(L)})
        /\ Cardinality(Below(S, Max(L)) \cup {Max(L)}) <= Cardinality(Below(S, Max(L))) + 1
        /\ Cardinality(Below(S, Max(L)) \cup {Max(L)}) \in Nat
        /\ Cardinality(Below(S, Max(L))) \in Nat
    <3>1. IsFiniteSet(Below(S, Max(L))) /\ Cardinality(Below(S, Max(L))) \in Nat
      BY <2>4, KeysFinite
    <3> QED BY <3>1, FS_AddElement, FS_CardinalityType
  <2>6. Cardinality(L) <= Cardinality(Below(S, Max(L)) \cup {Max(L)}) /\ Cardinality(L) \in Nat
    BY <2>3, <2>5, FS_Subset, <1>0, KeysFinite
  <2> QED BY <2>2, <2>5, <2>6
<1> QED BY <1>1, <1>2

\* A set of no more than n is its own n least.
LEMMA LeastWhole ==
    ASSUME NEW S \in SUBSET Keys, NEW n \in Nat, Cardinality(S) <= n
    PROVE  Least(S, n) = S
<1> SUFFICES ASSUME NEW k \in S PROVE Cardinality(Below(S, k)) < n
  BY DEF Least, Below
<1>1. Below(S, k) \in SUBSET S /\ Below(S, k) # S /\ S \in SUBSET Nat
  BY KeysFinite DEF Below
<1>2. IsFiniteSet(S) /\ Cardinality(S) \in Nat /\ Cardinality(Below(S, k)) \in Nat
  BY <1>1, KeysFinite
<1>3. Cardinality(Below(S, k)) <= Cardinality(S) /\ Cardinality(S) # Cardinality(Below(S, k))
  BY <1>1, <1>2, FS_Subset
<1> QED BY <1>2, <1>3

\* Some of something is something.
LEMMA LeastSome ==
    ASSUME NEW S \in SUBSET Keys, NEW n \in Nat, n > 0, S # {}
    PROVE  Least(S, n) # {}
<1>1. Min(S) \in S /\ \A j \in S : Min(S) <= j
  BY MinFacts
<1>2. S \in SUBSET Nat
  BY KeysFinite
<1>3. Below(S, Min(S)) = {}
  <2> SUFFICES ASSUME NEW j \in S PROVE ~(j < Min(S))
    BY DEF Below
  <2>1. Min(S) \in Nat /\ j \in Nat /\ Min(S) <= j
    BY <1>1, <1>2
  <2> QED BY <2>1
<1>4. Cardinality(Below(S, Min(S))) = 0
  BY <1>3, FS_EmptySet
<1> QED BY <1>1, <1>4 DEF Least, Below

-----------------------------------------------------------------------------
(* The inductive invariant.                                                *)

Open == phase \in {"idle", "reading"}

\* A record that has matched all along matches, in the table and in its copy.
SteadyMatch == steady \subseteq Matching(rows) /\ steady \subseteq Matching(replica)

\* Redis's sets leave out no record, whatever the names of numbers.
SetsCover ==
    config.backend = "redis" =>
        /\ scopeSet = {k \in Keys : IsLive(rows[k])}
        /\ \A v \in Values : {k \in Keys : rows[k] = v} \subseteq valueSets[JsName(v)]

\* What has been returned is behind the cursor, ...
Behind == Open => \A k \in Keys : returned[k] >= 1 => k <= cursor

\* ... and nothing steady that is behind it is left to return.
Complete ==
    ~cut => \A k \in steady : phase = "done" \/ (Open /\ k <= cursor) => returned[k] >= 1

\* Only Redis counts page after page.
OnePage == (Open /\ config.op = "count" /\ config.backend # "redis") => cursor = 0

\* A page p in the making: past the cursor, what is read before what is not.
Ahead(p) ==
    /\ \A k \in p.items \cup p.todo : cursor < k
    /\ \A i \in p.items, t \in p.todo : i < t

\* DynamoDB and KV have taken what there is up to p.at, ...
TakenUpTo(p) ==
    /\ cursor <= p.at
    /\ \A k \in p.items \cup p.todo : k <= p.at
    /\ \A k \in steady : cursor < k /\ k <= p.at => k \in p.items \cup p.todo

\* ... Redis, once it has the set, everything.
TakenAll(p) ==
    IF p.drained
    THEN \A k \in steady : cursor < k => k \in p.items \cup p.todo
    ELSE p.items = {} /\ p.todo = {}

KvRoom(p) ==
    /\ Cardinality(p.items) + Cardinality(p.todo) <= Limit
    /\ Cardinality(p.items) < Limit
    /\ p.drained => \A k \in steady : k <= p.at

Pages == [todo : SUBSET Keys, at : Keys \cup {0}, drained : BOOLEAN,
          scanned : Nat, items : SUBSET Keys]

WellMade(p) ==
    /\ p \in Pages
    /\ Cardinality(p.items) <= Limit \/ config.op = "count"
    /\ Ahead(p)
    /\ config.backend \in {"dynamo", "kv"} => TakenUpTo(p)
    /\ config.backend = "dynamo" => p.todo = {}
    /\ config.backend = "redis" => TakenAll(p)
    /\ config.backend = "kv" => KvRoom(p)

PageInv == phase = "reading" => WellMade(page)

\* What has matched in this call is known, and only that is on the page.
Known(p) ==
    /\ p.items \subseteq fresh
    /\ (config.backend = "redis" /\ ByIndex) => p.todo \subseteq fresh

FreshInv ==
    phase = "reading" =>
        /\ Matching(rows) \subseteq fresh
        /\ config.backend = "dynamo" => Matching(replica) \subseteq fresh
        /\ Known(page)

ListInv ==
    /\ ListTypeOK /\ SteadyMatch /\ SetsCover /\ NothingTwice
    /\ Behind /\ Complete /\ OnePage /\ PageInv

StaleInv == IndexAgrees /\ FreshInv

-----------------------------------------------------------------------------
(* The two ways a request of a page goes on: the page ends, or is read on. *)

\* items, ending at next, are a page: all of it ahead of the cursor and up to
\* next, and all that is steady there, unless the scan was cut short.
EndsWell(items, next) ==
    /\ items \in SUBSET Keys /\ next \in Keys \cup {0}
    /\ \A k \in items : cursor < k
    /\ next # 0 => cursor <= next /\ \A k \in items : k <= next
    /\ ~cut' => \A k \in steady : cursor < k /\ (next = 0 \/ k <= next) => k \in items
    /\ (config.op = "count" /\ config.backend # "redis") => next = 0
    /\ StaleInv => items \subseteq fresh

ReadsWell(p) == WellMade(p) /\ cut' = cut /\ (StaleInv => Known(p))

Advance ==
    /\ phase = "reading" /\ Unstored /\ fresh' = fresh
    /\ cut' \in BOOLEAN /\ (cut => cut')
    /\ \/ \E items, next : Finish(items, next) /\ EndsWell(items, next)
       \/ \E p : Reading(p) /\ ReadsWell(p)

LEMMA KeyNat == /\ Keys \subseteq Nat /\ \A k \in Keys : 0 < k
                /\ MaxKey \in Nat /\ Limit \in Nat /\ 0 < Limit /\ 1 <= Limit
                /\ ScanCap \in Nat /\ 0 < ScanCap
BY ListAssumption DEF Keys

LEMMA NoPageSound == NoPage \in Pages /\ Cardinality(NoPage.items) <= Limit
<1>1. NoPage.items = {} /\ NoPage \in Pages
  BY DEF NoPage, Pages
<1> QED BY <1>1, FS_EmptySet, KeyNat

\* A page that ends well keeps the invariant.
LEMMA FinishKeeps ==
    ASSUME ListInv, phase = "reading", Unstored, fresh' = fresh,
           cut' \in BOOLEAN, cut => cut',
           NEW items, NEW next, Finish(items, next), EndsWell(items, next)
    PROVE  ListInv'
<1> USE DEF ListInv
<1>0. /\ items \in SUBSET Keys /\ next \in Keys \cup {0}
      /\ UNCHANGED <<config, rows, replica, scopeSet, valueSets, writes, steady>>
  BY DEF EndsWell, Unstored, storeVars
<1>1. /\ returned' = [k \in Keys |-> returned[k] + IF k \in items THEN 1 ELSE 0]
      /\ cursor' = next /\ page' = NoPage /\ phase' \in {"done", "idle"}
      /\ (next = 0 => phase' = "done") /\ (next # 0 => phase' = "idle")
  BY DEF Finish
<1>2. returned \in [Keys -> Nat] /\ steady \subseteq Keys /\ cursor \in Keys \cup {0}
  BY DEF ListTypeOK
<1>3. \A k \in Keys : returned[k] \in Nat
  BY <1>2
<1>4. \A k \in Keys : /\ k \in items => returned'[k] = returned[k] + 1
                      /\ k \notin items => returned'[k] = returned[k]
  BY <1>1, <1>3
<1>5. \A k \in items : returned[k] = 0
  <2>1. SUFFICES ASSUME NEW k \in items PROVE returned[k] = 0
    OBVIOUS
  <2>2. k \in Keys /\ cursor < k
    BY <1>0 DEF EndsWell
  <2>3. ~(k <= cursor)
    BY <2>2, <1>2, KeyNat
  <2>4. ~(returned[k] >= 1)
    BY <2>2, <2>3 DEF Behind, Open
  <2> QED BY <2>4, <1>3, <2>2
<1>6. ListTypeOK'
  <2>1. returned' \in [Keys -> Nat]
    BY <1>1, <1>3
  <2>2. page' \in Pages /\ Cardinality(page'.items) <= Limit
    BY <1>1, NoPageSound
  <2> QED BY <1>0, <1>1, <2>1, <2>2 DEF ListTypeOK, Pages
<1>7. SteadyMatch' /\ SetsCover'
  BY <1>0 DEF SteadyMatch, SetsCover, Matching, Satisfies, IsLive
<1>8. NothingTwice'
  <2>1. \A k \in Keys : returned'[k] <= 1
    BY <1>3, <1>4, <1>5 DEF NothingTwice
  <2> QED BY <2>1 DEF NothingTwice
<1>9. Behind'
  <2> SUFFICES ASSUME next # 0, NEW k \in Keys, returned'[k] >= 1 PROVE k <= next
    BY <1>1 DEF Behind, Open
  <2>1. CASE k \in items
    BY <2>1 DEF EndsWell
  <2>2. CASE k \notin items
    <3>1. k <= cursor
      BY <1>4, <2>2 DEF Behind, Open
    <3>2. cursor <= next
      BY DEF EndsWell
    <3> QED BY <3>1, <3>2, <1>0, <1>2, KeyNat
  <2> QED BY <2>1, <2>2
<1>10. Complete'
  <2> SUFFICES ASSUME ~cut', NEW k \in steady, next = 0 \/ k <= next PROVE returned'[k] >= 1
    BY <1>0, <1>1 DEF Complete, Open
  <2>0. k \in Keys
    BY <1>2
  <2>1. CASE k <= cursor
    <3>1. returned[k] >= 1
      BY <2>1, <2>0 DEF Complete, Open
    <3> QED BY <3>1, <2>0, <1>3, <1>4
  <2>2. CASE ~(k <= cursor)
    <3>1. cursor < k
      BY <2>2, <2>0, <1>2, KeyNat
    <3>2. k \in items
      BY <3>1 DEF EndsWell
    <3> QED BY <3>2, <2>0, <1>3, <1>4
  <2> QED BY <2>1, <2>2
<1>11. OnePage'
  BY <1>0, <1>1 DEF OnePage, Open, EndsWell
<1>12. PageInv'
  BY <1>1 DEF PageInv
<1> QED BY <1>6, <1>7, <1>8, <1>9, <1>10, <1>11, <1>12

\* So does one read on.
LEMMA ReadingKeeps ==
    ASSUME ListInv, phase = "reading", Unstored, fresh' = fresh,
           NEW p, Reading(p), ReadsWell(p)
    PROVE  ListInv'
<1> USE DEF ListInv
<1>1. /\ UNCHANGED <<config, rows, replica, scopeSet, valueSets, writes, steady>>
      /\ page' = p /\ UNCHANGED <<phase, cursor, returned, cut>>
  BY DEF Unstored, storeVars, Reading, ReadsWell
<1>2. WellMade(p)' /\ page' \in Pages /\ (Cardinality(page'.items) <= Limit \/ config.op = "count")
  <2>1. WellMade(p)
    BY DEF ReadsWell
  <2> QED BY <2>1, <1>1 DEF WellMade, Ahead, TakenUpTo, TakenAll, KvRoom
<1>3. ListTypeOK'
  BY <1>1, <1>2 DEF ListTypeOK, Pages
<1>4. PageInv'
  BY <1>1, <1>2 DEF PageInv, WellMade, Ahead, TakenUpTo, TakenAll, KvRoom
<1>5. /\ SteadyMatch' /\ SetsCover' /\ NothingTwice' /\ Behind' /\ Complete' /\ OnePage'
  BY <1>1 DEF SteadyMatch, SetsCover, NothingTwice, Behind, Complete, OnePage, Open,
              Matching, Satisfies, IsLive
<1> QED BY <1>3, <1>4, <1>5

LEMMA AdvanceKeeps == ListInv /\ Advance => ListInv'
<1> SUFFICES ASSUME ListInv, Advance PROVE ListInv'
  OBVIOUS
<1>0. phase = "reading" /\ Unstored /\ fresh' = fresh /\ cut' \in BOOLEAN /\ (cut => cut')
  BY DEF Advance
<1>1. CASE \E items, next : Finish(items, next) /\ EndsWell(items, next)
  BY <1>0, <1>1, FinishKeeps
<1>2. CASE \E p : Reading(p) /\ ReadsWell(p)
  BY <1>0, <1>2, ReadingKeeps
<1> QED BY <1>1, <1>2 DEF Advance

LEMMA AdvanceKnows ==
    ASSUME ListTypeOK, StaleInv, Advance
    PROVE  StaleInv' /\ \A k \in Keys : returned'[k] > returned[k] => k \in fresh
<1>0. /\ UNCHANGED <<config, rows, replica, scopeSet, valueSets, fresh>>
      /\ phase = "reading" /\ returned \in [Keys -> Nat]
  BY DEF Advance, Unstored, storeVars, ListTypeOK
<1>1. IndexAgrees'
  BY <1>0 DEF StaleInv, IndexAgrees, IsLive
<1>2. CASE \E items, next : Finish(items, next) /\ EndsWell(items, next)
  <2>1. PICK items, next : Finish(items, next) /\ EndsWell(items, next)
    BY <1>2
  <2>2. phase' # "reading"
    BY <2>1 DEF Finish
  <2>3. FreshInv'
    BY <2>2 DEF FreshInv
  <2>4. items \subseteq fresh
    BY <2>1 DEF EndsWell
  <2>5. ASSUME NEW k \in Keys, returned'[k] > returned[k] PROVE k \in fresh
    <3>1. returned'[k] = returned[k] + IF k \in items THEN 1 ELSE 0
      BY <2>1 DEF Finish
    <3>2. returned[k] \in Nat
      BY <1>0
    <3>3. k \in items
      BY <3>1, <3>2, <2>5
    <3> QED BY <3>3, <2>4
  <2> QED BY <1>1, <2>3, <2>5 DEF StaleInv
<1>3. CASE \E p : Reading(p) /\ ReadsWell(p)
  <2>1. PICK p : Reading(p) /\ ReadsWell(p)
    BY <1>3
  <2>2. page' = p /\ phase' = "reading" /\ returned' = returned
    BY <2>1, <1>0 DEF Reading
  <2>3. Known(p)
    BY <2>1 DEF ReadsWell
  <2>4. FreshInv'
    BY <1>0, <2>2, <2>3 DEF StaleInv, FreshInv, Known, Matching, Satisfies, IsLive, ByIndex
  <2>5. \A k \in Keys : ~(returned'[k] > returned[k])
    BY <2>2, <1>0
  <2> QED BY <1>1, <2>4, <2>5 DEF StaleInv
<1> QED BY <1>2, <1>3 DEF Advance

-----------------------------------------------------------------------------
(* The beginning, the requests, and what goes on beside them.              *)

LEMMA ListInitInv == ListInit => ListInv /\ StaleInv
<1> SUFFICES ASSUME ListInit PROVE ListInv /\ StaleInv
  OBVIOUS
<1> USE DEF ListInit
<1>1. config \in Config /\ rows \in [Keys -> States] /\ replica = rows
  BY DEF States
<1>2. ListTypeOK
  <2>1. scopeSet \subseteq Keys /\ valueSets \in [SetNames -> SUBSET Keys]
    OBVIOUS
  <2>2. steady \subseteq Keys
    BY DEF Matching
  <2>3. page \in Pages /\ Cardinality(page.items) <= Limit
    BY NoPageSound
  <2>4. returned \in [Keys -> Nat] /\ writes \in 0 .. MaxWrites
    BY ListAssumption
  <2> QED BY <1>1, <2>1, <2>2, <2>3, <2>4 DEF ListTypeOK, Pages
<1>3. SteadyMatch
  BY <1>1 DEF SteadyMatch
<1>4. \A v \in Values : valueSets[JsName(v)] = {k \in Keys : rows[k] = v}
  <2> SUFFICES ASSUME NEW v \in Values PROVE valueSets[v] = {k \in Keys : rows[k] = v}
    BY DEF JsName
  <2>1. v \in SetNames
    BY DEF SetNames, JsName
  <2>2. valueSets[v] = {k \in scopeSet : rows[k] = v}
    BY <2>1 DEF JsName
  <2> QED BY <2>2 DEF IsLive
<1>5. SetsCover /\ IndexAgrees
  BY <1>4 DEF SetsCover, IndexAgrees
<1>6. NothingTwice /\ Behind /\ Complete /\ OnePage
  <2>1. \A k \in steady : k \in Keys /\ ~(k <= cursor)
    BY <1>2, KeyNat DEF ListTypeOK
  <2> QED BY <2>1 DEF NothingTwice, Behind, Complete, OnePage, Open
<1> QED BY <1>2, <1>3, <1>5, <1>6 DEF ListInv, StaleInv, PageInv, FreshInv

\* A page is asked for.
LEMMA AskKeeps == ListInv /\ Ask => ListInv' /\ (StaleInv => StaleInv')
<1> SUFFICES ASSUME ListInv, Ask PROVE ListInv' /\ (StaleInv => StaleInv')
  OBVIOUS
<1> USE DEF ListInv
<1>1. /\ phase = "idle" /\ phase' = "reading"
      /\ UNCHANGED <<config, rows, replica, scopeSet, valueSets, writes, cursor, returned, steady, cut>>
      /\ fresh' = Matching(rows) \cup IF config.backend = "dynamo" THEN Matching(replica) ELSE {}
  BY DEF Ask, storeVars
<1>2. cursor \in Keys \cup {0} /\ page' = [NoPage EXCEPT !.at = cursor]
  BY DEF Ask, ListTypeOK
<1>3. /\ page' \in Pages /\ page'.items = {} /\ page'.todo = {} /\ page'.at = cursor
      /\ page'.drained = FALSE
  BY <1>2 DEF NoPage, Pages
<1>4. Cardinality(page'.items) = 0 /\ Cardinality(page'.todo) = 0
  BY <1>3, FS_EmptySet
<1>5. fresh' \subseteq Keys
  BY <1>1 DEF Matching
<1>6. ListTypeOK'
  <2>1. Cardinality(page'.items) <= Limit
    BY <1>4, KeyNat
  <2> QED BY <1>1, <1>3, <1>5, <2>1 DEF ListTypeOK, Pages
<1>7. PageInv'
  <2>0. cursor' = cursor /\ cursor \in Nat /\ steady' = steady /\ steady \subseteq Nat
    BY <1>1, <1>2, KeyNat DEF ListTypeOK
  <2>1. Ahead(page)'
    BY <1>3 DEF Ahead
  <2>2. TakenUpTo(page)'
    BY <1>3, <2>0 DEF TakenUpTo
  <2>3. TakenAll(page)'
    BY <1>3 DEF TakenAll
  <2>4. KvRoom(page)'
    BY <1>3, <1>4, KeyNat DEF KvRoom
  <2>5. Cardinality(page'.items) <= Limit
    BY <1>4, KeyNat
  <2> QED BY <1>3, <2>1, <2>2, <2>3, <2>4, <2>5 DEF PageInv, WellMade
<1>8. /\ SteadyMatch' /\ SetsCover' /\ NothingTwice' /\ Behind' /\ Complete' /\ OnePage'
  BY <1>1 DEF SteadyMatch, SetsCover, NothingTwice, Behind, Complete, OnePage, Open,
              Matching, Satisfies, IsLive
<1>9. ASSUME StaleInv PROVE StaleInv'
  <2>1. IndexAgrees'
    BY <1>1, <1>9 DEF StaleInv, IndexAgrees, IsLive
  <2>2. FreshInv'
    BY <1>1, <1>3 DEF FreshInv, Known, Matching, Satisfies, IsLive, ByIndex
  <2> QED BY <2>1, <2>2 DEF StaleInv
<1> QED BY <1>6, <1>7, <1>8, <1>9

LEMMA RefuseKeeps == ListInv /\ Refuse => ListInv' /\ (StaleInv => StaleInv')
<1> SUFFICES ASSUME ListInv, Refuse PROVE ListInv' /\ (StaleInv => StaleInv')
  OBVIOUS
<1> USE DEF ListInv
<1>1. /\ phase = "reading" /\ phase' = "refused" /\ page' = NoPage
      /\ UNCHANGED <<config, rows, replica, scopeSet, valueSets, writes, cursor, returned, steady, cut, fresh>>
  BY DEF Refuse, Unscannable, Unstored, storeVars
<1>2. ListTypeOK'
  BY <1>1, NoPageSound DEF ListTypeOK, Pages
<1>3. /\ SteadyMatch' /\ SetsCover' /\ NothingTwice' /\ Behind' /\ Complete' /\ OnePage' /\ PageInv'
  BY <1>1 DEF SteadyMatch, SetsCover, NothingTwice, Behind, Complete, OnePage, Open, PageInv,
              Matching, Satisfies, IsLive
<1>4. ASSUME StaleInv PROVE StaleInv'
  BY <1>1, <1>4 DEF StaleInv, FreshInv, IndexAgrees, IsLive
<1> QED BY <1>2, <1>3, <1>4

\* Fewer steady records ask for less.
LEMMA FewerSteady ==
    ASSUME ListInv, steady' \subseteq steady,
           UNCHANGED <<config, phase, cursor, page, returned, cut>>
    PROVE  NothingTwice' /\ Behind' /\ Complete' /\ OnePage' /\ PageInv'
<1> USE DEF ListInv
<1>1. NothingTwice' /\ Behind' /\ Complete' /\ OnePage'
  BY DEF NothingTwice, Behind, Complete, OnePage, Open
<1>2. ASSUME phase = "reading" PROVE WellMade(page)'
  <2>1. WellMade(page)
    BY <1>2 DEF PageInv
  <2>2. TakenAll(page) => TakenAll(page)'
    BY DEF TakenAll
  <2>3. TakenUpTo(page) => TakenUpTo(page)'
    BY DEF TakenUpTo
  <2>4. KvRoom(page) => KvRoom(page)'
    BY DEF KvRoom
  <2>5. Ahead(page) => Ahead(page)'
    BY DEF Ahead
  <2> QED BY <2>1, <2>2, <2>3, <2>4, <2>5 DEF WellMade
<1> QED BY <1>1, <1>2 DEF PageInv

\* The copy catches up.
LEMMA PropagateKeeps ==
    ASSUME ListInv, NEW k \in Keys, Propagate(k)
    PROVE  ListInv' /\ (StaleInv => StaleInv')
<1> USE DEF ListInv
<1>1. /\ UNCHANGED <<config, rows, scopeSet, valueSets, writes, phase, cursor, page, returned, cut>>
      /\ replica' = [replica EXCEPT ![k] = rows[k]]
      /\ steady' = steady \cap Matching(replica') /\ fresh' = fresh \cup Matching(replica')
  BY DEF Propagate
<1>2. ListTypeOK'
  <2>1. replica' \in [Keys -> States]
    BY <1>1 DEF ListTypeOK
  <2>2. steady' \subseteq Keys /\ fresh' \subseteq Keys
    BY <1>1 DEF ListTypeOK, Matching
  <2> QED BY <1>1, <2>1, <2>2 DEF ListTypeOK
<1>3. NothingTwice' /\ Behind' /\ Complete' /\ OnePage' /\ PageInv'
  BY <1>1, FewerSteady
<1>4. Matching(rows)' = Matching(rows) /\ Matching(replica)' = Matching(replica')
  BY <1>1 DEF Matching, Satisfies, IsLive
<1>5. SteadyMatch' /\ SetsCover'
  BY <1>1, <1>4 DEF SteadyMatch, SetsCover, IsLive
<1>6. ASSUME StaleInv PROVE StaleInv'
  <2>1. IndexAgrees'
    BY <1>1, <1>6 DEF StaleInv, IndexAgrees, IsLive
  <2>2. FreshInv'
    BY <1>1, <1>4, <1>6 DEF StaleInv, FreshInv, Known, ByIndex
  <2> QED BY <2>1, <2>2 DEF StaleInv
<1> QED BY <1>2, <1>3, <1>5, <1>6

\* What CAS_LUA does to the sets.
LEMMA ReindexCovers ==
    ASSUME ListTypeOK, NEW k \in Keys, NEW st \in States, Reindex(k, st),
           rows' = [rows EXCEPT ![k] = st], SetsCover, config.backend = "redis",
           config' = config
    PROVE  /\ SetsCover' /\ scopeSet' \subseteq Keys /\ valueSets' \in [SetNames -> SUBSET Keys]
           /\ (Respelled = {} /\ IndexAgrees) => IndexAgrees'
<1>1. rows \in [Keys -> States] /\ rows' \in [Keys -> States] /\ rows'[k] = st
  BY DEF ListTypeOK
<1>2. \A j \in Keys : j # k => rows'[j] = rows[j]
  BY <1>1
<1>3. scopeSet' = {j \in Keys : IsLive(rows'[j])}
  BY <1>1, <1>2 DEF Reindex, SetsCover, IsLive
<1>4. valueSets' \in [SetNames -> SUBSET Keys]
  BY DEF Reindex, ListTypeOK
<1>5. \A v \in Values : v \in SetNames /\
        valueSets'[v] = (IF v \in OldSets(k) THEN valueSets[v] \ {k} ELSE valueSets[v])
                        \cup IF v \in NewSets(st) THEN {k} ELSE {}
  BY DEF Reindex, SetNames, JsName
<1>6. \A v \in Values : v \in NewSets(st) <=> v = st
  BY DEF NewSets, JsName, IsLive
<1>7. \A v \in Values : {j \in Keys : rows'[j] = v} \subseteq valueSets'[v]
  <2> SUFFICES ASSUME NEW v \in Values, NEW j \in Keys, rows'[j] = v PROVE j \in valueSets'[v]
    OBVIOUS
  <2>1. CASE j = k
    BY <2>1, <1>1, <1>5, <1>6
  <2>2. CASE j # k
    <3>1. j \in valueSets[v]
      BY <2>2, <1>2 DEF SetsCover, JsName
    <3> QED BY <3>1, <2>2, <1>5
  <2> QED BY <2>1, <2>2
<1>8. SetsCover'
  BY <1>3, <1>7 DEF SetsCover, JsName, IsLive
<1>9. ASSUME Respelled = {}, IndexAgrees PROVE IndexAgrees'
  <2>1. \A v \in Values : v \in OldSets(k) <=> v = rows[k]
    BY <1>9 DEF OldSets, LuaName, JsName, IsLive
  <2>2. ASSUME NEW v \in Values PROVE valueSets'[v] = {j \in Keys : rows'[j] = v}
    <3>1. valueSets[v] = {j \in Keys : rows[j] = v}
      BY <1>9 DEF IndexAgrees, JsName
    <3>2. {j \in Keys : rows'[j] = v} = ({j \in Keys : rows[j] = v} \ {k}) \cup IF v = st THEN {k} ELSE {}
      BY <1>1, <1>2
    <3>3. CASE v = rows[k]
      BY <3>1, <3>2, <3>3, <2>1, <1>5, <1>6
    <3>4. CASE v # rows[k]
      <4>1. k \notin valueSets[v]
        BY <3>1, <3>4
      <4> QED BY <4>1, <3>1, <3>2, <3>4, <2>1, <1>5, <1>6
    <3> QED BY <3>3, <3>4
  <2> QED BY <2>2, <1>3 DEF IndexAgrees, JsName, IsLive
<1> QED BY <1>3, <1>4, <1>8, <1>9

\* Another request writes.
LEMMA WriteKeeps ==
    ASSUME ListInv, NEW k \in Keys, NEW st \in States, Write(k, st)
    PROVE  ListInv' /\ (Respelled = {} /\ StaleInv => StaleInv')
<1> USE DEF ListInv
<1>1. /\ UNCHANGED <<config, replica, phase, cursor, page, returned, cut>>
      /\ rows' = [rows EXCEPT ![k] = st]
      /\ steady' = steady \cap Matching(rows') /\ fresh' = fresh \cup Matching(rows')
      /\ IF config.backend = "redis" THEN Reindex(k, st) ELSE UNCHANGED <<scopeSet, valueSets>>
  BY DEF Write
<1>2. /\ SetsCover' /\ scopeSet' \subseteq Keys /\ valueSets' \in [SetNames -> SUBSET Keys]
      /\ (Respelled = {} /\ IndexAgrees) => IndexAgrees'
  <2>1. CASE config.backend = "redis"
    BY <1>1, <2>1, ReindexCovers
  <2>2. CASE config.backend # "redis"
    BY <1>1, <2>2 DEF SetsCover, IndexAgrees, ListTypeOK
  <2> QED BY <2>1, <2>2
<1>3. writes' \in 0 .. MaxWrites
  <2>1. writes \in 0 .. MaxWrites /\ MaxWrites \in Nat /\ writes < MaxWrites /\ writes' = writes + 1
    BY ListAssumption DEF Write, ListTypeOK
  <2> QED BY <2>1
<1>4. ListTypeOK'
  <2>1. rows' \in [Keys -> States]
    BY <1>1 DEF ListTypeOK
  <2>2. steady' \subseteq Keys /\ fresh' \subseteq Keys
    BY <1>1 DEF ListTypeOK, Matching
  <2> QED BY <1>1, <1>2, <1>3, <2>1, <2>2 DEF ListTypeOK
<1>5. NothingTwice' /\ Behind' /\ Complete' /\ OnePage' /\ PageInv'
  BY <1>1, FewerSteady
<1>6. Matching(rows)' = Matching(rows') /\ Matching(replica)' = Matching(replica)
  BY <1>1 DEF Matching, Satisfies, IsLive
<1>7. SteadyMatch'
  BY <1>1, <1>6 DEF SteadyMatch
<1>8. ASSUME Respelled = {}, StaleInv PROVE StaleInv'
  <2>1. IndexAgrees'
    BY <1>2, <1>8 DEF StaleInv
  <2>2. FreshInv'
    BY <1>1, <1>6, <1>8 DEF StaleInv, FreshInv, Known, ByIndex
  <2> QED BY <2>1, <2>2 DEF StaleInv
<1> QED BY <1>2, <1>4, <1>5, <1>7, <1>8

-----------------------------------------------------------------------------
(* A page of one step: the first Limit of what was found.                  *)

\* The page's end is its last item, and below it nothing is left out.
LEMMA PageOf ==
    ASSUME NEW S \in SUBSET Keys, NEW items, items = Least(S, Limit)
    PROVE  /\ items \in SUBSET S
           /\ S # {} => /\ Max(items) \in items /\ \A k \in items : k <= Max(items)
                        /\ \A k \in S : k <= Max(items) => k \in items
           /\ Cardinality(S) <= Limit => items = S
<1>1. IsStart(items, S) /\ items \in SUBSET Keys /\ items \in SUBSET S
  BY LeastStart, KeyNat DEF IsStart
<1>2. ASSUME S # {} PROVE /\ Max(items) \in items /\ \A k \in items : k <= Max(items)
                          /\ \A k \in S : k <= Max(items) => k \in items
  <2>1. items # {}
    BY <1>2, LeastSome, KeyNat
  <2>2. Max(items) \in items /\ \A k \in items : k <= Max(items)
    BY <1>1, <2>1, MaxFacts
  <2>3. ASSUME NEW k \in S, k <= Max(items) PROVE k \in items
    <3>1. k \in Nat /\ Max(items) \in Nat
      BY <1>1, <2>2, KeyNat
    <3>2. CASE k = Max(items)
      BY <3>2, <2>2
    <3>3. CASE k < Max(items)
      BY <3>3, <2>2, <1>1 DEF IsStart
    <3> QED BY <3>1, <3>2, <3>3, <2>3
  <2> QED BY <2>2, <2>3
<1>3. Cardinality(S) <= Limit => items = S
  BY LeastWhole, KeyNat
<1> QED BY <1>1, <1>2, <1>3

\* More than Limit is not nothing.
LEMMA NotNone == ASSUME NEW S, Cardinality(S) > Limit PROVE S # {}
<1>1. Cardinality({}) = 0
  BY FS_EmptySet
<1>2. S = {} => Cardinality(S) = 0
  BY <1>1
<1> QED BY <1>2, KeyNat

\* While a page is read the cursor and what is steady are these.
LEMMA Reads ==
    ASSUME ListInv
    PROVE  /\ cursor \in Keys \cup {0} /\ cursor \in Nat
           /\ steady \in SUBSET Keys /\ steady \in SUBSET Matching(rows)
           /\ Matching(rows) \in SUBSET Keys /\ Matching(rows) \in SUBSET Stored
           /\ Stored \in SUBSET Keys
           /\ phase = "reading" /\ StaleInv => Matching(rows) \subseteq fresh
<1>1. Matching(rows) \in SUBSET Stored
  BY ListAssumption DEF Matching, Satisfies, IsLive, Stored
<1> QED BY <1>1, KeyNat DEF ListInv, ListTypeOK, SteadyMatch, Matching, Stored, StaleInv, FreshInv

\* The parts of a page.
LEMMA PageFacts ==
    ASSUME ListInv
    PROVE  /\ page \in Pages /\ page.items \in SUBSET Keys /\ page.todo \in SUBSET Keys
           /\ page.at \in Keys \cup {0} /\ page.at \in Nat
           /\ page.scanned \in Nat /\ page.drained \in BOOLEAN
           /\ cursor \in Keys \cup {0} /\ cursor \in Nat /\ steady \in SUBSET Keys
           /\ phase = "reading" => WellMade(page)
<1>1. page \in Pages /\ steady \in SUBSET Keys /\ cursor \in Keys \cup {0}
  BY DEF ListInv, ListTypeOK, Pages
<1>2. /\ page.items \in SUBSET Keys /\ page.todo \in SUBSET Keys /\ page.at \in Keys \cup {0}
      /\ page.scanned \in Nat /\ page.drained \in BOOLEAN
  BY <1>1 DEF Pages
<1>3. page.at \in Nat /\ cursor \in Nat
  <2>1. \A k \in Keys \cup {0} : k \in Nat
    BY KeyNat
  <2> QED BY <2>1, <1>1, <1>2
<1>4. phase = "reading" => WellMade(page)
  BY DEF ListInv, PageInv
<1> QED BY <1>1, <1>2, <1>3, <1>4

LEMMA AfterFacts ==
    ASSUME NEW S \in SUBSET Keys, NEW k
    PROVE  After(S, k) \in SUBSET Keys /\ After(S, k) \in SUBSET S
BY DEF After

\* The first Limit of what matches now, ending at the last of them or at the end.
LEMMA MatchingPage ==
    ASSUME ListInv, phase = "reading", cut' \in BOOLEAN, NEW items, NEW next,
           items = Least(After(Matching(rows), cursor), Limit),
           \/ next = 0 /\ items = After(Matching(rows), cursor)
           \/ next = Max(items) /\ After(Matching(rows), cursor) # {},
           config.op = "list"
    PROVE  EndsWell(items, next)
<1> DEFINE hits == After(Matching(rows), cursor)
<1>1. hits \in SUBSET Keys /\ \A k \in steady : cursor < k => k \in hits
  BY Reads DEF After
<1>2. \A k \in hits : cursor < k /\ k \in Matching(rows)
  BY DEF After
<1>3. /\ items \in SUBSET hits
      /\ hits # {} => /\ Max(items) \in items /\ \A k \in items : k <= Max(items)
                      /\ \A k \in hits : k <= Max(items) => k \in items
  <2> HIDE DEF hits
  <2>1. items = Least(hits, Limit)
    BY DEF hits
  <2> QED BY <1>1, <2>1, PageOf
<1>4. next # 0 => next \in items /\ hits # {}
  BY <1>3
<1>5. next \in Keys \cup {0}
  BY <1>1, <1>3, <1>4
<1>6. next # 0 => cursor <= next /\ \A k \in items : k <= next
  <2> SUFFICES ASSUME next # 0 PROVE cursor <= next /\ \A k \in items : k <= next
    OBVIOUS
  <2>1. next = Max(items) /\ next \in items
    BY <1>4
  <2>2. cursor < next /\ next \in Nat /\ cursor \in Nat
    BY <2>1, <1>1, <1>2, <1>3, Reads, KeyNat
  <2> QED BY <2>1, <2>2, <1>3, <1>4
<1>7. \A k \in steady : cursor < k /\ (next = 0 \/ k <= next) => k \in items
  <2> SUFFICES ASSUME NEW k \in steady, cursor < k, next = 0 \/ k <= next PROVE k \in items
    OBVIOUS
  <2>1. k \in hits
    BY <1>1
  <2>2. CASE next = 0
    <3>1. items = hits
      <4>1. CASE next = Max(items) /\ hits # {}
        BY <4>1, <2>2, <1>1, <1>3, KeyNat
      <4> QED BY <4>1
    <3> QED BY <3>1, <2>1
  <2>3. CASE next # 0
    BY <2>1, <2>3, <1>3, <1>4
  <2> QED BY <2>2, <2>3
<1>8. StaleInv => items \subseteq fresh
  BY <1>2, <1>3, Reads
<1>9. items \in SUBSET Keys /\ \A k \in items : cursor < k
  BY <1>1, <1>2, <1>3
<1> QED BY <1>5, <1>6, <1>7, <1>8, <1>9 DEF EndsWell

\* A count of one page: all that matches.
LEMMA CountPage ==
    ASSUME ListInv, phase = "reading", config.op = "count", config.backend # "redis"
    PROVE  EndsWell(Matching(rows), 0)
<1>1. cursor = 0
  BY DEF ListInv, OnePage, Open
<1>2. \A k \in Matching(rows) : cursor < k
  BY <1>1, Reads, KeyNat
<1> QED BY <1>2, Reads DEF EndsWell

\* What follows from the frame of a read step.
LEMMA Framed ==
    ASSUME ListInv, phase = "reading", Unstored, UNCHANGED <<fresh, cut>>
    PROVE  cut' \in BOOLEAN /\ (cut => cut')
BY DEF ListInv, ListTypeOK

LEMMA ReferenceAdvances == ListInv /\ (ReferenceList \/ ReferenceCount) => Advance
<1> SUFFICES ASSUME ListInv, ReferenceList \/ ReferenceCount PROVE Advance
  OBVIOUS
<1>0. phase = "reading" /\ Unstored /\ UNCHANGED <<fresh, cut>> /\ cut' \in BOOLEAN
  BY DEF ReferenceList, ReferenceCount, InPage, ListInv, ListTypeOK
<1>1. CASE ReferenceList
  <2> DEFINE hits == After(Matching(rows), cursor)
             items == Least(hits, Limit)
             next == IF hits = items THEN 0 ELSE Max(items)
  <2>1. Finish(items, next) /\ config.op = "list"
    BY <1>1 DEF ReferenceList, InPage
  <2>2. hits # items => hits # {}
    <3>1. items \subseteq hits
      BY DEF Least
    <3> QED BY <3>1
  <2>3. EndsWell(items, next)
    BY <1>0, <2>1, <2>2, MatchingPage
  <2> QED BY <1>0, <2>1, <2>3 DEF Advance
<1>2. CASE ReferenceCount
  <2>1. Finish(Matching(rows), 0) /\ config.op = "count" /\ config.backend # "redis"
    BY <1>2 DEF ReferenceCount, InPage
  <2> QED BY <1>0, <2>1, CountPage DEF Advance
<1> QED BY <1>1, <1>2

\* Least of a longer Least.
LEMMA LeastTwice ==
    ASSUME NEW S \in SUBSET Keys, NEW n \in Nat, NEW m \in Nat, n <= m
    PROVE  Least(Least(S, m), n) = Least(S, n)
<1> DEFINE L == Least(S, m)
<1>0. IsStart(L, S) /\ L \in SUBSET Keys /\ S \in SUBSET Nat /\ L \in SUBSET S
  BY LeastStart, KeysFinite DEF IsStart
<1>1. \A k \in L : Below(L, k) = Below(S, k)
  BY <1>0 DEF Below, IsStart
<1>2. \A k \in S : Cardinality(Below(S, k)) \in Nat
  BY KeysFinite DEF Below
<1>3. \A k \in S : Cardinality(Below(S, k)) < n => k \in L
  BY <1>2 DEF Least, Below
<1>4. Least(L, n) = {k \in L : Cardinality(Below(L, k)) < n}
  BY DEF Least, Below
<1>5. Least(S, n) = {k \in S : Cardinality(Below(S, k)) < n}
  BY DEF Least, Below
<1>6. \A k \in L : Cardinality(Below(L, k)) < n <=> Cardinality(Below(S, k)) < n
  BY <1>1
<1>7. Least(L, n) = Least(S, n)
  <2> HIDE DEF L
  <2>1. {k \in L : Cardinality(Below(L, k)) < n} = {k \in S : Cardinality(Below(S, k)) < n}
    BY <1>0, <1>3, <1>6
  <2> QED BY <2>1, <1>4, <1>5
<1> QED BY <1>7

LEMMA SqlAdvances == ListInv /\ (SqlList \/ SqlCount) => Advance
<1> SUFFICES ASSUME ListInv, SqlList \/ SqlCount PROVE Advance
  OBVIOUS
<1>0. phase = "reading" /\ Unstored /\ UNCHANGED <<fresh, cut>> /\ cut' \in BOOLEAN
  BY DEF SqlList, SqlCount, InPage, ListInv, ListTypeOK
<1>1. CASE SqlList
  <2> DEFINE hits == After(Matching(rows), cursor)
             found == Least(hits, Limit + 1)
             items == Least(found, Limit)
             next == IF Cardinality(found) > Limit THEN Max(items) ELSE 0
  <2>0. hits \in SUBSET Keys /\ Limit + 1 \in Nat /\ Limit \in Nat /\ Limit <= Limit + 1
    BY Reads, AfterFacts, KeyNat
  <2>1. Finish(items, next) /\ config.op = "list"
    BY <1>1 DEF SqlList, InPage, SqlPage, SqlRows, SqlWhere
  <2>2. items = Least(hits, Limit) /\ found \in SUBSET hits /\ found \in SUBSET Keys
    <3> HIDE DEF hits
    <3>1. items = Least(hits, Limit)
      BY <2>0, LeastTwice
    <3>2. found \in SUBSET hits /\ found \in SUBSET Keys
      BY <2>0, LeastStart DEF IsStart
    <3> QED BY <3>1, <3>2
  <2>3. Cardinality(found) > Limit => hits # {}
    <3> HIDE DEF hits
    <3> QED BY <2>2, NotNone
  <2>4. ~(Cardinality(found) > Limit) => items = hits
    <3> HIDE DEF hits
    <3>1. Cardinality(found) \in Nat
      BY <2>2, KeysFinite
    <3>2. SUFFICES ASSUME ~(Cardinality(found) > Limit) PROVE items = hits
      OBVIOUS
    <3>3. Cardinality(found) < Limit + 1 /\ Cardinality(found) <= Limit
      BY <3>1, <3>2, <2>0
    <3>4. found = hits
      BY <3>3, <2>0, LeastAll
    <3>5. items = found
      BY <3>3, <2>0, <2>2, LeastWhole
    <3> QED BY <3>4, <3>5
  <2>5. EndsWell(items, next)
    <3> HIDE DEF found
    <3>1. \/ next = 0 /\ items = hits
          \/ next = Max(items) /\ hits # {}
      BY <2>3, <2>4
    <3> QED BY <3>1, <1>0, <2>1, <2>2, MatchingPage
  <2> QED BY <1>0, <2>1, <2>5 DEF Advance
<1>2. CASE SqlCount
  <2>1. Finish(Matching(rows), 0) /\ config.op = "count" /\ config.backend # "redis"
    BY <1>2 DEF SqlCount, InPage, SqlWhere
  <2> QED BY <1>0, <2>1, CountPage DEF Advance
<1> QED BY <1>1, <1>2

-----------------------------------------------------------------------------
(* DynamoDB: the requests of a page.                                       *)

\* What one Query past page.at evaluates: a start of what is there.
Queried(view, ev) ==
    /\ ev \in SUBSET Keys /\ \A k \in ev : page.at < k
    /\ \A k \in steady, j \in ev : page.at < k /\ k <= j => k \in ev
    /\ After(Partition(view), Last(ev, page.at)) = {} => \A k \in steady : page.at < k => k \in ev
    /\ After(Partition(view), Last(ev, page.at)) # {} => ev # {}

LEMMA ViewFacts ==
    ASSUME ListInv, NEW view \in Views
    PROVE  steady \subseteq Matching(view) /\ Matching(view) \subseteq Keys
BY DEF Views, ListInv, SteadyMatch, Matching

LEMMA PartitionFacts ==
    ASSUME ListInv, NEW view \in Views
    PROVE  Partition(view) \in SUBSET Keys /\ steady \in SUBSET Partition(view)
<1>1. Partition(view) \in SUBSET Keys
  BY DEF Partition
<1>2. \A k \in steady : k \in Keys /\ Satisfies(view[k])
  BY ViewFacts DEF Matching
<1>3. \A k \in steady : view[k] # "none" /\ (ByIndex => view[k] = config.want)
  BY <1>2, ListAssumption DEF Satisfies, IsLive, ByIndex
<1> QED BY <1>1, <1>2, <1>3 DEF Partition

LEMMA QueryReads ==
    ASSUME ListInv, NEW view \in Views, page.at \in Keys \cup {0}
    PROVE  Queried(view, Evaluated(view, page.at, Limit + 1))
<1> DEFINE rest == After(Partition(view), page.at)
           ev == Least(rest, Limit + 1)
<1>0. rest \in SUBSET Keys /\ \A k \in rest : page.at < k
  BY PartitionFacts DEF After
<1>1. \A k \in steady : page.at < k => k \in rest
  BY PartitionFacts DEF After
<1>2. Limit + 1 \in Nat /\ 0 < Limit + 1 /\ Limit + 1 \in Int
  BY KeyNat
<1>3. IsStart(ev, rest) /\ ev \in SUBSET Keys /\ ev \in SUBSET rest
  <2> HIDE DEF rest
  <2> QED BY <1>0, <1>2, LeastStart DEF IsStart
<1>4. rest # {} => ev # {}
  <2> HIDE DEF rest
  <2> QED BY <1>0, <1>2, LeastSome
<1>5. \A k \in ev : page.at < k
  BY <1>0, <1>3
<1>6. ASSUME NEW k \in steady, NEW j \in ev, page.at < k, k <= j PROVE k \in ev
  <2>1. k \in rest /\ j \in rest
    BY <1>1, <1>3, <1>6
  <2>2. k \in Nat /\ j \in Nat
    BY <2>1, <1>0, KeyNat
  <2>3. k = j \/ k < j
    BY <2>2, <1>6
  <2> HIDE DEF rest, ev
  <2> QED BY <2>1, <2>3, <1>3 DEF IsStart
<1>7. ASSUME After(Partition(view), Last(ev, page.at)) = {}, NEW k \in steady, page.at < k PROVE k \in ev
  <2>1. k \in rest /\ k \in Partition(view)
    BY <1>1, <1>7, PartitionFacts
  <2>2. ev # {}
    BY <2>1, <1>4
  <2>3. Last(ev, page.at) = Max(ev) /\ Max(ev) \in ev
    BY <2>2, <1>3, MaxFacts DEF Last
  <2>4. ~(k > Max(ev))
    BY <1>7, <2>1, <2>3 DEF After
  <2>5. k \in Nat /\ Max(ev) \in Nat
    BY <2>1, <2>3, <1>0, <1>3, KeyNat
  <2>6. k <= Max(ev)
    BY <2>4, <2>5
  <2> QED BY <1>6, <1>7, <2>3, <2>6
<1>8. ASSUME After(Partition(view), Last(ev, page.at)) # {} PROVE ev # {}
  <2> SUFFICES ASSUME ev = {} PROVE FALSE
    OBVIOUS
  <2>1. Last(ev, page.at) = page.at
    BY DEF Last
  <2>2. rest # {}
    BY <1>8, <2>1
  <2> QED BY <2>2, <1>4
<1>9. Queried(view, ev)
  <2> HIDE DEF ev
  <2> QED BY <1>3, <1>5, <1>6, <1>7, <1>8 DEF Queried
<1> QED BY <1>9 DEF Evaluated

\* A steady record passes the filters, and what passes them is fresh.
LEMMA FilterFacts ==
    ASSUME ListInv, NEW view \in Views, NEW ev \in SUBSET Keys
    PROVE  /\ Served(view, ev) \in SUBSET ev /\ \A k \in ev : k \in steady => k \in Served(view, ev)
           /\ \A X \in SUBSET Keys : /\ Wanted(view, X) \in SUBSET X
                                     /\ \A k \in X : k \in steady => k \in Wanted(view, X)
<1>1. \A k \in steady : IsLive(view[k]) /\ k \in Matching(view)
  BY ViewFacts DEF Matching, Satisfies
<1> QED BY <1>1 DEF Served, Wanted

LEMMA FilterFresh ==
    ASSUME ListInv, StaleInv, phase = "reading", config.backend = "dynamo",
           NEW view \in Views, page.at \in Keys \cup {0},
           NEW X, X \in SUBSET Evaluated(view, page.at, Limit + 1)
    PROVE  Wanted(view, X) \subseteq fresh
<1>1. Matching(view) \subseteq fresh
  BY DEF Views, StaleInv, FreshInv
<1>2. CASE ByIndex
  <2>1. Evaluated(view, page.at, Limit + 1) \in SUBSET Partition(view)
    BY DEF Evaluated, Least, After
  <2>2. \A k \in X : k \in Keys /\ view[k] = config.want
    BY <1>2, <2>1 DEF Partition
  <2>3. config.want \in Values
    BY <1>2 DEF ByIndex, ListInv, ListTypeOK, Config
  <2>4. \A k \in X : k \in Matching(view)
    BY <2>2, <2>3 DEF Matching, Satisfies, IsLive
  <2> QED BY <1>1, <1>2, <2>4 DEF Wanted
<1>3. CASE ~ByIndex
  BY <1>1, <1>3 DEF Wanted
<1> QED BY <1>2, <1>3

\* What a page over DynamoDB has before and after a Query of which within was
\* looked at: it reaches as far as anything in it.
Gathered(view, ev, within, U) ==
    /\ U \in SUBSET Keys /\ \A k \in U : cursor < k
    /\ \A u \in U, k \in steady : cursor < k /\ k <= u => k \in U
    /\ \A k \in U : k \in page.items \/ k \in within
    /\ within = Served(view, ev) => \A k \in steady : cursor < k /\ (k <= page.at \/ k \in ev) => k \in U
    /\ (StaleInv /\ ev = Evaluated(view, page.at, Limit + 1)) => U \subseteq fresh

LEMMA Gathers ==
    ASSUME ListInv, phase = "reading", config.backend = "dynamo", NEW view \in Views,
           NEW ev, Queried(view, ev), NEW within, IsStart(within, Served(view, ev))
    PROVE  Gathered(view, ev, within, page.items \cup Wanted(view, within))
<1> DEFINE U == page.items \cup Wanted(view, within)
<1>0. /\ page.items \in SUBSET Keys /\ page.at \in Keys \cup {0} /\ page.at \in Nat
      /\ cursor \in Nat /\ steady \in SUBSET Keys /\ page.todo = {}
  BY PageFacts DEF WellMade
<1>1. Ahead(page) /\ TakenUpTo(page)
  BY PageFacts DEF WellMade
<1>2. /\ \A k \in page.items : cursor < k /\ k <= page.at
      /\ \A k \in steady : cursor < k /\ k <= page.at => k \in page.items
      /\ cursor <= page.at
  BY <1>0, <1>1 DEF Ahead, TakenUpTo
<1>3. /\ ev \in SUBSET Keys /\ within \in SUBSET Served(view, ev) /\ within \in SUBSET ev /\ within \in SUBSET Keys
      /\ \A k \in ev : k \in steady => k \in Served(view, ev)
  BY FilterFacts DEF Queried, IsStart
<1>4. Wanted(view, within) \in SUBSET within /\ \A k \in within : k \in steady => k \in Wanted(view, within)
  BY <1>3, FilterFacts
<1>5. \A k \in within : page.at < k /\ cursor < k
  <2> SUFFICES ASSUME NEW k \in within PROVE page.at < k /\ cursor < k
    OBVIOUS
  <2>1. page.at < k /\ k \in Nat
    BY <1>3, KeyNat DEF Queried
  <2> QED BY <2>1, <1>0, <1>2
<1>6. ASSUME NEW u \in U, NEW k \in steady, cursor < k, k <= u PROVE k \in U
  <2>0. k \in Nat /\ u \in Nat
    BY <1>0, <1>3, <1>4, KeyNat
  <2>1. CASE k <= page.at
    BY <2>1, <1>2, <1>6
  <2>2. CASE ~(k <= page.at)
    <3>1. page.at < k
      BY <2>0, <2>2, <1>0
    <3>2. u \notin page.items
      <4>1. ~(u <= page.at)
        BY <2>0, <3>1, <1>0, <1>6
      <4> QED BY <4>1, <1>2
    <3>3. u \in within /\ u \in ev
      BY <3>2, <1>3, <1>4
    <3>4. k \in ev
      BY <3>1, <3>3, <1>6 DEF Queried
    <3>5. k \in Served(view, ev)
      BY <3>4, <1>3
    <3>6. k = u \/ k < u
      BY <2>0, <1>6
    <3>7. k \in within
      BY <3>3, <3>5, <3>6 DEF IsStart
    <3> QED BY <3>7, <1>4
  <2> QED BY <2>1, <2>2
<1>7. ASSUME within = Served(view, ev), NEW k \in steady, cursor < k, k <= page.at \/ k \in ev PROVE k \in U
  <2>1. CASE k <= page.at
    BY <2>1, <1>2, <1>7
  <2>2. CASE k \in ev
    BY <2>2, <1>3, <1>4, <1>7
  <2> QED BY <2>1, <2>2, <1>7
<1>8. ASSUME StaleInv, ev = Evaluated(view, page.at, Limit + 1) PROVE U \subseteq fresh
  <2>1. page.items \subseteq fresh
    BY <1>8 DEF StaleInv, FreshInv, Known
  <2>2. Wanted(view, within) \subseteq fresh
    BY <1>0, <1>3, <1>8, FilterFresh
  <2> QED BY <2>1, <2>2
<1>9. U \in SUBSET Keys /\ (\A k \in U : cursor < k) /\ (\A k \in U : k \in page.items \/ k \in within)
  BY <1>0, <1>2, <1>3, <1>4, <1>5
<1> HIDE DEF U
<1>10. Gathered(view, ev, within, U)
  BY <1>6, <1>7, <1>8, <1>9 DEF Gathered
<1> QED BY <1>10 DEF U

\* Read on from the last row evaluated.
LEMMA QueryOn ==
    ASSUME ListInv, phase = "reading", config.backend = "dynamo", NEW view \in Views,
           NEW ev, Queried(view, ev), ev # {}, NEW U, Gathered(view, ev, Served(view, ev), U),
           ev = Evaluated(view, page.at, Limit + 1), NEW n \in Nat, cut' = cut,
           Cardinality(U) <= Limit \/ config.op = "count"
    PROVE  ReadsWell([page EXCEPT !.at = Max(ev), !.items = U, !.scanned = n])
<1> DEFINE p == [page EXCEPT !.at = Max(ev), !.items = U, !.scanned = n]
<1>0. /\ page \in Pages /\ page.todo = {} /\ page.at \in Nat /\ cursor \in Nat
      /\ steady \in SUBSET Keys /\ cursor <= page.at
      /\ \A k \in page.items : k <= page.at /\ k \in Keys /\ k \in Nat
  <2>1. /\ page \in Pages /\ cursor \in Nat /\ steady \in SUBSET Keys
        /\ page.at \in Nat /\ page.items \in SUBSET Keys /\ WellMade(page)
    BY PageFacts
  <2>2. page.todo = {} /\ TakenUpTo(page)
    BY <2>1 DEF WellMade
  <2>3. page.at \in Nat /\ page.items \in SUBSET Keys
    BY <2>1
  <2>4. cursor <= page.at /\ \A k \in page.items : k <= page.at
    BY <2>2 DEF TakenUpTo
  <2> QED BY <2>1, <2>2, <2>3, <2>4, KeyNat
<1>1. ev \in SUBSET Keys /\ Max(ev) \in ev /\ (\A j \in ev : j <= Max(ev)) /\ page.at < Max(ev)
  BY MaxFacts DEF Queried
<1>2. /\ p \in Pages /\ p.at = Max(ev) /\ p.items = U /\ p.todo = {}
  BY <1>0, <1>1 DEF Pages, Gathered
<1>3. Max(ev) \in Nat /\ cursor <= Max(ev)
  <2> HIDE DEF p
  <2>1. Max(ev) \in Nat
    BY <1>1, KeyNat
  <2>2. cursor <= page.at /\ page.at < Max(ev) /\ cursor \in Nat /\ page.at \in Nat
    BY <1>0, <1>1
  <2> QED BY <2>1, <2>2
<1>4. \A k \in U : k <= Max(ev)
  <2> SUFFICES ASSUME NEW k \in U PROVE k <= Max(ev)
    OBVIOUS
  <2>1. k \in page.items \/ k \in Served(view, ev)
    BY DEF Gathered
  <2>2. CASE k \in page.items
    <3> HIDE DEF p
    <3>1. k <= page.at /\ k \in Nat /\ page.at \in Nat
      BY <2>2, <1>0
    <3>2. page.at < Max(ev)
      BY <1>1
    <3> QED BY <3>1, <3>2, <1>3
  <2>3. CASE k \in Served(view, ev)
    BY <2>3, <1>1, FilterFacts
  <2> QED BY <2>1, <2>2, <2>3
<1>5. ASSUME NEW k \in steady, cursor < k, k <= Max(ev) PROVE k \in U
  <2>1. k \in Nat
    BY <1>0, KeyNat
  <2>2. k <= page.at \/ page.at < k
    BY <2>1, <1>0
  <2>3. page.at < k => k \in ev
    BY <1>1, <1>5 DEF Queried
  <2> QED BY <2>2, <2>3, <1>5 DEF Gathered
<1>6. Ahead(p) /\ TakenUpTo(p)
  <2> HIDE DEF p
  <2>1. \A k \in U : cursor < k
    BY DEF Gathered
  <2> QED BY <2>1, <1>2, <1>3, <1>4, <1>5 DEF Ahead, TakenUpTo
<1>7. StaleInv => U \subseteq fresh
  BY DEF Gathered
<1>8. ReadsWell(p)
  <2> HIDE DEF p
  <2> QED BY <1>2, <1>6, <1>7 DEF ReadsWell, WellMade, Known
<1> QED BY <1>8

\* A page that is full ends at its last item, ...
LEMMA FullEnds ==
    ASSUME ListInv, phase = "reading", config.op = "list",
           NEW U \in SUBSET Keys, U # {}, \A k \in U : cursor < k,
           \A u \in U, k \in steady : cursor < k /\ k <= u => k \in U,
           StaleInv => U \subseteq fresh
    PROVE  EndsWell(Least(U, Limit), Max(Least(U, Limit)))
<1> DEFINE items == Least(U, Limit)
           next == Max(items)
<1>1. /\ items \in SUBSET U /\ next \in items /\ \A k \in items : k <= next
      /\ \A k \in U : k <= next => k \in items
  BY PageOf
<1> HIDE DEF items, next
<1>2. next \in Keys /\ next \in Nat /\ cursor < next /\ cursor \in Nat
  BY <1>1, PageFacts, KeyNat
<1>3. cursor <= next /\ next # 0
  BY <1>2, KeyNat
<1>4. \A k \in steady : cursor < k /\ (next = 0 \/ k <= next) => k \in items
  BY <1>1, <1>3
<1>5. EndsWell(items, next)
  BY <1>1, <1>2, <1>3, <1>4 DEF EndsWell
<1> QED BY <1>5 DEF items, next

\* ... and one that is not holds all there is, or was cut short before stopped.
LEMMA ShortEnds ==
    ASSUME ListInv, phase = "reading", NEW stopped \in Keys \cup {0},
           config.op = "list" \/ stopped = 0,
           NEW U \in SUBSET Keys, \A k \in U : cursor < k,
           stopped # 0 => cut' /\ cursor <= stopped /\ \A k \in U : k <= stopped,
           stopped = 0 => \A k \in steady : cursor < k => k \in U,
           StaleInv => U \subseteq fresh
    PROVE  EndsWell(U, stopped)
BY DEF EndsWell

\* What DynamoPage makes of the rows found, Limit + 1 of them at most.
LEMMA FoundFacts ==
    ASSUME NEW U \in SUBSET Keys, NEW found, found = Least(U, Limit + 1)
    PROVE  /\ found \in SUBSET Keys /\ Cardinality(found) \in Nat
           /\ Least(found, Limit) = Least(U, Limit)
           /\ Cardinality(found) > Limit => U # {}
           /\ ~(Cardinality(found) > Limit) => /\ found = U /\ Cardinality(found) <= Limit
                                               /\ Least(found, Limit) = U
<1>1. Limit + 1 \in Nat /\ Limit \in Nat /\ Limit <= Limit + 1 /\ Limit + 1 \in Int
  BY KeyNat
<1>2. found \in SUBSET Keys /\ found \in SUBSET U /\ Cardinality(found) \in Nat
  BY <1>1, LeastStart, KeysFinite DEF IsStart
<1>3. Least(found, Limit) = Least(U, Limit)
  BY <1>1, LeastTwice
<1>4. Cardinality(found) > Limit => U # {}
  BY <1>2, NotNone
<1>5. ASSUME ~(Cardinality(found) > Limit)
      PROVE  found = U /\ Cardinality(found) <= Limit /\ Least(found, Limit) = U
  <2>1. Cardinality(found) < Limit + 1 /\ Cardinality(found) <= Limit
    BY <1>1, <1>2, <1>5
  <2>2. found = U
    BY <2>1, <1>1, LeastAll
  <2>3. Least(found, Limit) = found
    BY <2>1, <1>1, <1>2, LeastWhole
  <2> QED BY <2>1, <2>2, <2>3
<1> QED BY <1>2, <1>3, <1>4, <1>5

LEMMA DynamoListAdvances == ListInv /\ DynamoListQuery => Advance
<1> SUFFICES ASSUME ListInv, DynamoListQuery PROVE Advance
  OBVIOUS
<1>q. PICK view \in Views : QueryPage(view)
  BY DEF DynamoListQuery
<1> DEFINE ev == Evaluated(view, page.at, Limit + 1)
           items == Served(view, ev)
           within == IF Capped THEN Least(items, ScanCap - page.scanned) ELSE items
           U == page.items \cup Wanted(view, within)
           found == Least(U, Limit + 1)
           full == Cardinality(found) > Limit
           hitCap == ~full /\ within # items
           drained == After(Partition(view), Last(ev, page.at)) = {}
           stopped == IF hitCap THEN Min(items \ within) ELSE 0
<1>0. /\ phase = "reading" /\ config.backend = "dynamo" /\ config.op = "list"
      /\ Unstored /\ fresh' = fresh /\ cut' = (cut \/ hitCap)
      /\ IF full \/ hitCap \/ drained
         THEN DynamoPage(found, stopped)
         ELSE Reading([page EXCEPT !.at = Max(ev), !.items = found,
                                   !.scanned = @ + Cardinality(items)])
  BY <1>q DEF DynamoListQuery, InPage, QueryPage
<1>1. Queried(view, ev) /\ ev \in SUBSET Keys
  BY PageFacts, QueryReads DEF Queried
<1>2. items \in SUBSET Keys /\ items \in SUBSET ev
  <2> HIDE DEF ev
  <2> QED BY <1>1, FilterFacts
<1>3. IsStart(within, items) /\ within \in SUBSET items
  <2> HIDE DEF items
  <2>1. CASE Capped
    <3>1. ScanCap - page.scanned \in Int
      BY PageFacts, KeyNat
    <3> QED BY <2>1, <3>1, <1>2, LeastStart DEF IsStart
  <2>2. CASE ~Capped
    BY <2>2 DEF IsStart
  <2> QED BY <2>1, <2>2
<1>4. Gathered(view, ev, within, U)
  <2> HIDE DEF within, ev
  <2> QED BY <1>0, <1>1, <1>3, Gathers
<1>5. /\ U \in SUBSET Keys /\ (\A k \in U : cursor < k) /\ (StaleInv => U \subseteq fresh)
      /\ \A u \in U, k \in steady : cursor < k /\ k <= u => k \in U
      /\ \A k \in U : k \in page.items \/ k \in within
  <2> HIDE DEF within, U
  <2> QED BY <1>4 DEF Gathered
<1>6. cut \in BOOLEAN /\ cut' \in BOOLEAN /\ (cut => cut')
  BY <1>0 DEF ListInv, ListTypeOK
<1>7. /\ found \in SUBSET Keys /\ Cardinality(found) \in Nat
      /\ Least(found, Limit) = Least(U, Limit)
      /\ Cardinality(found) > Limit => U # {}
      /\ ~(Cardinality(found) > Limit) => /\ found = U /\ Cardinality(found) <= Limit
                                          /\ Least(found, Limit) = U
  <2> HIDE DEF U
  <2> QED BY <1>5, FoundFacts
<1>8. CASE full
  <2>1. DynamoPage(found, stopped)
    BY <1>0, <1>8
  <2>2. Finish(Least(U, Limit), Max(Least(U, Limit)))
    <3> HIDE DEF U, found, stopped
    <3>1. Finish(Least(found, Limit), Max(Least(found, Limit)))
      BY <2>1, <1>8 DEF DynamoPage, full
    <3> QED BY <3>1, <1>7
  <2>3. EndsWell(Least(U, Limit), Max(Least(U, Limit)))
    <3> HIDE DEF U, found
    <3> QED BY <1>0, <1>5, <1>7, <1>8, FullEnds
  <2> QED BY <1>0, <1>6, <2>2, <2>3 DEF Advance
<1>9. CASE ~full /\ (hitCap \/ drained)
  <2>1. DynamoPage(found, stopped)
    BY <1>0, <1>9
  <2>2. Finish(U, stopped)
    <3> HIDE DEF U, found, stopped
    <3>1. Finish(Least(found, Limit), stopped)
      BY <2>1, <1>9 DEF DynamoPage, full
    <3> QED BY <3>1, <1>7, <1>9
  <2>3. CASE hitCap
    <3>1. items \ within # {} /\ items \ within \in SUBSET Keys
      <4> HIDE DEF items, within, found
      <4> QED BY <2>3, <1>2, <1>3
    <3>2. stopped = Min(items \ within) /\ stopped \in items \ within
      <4> HIDE DEF items, within, found
      <4> QED BY <2>3, <3>1, MinFacts
    <3> HIDE DEF stopped
    <3>3. stopped \in Keys /\ stopped \in Nat /\ stopped \in ev /\ page.at < stopped
      <4>1. stopped \in ev
        BY <3>2, <1>2
      <4> HIDE DEF ev
      <4> QED BY <4>1, <1>1, KeyNat DEF Queried
    <3>4. cursor <= page.at /\ \A k \in page.items : k <= page.at /\ k \in Nat
      <4>1. WellMade(page) /\ page.items \in SUBSET Keys
        BY <1>0, PageFacts
      <4>2. TakenUpTo(page)
        BY <4>1, <1>0 DEF WellMade
      <4> QED BY <4>1, <4>2, KeyNat DEF TakenUpTo
    <3>5. page.at \in Nat /\ cursor \in Nat
      BY PageFacts
    <3>6. cursor <= stopped
      BY <3>3, <3>4, <3>5
    <3>7. \A k \in U : k <= stopped
      <4> SUFFICES ASSUME NEW k \in U PROVE k <= stopped
        OBVIOUS
      <4>1. k \in page.items \/ k \in within
        <5> HIDE DEF U, within
        <5> QED BY <1>5
      <4>2. CASE k \in page.items
        BY <4>2, <3>3, <3>4, <3>5
      <4>3. CASE k \in within
        <5>1. k \in Nat
          <6>1. k \in items
            BY <4>3, <1>3
          <6> QED BY <6>1, <1>2, KeyNat
        <5>2. ~(stopped < k)
          <6> HIDE DEF within, items
          <6> QED BY <4>3, <3>2, <1>3 DEF IsStart
        <5> QED BY <5>1, <5>2, <3>3
      <4> QED BY <4>1, <4>2, <4>3
    <3>8. EndsWell(U, stopped)
      <4>1. cut'
        <5> HIDE DEF hitCap
        <5> QED BY <2>3, <1>0, <1>6
      <4>2. stopped # 0
        BY <3>3, KeyNat
      <4> HIDE DEF U
      <4> QED BY <4>1, <4>2, <3>3, <3>6, <3>7, <1>0, <1>5, ShortEnds
    <3> QED BY <1>0, <1>6, <2>2, <3>8 DEF Advance
  <2>4. CASE ~hitCap
    <3>1. stopped = 0 /\ within = items /\ drained
      BY <2>4, <1>9
    <3>2. ASSUME NEW k \in steady, cursor < k PROVE k \in U
      <4>1. k \in Nat /\ page.at \in Nat
        BY PageFacts, KeyNat
      <4>2. page.at < k => k \in ev
        <5> HIDE DEF ev
        <5> QED BY <3>1, <1>1 DEF Queried
      <4>3. k <= page.at \/ k \in ev
        BY <4>1, <4>2
      <4> HIDE DEF U, within, ev
      <4> QED BY <4>3, <3>1, <3>2, <1>4 DEF Gathered
    <3>3. EndsWell(U, 0)
      <4> HIDE DEF U
      <4> QED BY <3>2, <1>0, <1>5, ShortEnds
    <3>4. Finish(U, 0)
      BY <2>2, <3>1
    <3> HIDE DEF U
    <3> QED BY <1>0, <1>6, <3>3, <3>4 DEF Advance
  <2> QED BY <2>3, <2>4
<1>10. CASE ~full /\ ~hitCap /\ ~drained
  <2> DEFINE n == page.scanned + Cardinality(items)
  <2>1. Reading([page EXCEPT !.at = Max(ev), !.items = found, !.scanned = @ + Cardinality(items)])
    BY <1>0, <1>10
  <2>2. within = items /\ found = U /\ Cardinality(U) <= Limit
    <3>1. within = items
      BY <1>10
    <3> HIDE DEF U, found, within, items
    <3> QED BY <3>1, <1>7, <1>10
  <2>3. n \in Nat
    <3> HIDE DEF items
    <3>1. Cardinality(items) \in Nat /\ page.scanned \in Nat
      BY <1>2, KeysFinite, PageFacts
    <3> QED BY <3>1
  <2>4. ev # {}
    <3> HIDE DEF ev
    <3> QED BY <1>1, <1>10 DEF Queried
  <2>5. cut' = cut
    <3> HIDE DEF hitCap
    <3> QED BY <1>0, <1>6, <1>10
  <2>6. Reading([page EXCEPT !.at = Max(ev), !.items = U, !.scanned = n])
    <3>1. found = U
      BY <2>2
    <3> HIDE DEF U, found, items, ev
    <3> QED BY <2>1, <3>1
  <2>7. Gathered(view, ev, Served(view, ev), U)
    <3>1. within = Served(view, ev)
      BY <2>2
    <3> HIDE DEF U, within, ev
    <3> QED BY <3>1, <1>4
  <2>8. ReadsWell([page EXCEPT !.at = Max(ev), !.items = U, !.scanned = n])
    <3>1. ev = Evaluated(view, page.at, Limit + 1)
      OBVIOUS
    <3> HIDE DEF U, n, ev
    <3> QED BY <1>0, <1>1, <2>2, <2>3, <2>4, <2>5, <2>7, <3>1, QueryOn
  <2> HIDE DEF U, n, ev
  <2> QED BY <1>0, <1>6, <2>6, <2>8 DEF Advance
<1> QED BY <1>8, <1>9, <1>10

LEMMA DynamoCountAdvances == ListInv /\ DynamoCountQuery => Advance
<1> SUFFICES ASSUME ListInv, DynamoCountQuery PROVE Advance
  OBVIOUS
<1>q. PICK view \in Views : QueryCount(view)
  BY DEF DynamoCountQuery
<1> DEFINE ev == Evaluated(view, page.at, Limit + 1)
           U == page.items \cup Wanted(view, Served(view, ev))
           drained == After(Partition(view), Last(ev, page.at)) = {}
<1>0. /\ phase = "reading" /\ config.backend = "dynamo" /\ config.op = "count"
      /\ Unstored /\ fresh' = fresh /\ cut' = cut
      /\ IF drained THEN Finish(U, 0) ELSE Reading([page EXCEPT !.at = Max(ev), !.items = U])
  BY <1>q DEF DynamoCountQuery, InPage, QueryCount
<1>1. Queried(view, ev)
  BY PageFacts, QueryReads
<1>2. IsStart(Served(view, ev), Served(view, ev))
  BY DEF IsStart
<1>3. Gathered(view, ev, Served(view, ev), U)
  <2> HIDE DEF ev
  <2> QED BY <1>0, <1>1, <1>2, Gathers
<1>4. cut' \in BOOLEAN /\ (cut => cut')
  BY <1>0 DEF ListInv, ListTypeOK
<1>5. CASE drained
  <2>1. ASSUME NEW k \in steady, cursor < k PROVE k \in U
    <3>1. k \in Nat /\ page.at \in Nat
      BY PageFacts, KeyNat
    <3>2. page.at < k => k \in ev
      <4> HIDE DEF ev
      <4> QED BY <1>5, <1>1 DEF Queried
    <3>3. k <= page.at \/ k \in ev
      BY <3>1, <3>2
    <3> HIDE DEF U, ev
    <3> QED BY <3>3, <2>1, <1>3 DEF Gathered
  <2>2. U \in SUBSET Keys /\ (\A k \in U : cursor < k) /\ (StaleInv => U \subseteq fresh)
    <3>1. ev = Evaluated(view, page.at, Limit + 1)
      OBVIOUS
    <3> HIDE DEF U, ev
    <3> QED BY <1>3, <3>1 DEF Gathered
  <2>3. EndsWell(U, 0)
    <3> HIDE DEF U
    <3> QED BY <2>1, <2>2, <1>0, ShortEnds
  <2>4. Finish(U, 0)
    BY <1>0, <1>5
  <2> HIDE DEF U
  <2> QED BY <1>0, <1>4, <2>3, <2>4 DEF Advance
<1>6. CASE ~drained
  <2>1. [page EXCEPT !.at = Max(ev), !.items = U]
          = [page EXCEPT !.at = Max(ev), !.items = U, !.scanned = page.scanned]
    <3> HIDE DEF U, ev
    <3> QED BY PageFacts DEF Pages
  <2>2. Reading([page EXCEPT !.at = Max(ev), !.items = U, !.scanned = page.scanned])
    BY <1>0, <1>6, <2>1
  <2>3. ev # {}
    <3> HIDE DEF ev
    <3> QED BY <1>1, <1>6 DEF Queried
  <2>4. ReadsWell([page EXCEPT !.at = Max(ev), !.items = U, !.scanned = page.scanned])
    <3>1. ev = Evaluated(view, page.at, Limit + 1)
      OBVIOUS
    <3>2. page.scanned \in Nat
      BY PageFacts
    <3> HIDE DEF U, ev
    <3> QED BY <1>0, <1>1, <1>3, <2>3, <3>1, <3>2, QueryOn
  <2> HIDE DEF U, ev
  <2> QED BY <1>0, <1>4, <2>2, <2>4 DEF Advance
<1> QED BY <1>5, <1>6

\* The fake port reads the scope in one step.
LEMMA FakeAdvances == ListInv /\ FakeDynamoList => Advance
<1> SUFFICES ASSUME ListInv, FakeDynamoList PROVE Advance
  OBVIOUS
<1> DEFINE past == After(Stored, cursor)
           within == IF Capped THEN Least(past, ScanCap) ELSE past
           U == within \cap Matching(rows)
           found == Least(U, Limit + 1)
           hitCap == Cardinality(found) <= Limit /\ within # past
           stopped == IF hitCap THEN Min(past \ within) ELSE 0
<1>0. /\ phase = "reading" /\ config.op = "list"
      /\ Unstored /\ fresh' = fresh /\ cut' = (cut \/ hitCap)
      /\ DynamoPage(found, stopped)
  BY DEF FakeDynamoList, InPage
<1>1. cut \in BOOLEAN /\ cut' \in BOOLEAN /\ (cut => cut')
  BY <1>0 DEF ListInv, ListTypeOK
<1>2. past \in SUBSET Keys /\ \A k \in past : cursor < k
  BY Reads DEF After
<1>3. IsStart(within, past) /\ within \in SUBSET past
  <2> HIDE DEF past
  <2>1. CASE Capped
    <3>1. ScanCap \in Int
      BY KeyNat
    <3> QED BY <2>1, <3>1, <1>2, LeastStart DEF IsStart
  <2>2. CASE ~Capped
    BY <2>2 DEF IsStart
  <2> QED BY <2>1, <2>2
<1>4. \A k \in steady : cursor < k => k \in past
  BY Reads DEF After
<1>5. U \in SUBSET Keys /\ (\A k \in U : cursor < k) /\ (StaleInv => U \subseteq fresh)
  <2> HIDE DEF past, within
  <2> QED BY <1>0, <1>2, <1>3, Reads
<1>6. ASSUME NEW u \in U, NEW k \in steady, cursor < k, k <= u PROVE k \in U
  <2>1. k \in past /\ k \in Matching(rows) /\ u \in within
    BY <1>4, <1>6, Reads
  <2>2. k \in Nat /\ u \in Nat
    <3> HIDE DEF past, within
    <3> QED BY <2>1, <1>2, <1>3, KeyNat
  <2>3. k = u \/ k < u
    BY <2>2, <1>6
  <2>4. k \in within
    <3> HIDE DEF past, within
    <3> QED BY <2>1, <2>3, <1>3 DEF IsStart
  <2> QED BY <2>1, <2>4
<1>7. /\ found \in SUBSET Keys /\ Cardinality(found) \in Nat
      /\ Least(found, Limit) = Least(U, Limit)
      /\ Cardinality(found) > Limit => U # {}
      /\ ~(Cardinality(found) > Limit) => /\ found = U /\ Cardinality(found) <= Limit
                                          /\ Least(found, Limit) = U
  <2> HIDE DEF U
  <2> QED BY <1>5, FoundFacts
<1>8. CASE Cardinality(found) > Limit
  <2>1. Finish(Least(U, Limit), Max(Least(U, Limit)))
    <3> HIDE DEF U, found, stopped
    <3>1. Finish(Least(found, Limit), Max(Least(found, Limit)))
      BY <1>0, <1>8 DEF DynamoPage
    <3> QED BY <3>1, <1>7
  <2>2. EndsWell(Least(U, Limit), Max(Least(U, Limit)))
    <3> HIDE DEF U, found
    <3> QED BY <1>0, <1>5, <1>6, <1>7, <1>8, FullEnds
  <2> QED BY <1>0, <1>1, <2>1, <2>2 DEF Advance
<1>9. CASE ~(Cardinality(found) > Limit)
  <2>1. Finish(U, stopped)
    <3> HIDE DEF U, found, stopped
    <3>1. Finish(Least(found, Limit), stopped)
      BY <1>0, <1>9 DEF DynamoPage
    <3> QED BY <3>1, <1>7, <1>9
  <2>2. CASE hitCap
    <3>1. past \ within # {} /\ past \ within \in SUBSET Keys
      <4> HIDE DEF past, within, found
      <4> QED BY <2>2, <1>2, <1>3
    <3>2. stopped \in past \ within
      <4> HIDE DEF past, within, found
      <4> QED BY <2>2, <3>1, MinFacts
    <3> HIDE DEF stopped
    <3>3. stopped \in Keys /\ stopped \in Nat /\ cursor < stopped /\ cursor \in Nat /\ stopped # 0
      <4> HIDE DEF past, within
      <4> QED BY <3>2, <1>2, PageFacts, KeyNat
    <3>4. \A k \in U : k <= stopped
      <4> SUFFICES ASSUME NEW k \in within PROVE k <= stopped
        OBVIOUS
      <4> HIDE DEF past, within
      <4>1. k \in Nat
        BY <1>2, <1>3, KeyNat
      <4>2. ~(stopped < k)
        BY <3>2, <1>3 DEF IsStart
      <4> QED BY <4>1, <4>2, <3>3
    <3>5. EndsWell(U, stopped)
      <4>1. cut'
        <5> HIDE DEF hitCap
        <5> QED BY <2>2, <1>0, <1>1
      <4>2. cursor <= stopped
        BY <3>3
      <4> HIDE DEF U
      <4> QED BY <4>1, <4>2, <3>3, <3>4, <1>0, <1>5, ShortEnds
    <3> QED BY <1>0, <1>1, <2>1, <3>5 DEF Advance
  <2>3. CASE ~hitCap
    <3>1. within = past /\ stopped = 0
      <4> HIDE DEF found, past, within
      <4> QED BY <2>3, <1>7, <1>9
    <3>2. \A k \in steady : cursor < k => k \in U
      <4> HIDE DEF past, within
      <4> QED BY <3>1, <1>4, Reads
    <3>3. EndsWell(U, 0)
      <4> HIDE DEF U
      <4> QED BY <3>2, <1>0, <1>5, ShortEnds
    <3>4. Finish(U, 0)
      BY <2>1, <3>1
    <3> HIDE DEF U
    <3> QED BY <1>0, <1>1, <3>3, <3>4 DEF Advance
  <2> QED BY <2>2, <2>3
<1> QED BY <1>8, <1>9

-----------------------------------------------------------------------------
(* Redis: the set, then record by record.                                  *)

\* Every steady record passes what is left of the filter once its set is known.
LEMMA ResidualFacts ==
    ASSUME ListInv
    PROVE  \A k \in steady : Residual(rows[k])
BY DEF ListInv, SteadyMatch, Matching, Satisfies, Residual

LEMMA SmembersAdvances == ListInv /\ Smembers => Advance
<1> SUFFICES ASSUME ListInv, Smembers PROVE Advance
  OBVIOUS
<1> DEFINE set == IF ByIndex THEN valueSets[JsName(config.want)] ELSE scopeSet
           p == [page EXCEPT !.todo = After(set, cursor), !.drained = TRUE]
<1>0. /\ phase = "reading" /\ config.backend = "redis" /\ ~page.drained
      /\ Unstored /\ fresh' = fresh /\ cut' = cut /\ Reading(p)
  BY DEF Smembers
<1>1. cut' \in BOOLEAN /\ (cut => cut')
  BY <1>0 DEF ListInv, ListTypeOK
<1>2. WellMade(page) /\ page \in Pages
  BY <1>0, PageFacts
<1>3. page.items = {}
  BY <1>0, <1>2 DEF WellMade, TakenAll
<1>4. ByIndex => config.want \in Values /\ config.want \in SetNames
  BY DEF ByIndex, ListInv, ListTypeOK, Config, SetNames, JsName
<1>5. set \in SUBSET Keys
  <2>1. CASE ByIndex
    BY <2>1, <1>4 DEF ListInv, ListTypeOK, JsName
  <2>2. CASE ~ByIndex
    BY <2>2 DEF ListInv, ListTypeOK
  <2> QED BY <2>1, <2>2
<1>6. \A k \in steady : k \in set
  <2> SUFFICES ASSUME NEW k \in steady PROVE k \in set
    OBVIOUS
  <2>1. k \in Keys /\ Satisfies(rows[k])
    BY Reads DEF Matching
  <2>2. CASE ByIndex
    <3>1. rows[k] = config.want
      BY <2>1, <2>2 DEF Satisfies, ByIndex
    <3> QED BY <3>1, <2>1, <2>2, <1>0, <1>4 DEF ListInv, SetsCover
  <2>3. CASE ~ByIndex
    BY <2>1, <2>3, <1>0 DEF ListInv, SetsCover, Satisfies
  <2> QED BY <2>2, <2>3
<1>7. ASSUME StaleInv, ByIndex PROVE set \subseteq fresh
  <2>1. set = {k \in Keys : rows[k] = config.want}
    BY <1>0, <1>4, <1>7 DEF StaleInv, IndexAgrees
  <2>2. set \subseteq Matching(rows)
    <3> HIDE DEF set
    <3>1. \A j \in set : j \in Keys /\ rows[j] = config.want
      BY <2>1
    <3>2. config.want \in Values
      BY <1>4, <1>7
    <3>3. \A j \in set : Satisfies(rows[j])
      BY <3>1, <3>2 DEF Satisfies, IsLive
    <3> QED BY <3>1, <3>3 DEF Matching
  <2> QED BY <2>2, <1>0, <1>7, Reads
<1>8. /\ p \in Pages /\ p.todo = After(set, cursor) /\ p.items = {} /\ p.drained = TRUE
  <2>1. After(set, cursor) \in SUBSET Keys
    BY <1>5, AfterFacts
  <2> HIDE DEF set
  <2> QED BY <1>2, <1>3, <2>1 DEF Pages
<1>9. Ahead(p) /\ TakenAll(p)
  <2> HIDE DEF set, p
  <2> QED BY <1>6, <1>8 DEF Ahead, TakenAll, After
<1>10. Cardinality(p.items) <= Limit \/ config.op = "count"
  <2> HIDE DEF p
  <2> QED BY <1>2, <1>3, <1>8 DEF WellMade
<1>11. StaleInv => Known(p)
  <2> HIDE DEF set, p
  <2> QED BY <1>7, <1>8 DEF Known, After
<1>12. ReadsWell(p)
  <2> HIDE DEF p
  <2> QED BY <1>0, <1>8, <1>9, <1>10, <1>11 DEF ReadsWell, WellMade
<1> HIDE DEF p
<1> QED BY <1>0, <1>1, <1>12 DEF Advance

LEMMA HgetAdvances == ListInv /\ Hget => Advance
<1> SUFFICES ASSUME ListInv, Hget PROVE Advance
  OBVIOUS
<1> DEFINE k == Min(page.todo)
           read == [page EXCEPT !.todo = @ \ {k}, !.scanned = @ + 1]
           kept == [read EXCEPT !.items = @ \cup {k}]
<1>0. /\ phase = "reading" /\ config.backend = "redis" /\ page.drained
      /\ Unstored /\ fresh' = fresh
  BY DEF Hget
<1>1. /\ page \in Pages /\ page.items \in SUBSET Keys /\ page.todo \in SUBSET Keys
      /\ page.scanned \in Nat /\ WellMade(page) /\ steady \in SUBSET Keys /\ cursor \in Nat
  BY <1>0, PageFacts
<1>2. /\ \A j \in page.items \cup page.todo : cursor < j
      /\ \A i \in page.items, t \in page.todo : i < t
      /\ \A j \in steady : cursor < j => j \in page.items \cup page.todo
      /\ Cardinality(page.items) <= Limit \/ config.op = "count"
  BY <1>0, <1>1 DEF WellMade, Ahead, TakenAll
<1>3. cut \in BOOLEAN
  BY DEF ListInv, ListTypeOK
<1>4. StaleInv => Known(page)
  BY <1>0 DEF StaleInv, FreshInv
<1>5. CASE page.todo = {} \/ page.scanned = ScanCap
  <2>1. Finish(page.items, 0) /\ cut' = (cut \/ page.todo # {})
    BY <1>5 DEF Hget
  <2>2. cut' \in BOOLEAN /\ (cut => cut')
    BY <2>1, <1>3
  <2>3. ~cut' => page.todo = {}
    BY <2>1, <1>3
  <2>4. EndsWell(page.items, 0)
    BY <1>0, <1>1, <1>2, <1>4, <2>3 DEF EndsWell, Known
  <2> QED BY <1>0, <2>1, <2>2, <2>4 DEF Advance
<1>6. CASE ~(page.todo = {} \/ page.scanned = ScanCap)
  <2>0. k \in page.todo /\ \A j \in page.todo : k <= j
    BY <1>1, <1>6, MinFacts
  <2>1. /\ cut' = cut
        /\ IF ~Residual(rows[k]) THEN Reading(read)
           ELSE IF Cardinality(page.items) = Limit
           THEN Finish(page.items, Max(page.items))
           ELSE Reading(kept)
    BY <1>6 DEF Hget
  <2>2. cut' \in BOOLEAN /\ (cut => cut')
    BY <2>1, <1>3
  <2> HIDE DEF k
  <2>3. k \in Keys /\ k \in Nat /\ cursor < k
    BY <2>0, <1>1, <1>2, KeyNat
  <2>4. /\ read \in Pages /\ read.items = page.items /\ read.todo = page.todo \ {k}
        /\ read.drained = page.drained
    <3>1. page.todo \ {k} \in SUBSET Keys /\ page.scanned + 1 \in Nat
      BY <1>1
    <3> QED BY <1>1, <3>1 DEF Pages
  <2>5. CASE ~Residual(rows[k])
    <3>1. Reading(read)
      BY <2>1, <2>5
    <3> HIDE DEF read
    <3>2. Ahead(read)
      BY <2>4, <1>2 DEF Ahead
    <3>3. k \notin steady
      BY <2>5, ResidualFacts
    <3>4. TakenAll(read)
      BY <2>4, <3>3, <1>0, <1>2 DEF TakenAll
    <3>5. StaleInv => Known(read)
      BY <2>4, <1>4 DEF Known
    <3>6. ReadsWell(read)
      BY <1>0, <1>2, <2>1, <2>4, <3>2, <3>4, <3>5 DEF ReadsWell, WellMade
    <3> QED BY <1>0, <2>2, <3>1, <3>6 DEF Advance
  <2>6. CASE Residual(rows[k]) /\ Cardinality(page.items) = Limit
    <3> DEFINE next == Max(page.items)
    <3>1. Finish(page.items, next)
      BY <2>1, <2>6
    <3>2. page.items # {}
      <4>1. Cardinality({}) = 0
        BY FS_EmptySet
      <4> QED BY <4>1, <2>6, KeyNat
    <3>3. next \in page.items /\ \A j \in page.items : j <= next
      BY <1>1, <3>2, MaxFacts
    <3> HIDE DEF next
    <3>4. next \in Keys /\ next \in Nat /\ cursor < next
      BY <3>3, <1>1, <1>2, KeyNat
    <3>5. cursor <= next /\ next # 0
      BY <3>4, <1>1
    <3>6. ASSUME NEW j \in steady, cursor < j, j <= next PROVE j \in page.items
      <4>1. j \in Nat
        BY <1>1, KeyNat
      <4>2. ~(next < j)
        BY <4>1, <3>4, <3>6
      <4>3. j \notin page.todo
        BY <4>2, <3>3, <1>2
      <4> QED BY <4>3, <3>6, <1>2
    <3>7. StaleInv => page.items \subseteq fresh
      BY <1>4 DEF Known
    <3>8. EndsWell(page.items, next)
      BY <1>0, <1>1, <1>2, <3>3, <3>4, <3>5, <3>6, <3>7 DEF EndsWell
    <3> QED BY <1>0, <2>2, <3>1, <3>8 DEF Advance
  <2>7. CASE Residual(rows[k]) /\ Cardinality(page.items) # Limit
    <3>1. Reading(kept)
      BY <2>1, <2>7
    <3>2. /\ kept \in Pages /\ kept.items = page.items \cup {k} /\ kept.todo = page.todo \ {k}
          /\ kept.drained = page.drained
      <4> HIDE DEF read
      <4> QED BY <2>3, <2>4, <1>1 DEF Pages
    <3> HIDE DEF read, kept
    <3>3. Ahead(kept)
      <4>1. ASSUME NEW t \in page.todo \ {k} PROVE k < t
        <5>1. t \in Nat /\ k <= t /\ t # k
          BY <2>0, <1>1, KeyNat
        <5> QED BY <5>1, <2>3
      <4> QED BY <3>2, <4>1, <1>2, <2>3 DEF Ahead
    <3>4. TakenAll(kept)
      BY <3>2, <1>0, <1>2 DEF TakenAll
    <3>5. Cardinality(kept.items) <= Limit \/ config.op = "count"
      <4>1. CASE config.op = "count"
        BY <4>1
      <4>2. CASE Cardinality(page.items) <= Limit
        <5>1. IsFiniteSet(page.items) /\ Cardinality(page.items) \in Nat
          BY <1>1, KeysFinite
        <5>2. Cardinality(page.items) + 1 <= Limit
          BY <5>1, <4>2, <2>7, KeyNat
        <5>3. \/ Cardinality(page.items \cup {k}) = Cardinality(page.items)
              \/ Cardinality(page.items \cup {k}) = Cardinality(page.items) + 1
          BY <5>1, FS_AddElement
        <5>4. Cardinality(page.items \cup {k}) <= Limit
          BY <5>1, <5>2, <5>3, KeyNat
        <5> QED BY <5>4, <3>2
      <4> QED BY <4>1, <4>2, <1>2
    <3>6. ASSUME StaleInv PROVE Known(kept)
      <4>1. k \in fresh
        <5>1. CASE ByIndex
          BY <5>1, <3>6, <1>0, <1>4, <2>0 DEF Known
        <5>2. CASE ~ByIndex
          <6>1. k \in Matching(rows)
            BY <5>2, <2>3, <2>7 DEF Residual, Matching
          <6> QED BY <6>1, <3>6, <1>0, Reads
        <5> QED BY <5>1, <5>2
      <4> QED BY <4>1, <3>2, <3>6, <1>4 DEF Known
    <3>7. ReadsWell(kept)
      BY <1>0, <2>1, <3>2, <3>3, <3>4, <3>5, <3>6 DEF ReadsWell, WellMade
    <3> QED BY <1>0, <2>2, <3>1, <3>7 DEF Advance
  <2> QED BY <2>5, <2>6, <2>7
<1> QED BY <1>5, <1>6

-----------------------------------------------------------------------------
(* Workers KV: a page of names, then one by one.                           *)

LEMMA KvPage ==
    ASSUME ListInv, phase = "reading", config.backend = "kv"
    PROVE  /\ config.op = "list" /\ ~ByIndex
           /\ \A j \in page.items \cup page.todo : cursor < j /\ j <= page.at
           /\ \A i \in page.items, t \in page.todo : i < t
           /\ cursor <= page.at
           /\ \A j \in steady : cursor < j /\ j <= page.at => j \in page.items \cup page.todo
           /\ Cardinality(page.items) \in Nat /\ Cardinality(page.todo) \in Nat
           /\ Cardinality(page.items) + Cardinality(page.todo) <= Limit
           /\ Cardinality(page.items) < Limit
           /\ page.drained => \A j \in steady : j <= page.at
           /\ StaleInv => page.items \subseteq fresh
<1>1. WellMade(page) /\ page.items \in SUBSET Keys /\ page.todo \in SUBSET Keys
  BY PageFacts
<1>2. config.op = "list" /\ ~ByIndex
  BY DEF ListInv, ListTypeOK, Config, ByIndex
<1>3. Ahead(page) /\ TakenUpTo(page) /\ KvRoom(page)
  BY <1>1 DEF WellMade
<1>4. Cardinality(page.items) \in Nat /\ Cardinality(page.todo) \in Nat
  BY <1>1, KeysFinite
<1>5. StaleInv => page.items \subseteq fresh
  BY DEF StaleInv, FreshInv, Known
<1> QED BY <1>2, <1>3, <1>4, <1>5 DEF Ahead, TakenUpTo, KvRoom

LEMMA KvListAdvances == ListInv /\ KvList => Advance
<1> SUFFICES ASSUME ListInv, KvList PROVE Advance
  OBVIOUS
<1> DEFINE rest == After(Stored, page.at)
           names == Least(rest, KvNeed)
           at == Last(names, page.at)
           p == [page EXCEPT !.todo = names, !.at = at, !.drained = (After(Stored, at) = {})]
<1>0. /\ phase = "reading" /\ config.backend = "kv" /\ page.todo = {}
      /\ Unstored /\ fresh' = fresh /\ cut' = cut
      /\ IF names = {} THEN Finish(page.items, 0) ELSE Reading(p)
  BY DEF KvList, InPage
<1>1. cut' \in BOOLEAN /\ (cut => cut')
  BY <1>0 DEF ListInv, ListTypeOK
<1>2. /\ page \in Pages /\ page.items \in SUBSET Keys /\ page.at \in Nat
      /\ cursor \in Nat /\ steady \in SUBSET Keys
  BY PageFacts
<1>3. /\ config.op = "list" /\ ~ByIndex
      /\ \A j \in page.items : cursor < j /\ j <= page.at
      /\ cursor <= page.at
      /\ \A j \in steady : cursor < j /\ j <= page.at => j \in page.items
      /\ Cardinality(page.items) \in Nat /\ Cardinality(page.items) < Limit
      /\ StaleInv => page.items \subseteq fresh
  BY <1>0, KvPage
<1>4. KvNeed \in Nat /\ KvNeed > 0 /\ KvNeed \in Int /\ KvNeed = Limit - Cardinality(page.items)
  BY <1>3, KeyNat DEF KvNeed
<1>5. /\ rest \in SUBSET Keys /\ \A j \in rest : page.at < j
      /\ \A j \in steady : page.at < j => j \in rest
  BY Reads DEF After
<1>6. CASE names = {}
  <2>1. rest = {}
    <3> HIDE DEF rest
    <3> QED BY <1>4, <1>5, <1>6, LeastSome
  <2>2. ASSUME NEW j \in steady, cursor < j PROVE j \in page.items
    <3>1. ~(page.at < j) /\ j \in Nat
      BY <2>1, <1>2, <1>5, KeyNat
    <3>2. j <= page.at
      BY <3>1, <1>2
    <3> QED BY <3>2, <2>2, <1>3
  <2>3. EndsWell(page.items, 0)
    BY <2>2, <1>2, <1>3 DEF EndsWell
  <2> QED BY <1>0, <1>1, <1>6, <2>3 DEF Advance
<1>7. CASE names # {}
  <2>1. /\ IsStart(names, rest) /\ names \in SUBSET rest /\ names \in SUBSET Keys
        /\ Cardinality(names) <= KvNeed /\ Cardinality(names) \in Nat
    <3> HIDE DEF rest
    <3> QED BY <1>4, <1>5, LeastStart, LeastBound, KeysFinite DEF IsStart
  <2>2. at \in names /\ \A j \in names : j <= at
    <3> HIDE DEF names
    <3> QED BY <1>7, <2>1, MaxFacts DEF Last
  <2> HIDE DEF at
  <2>3. at \in Keys /\ at \in Nat /\ page.at < at /\ cursor <= at
    <3>1. at \in Keys /\ at \in Nat /\ page.at < at
      BY <2>1, <2>2, <1>5, KeyNat
    <3> QED BY <3>1, <1>2, <1>3
  <2>4. /\ p \in Pages /\ p.items = page.items /\ p.todo = names /\ p.at = at
        /\ p.drained = (After(Stored, at) = {})
    <3> HIDE DEF names
    <3> QED BY <1>2, <2>1, <2>3 DEF Pages
  <2>5. Reading(p)
    BY <1>0, <1>7
  <2>6. \A j \in names : cursor < j /\ page.at < j
    <3>1. \A j \in names : page.at < j /\ j \in Nat
      BY <2>1, <1>5, KeyNat
    <3> QED BY <3>1, <1>2, <1>3
  <2> HIDE DEF p, names
  <2>7. Ahead(p)
    <3>1. ASSUME NEW i \in page.items, NEW t \in names PROVE i < t
      <4>1. i \in Nat /\ t \in Nat /\ i <= page.at /\ page.at < t
        BY <1>2, <1>3, <2>1, <2>6, KeyNat
      <4> QED BY <4>1, <1>2
    <3> QED BY <3>1, <2>4, <2>6, <1>3 DEF Ahead
  <2>8. TakenUpTo(p)
    <3>1. \A j \in page.items \cup names : j <= at
      <4>1. \A j \in page.items : j <= page.at /\ j \in Nat
        BY <1>2, <1>3, KeyNat
      <4>2. \A j \in page.items : j <= at
        BY <4>1, <1>2, <2>3
      <4> QED BY <4>2, <2>2
    <3>2. ASSUME NEW j \in steady, cursor < j, j <= at PROVE j \in page.items \cup names
      <4>1. j \in Nat
        BY <1>2, KeyNat
      <4>2. CASE j <= page.at
        BY <4>2, <3>2, <1>3
      <4>3. CASE ~(j <= page.at)
        <5>1. page.at < j
          BY <4>1, <4>3, <1>2
        <5>2. j \in rest
          BY <5>1, <1>5
        <5>3. j = at \/ j < at
          BY <4>1, <2>3, <3>2
        <5> QED BY <5>2, <5>3, <2>1, <2>2 DEF IsStart
      <4> QED BY <4>2, <4>3
    <3> QED BY <3>1, <3>2, <2>3, <2>4 DEF TakenUpTo
  <2>9. KvRoom(p)
    <3>1. Cardinality(page.items) + Cardinality(names) <= Limit
      BY <1>3, <1>4, <2>1, KeyNat
    <3>2. ASSUME After(Stored, at) = {}, NEW j \in steady PROVE j <= at
      <4>1. j \in Stored /\ j \in Nat
        BY <1>2, Reads, KeyNat
      <4>2. ~(j > at)
        BY <4>1, <3>2 DEF After
      <4> QED BY <4>1, <4>2, <2>3
    <3> QED BY <3>1, <3>2, <2>4, <1>3 DEF KvRoom
  <2>10. ReadsWell(p)
    <3>1. Cardinality(p.items) <= Limit
      BY <2>4, <1>3, KeyNat
    <3>2. StaleInv => Known(p)
      BY <2>4, <1>3 DEF Known
    <3> QED BY <3>1, <3>2, <1>0, <2>4, <2>7, <2>8, <2>9 DEF ReadsWell, WellMade
  <2> QED BY <1>0, <1>1, <2>5, <2>10 DEF Advance
<1> QED BY <1>6, <1>7

LEMMA KvGetAdvances == ListInv /\ KvGet => Advance
<1> SUFFICES ASSUME ListInv, KvGet PROVE Advance
  OBVIOUS
<1> DEFINE k == Min(page.todo)
           hit == Satisfies(rows[k])
           items == page.items \cup IF hit THEN {k} ELSE {}
           todo == IF Cardinality(items) = Limit THEN {} ELSE page.todo \ {k}
           p == [page EXCEPT !.todo = todo, !.items = items, !.scanned = @ + 1]
<1>0. /\ phase = "reading" /\ config.backend = "kv" /\ page.todo # {}
      /\ Unstored /\ fresh' = fresh /\ cut' = cut
      /\ IF todo = {} THEN KvPageRead(p) ELSE Reading(p)
  BY DEF KvGet, InPage
<1>1. cut' \in BOOLEAN /\ (cut => cut')
  BY <1>0 DEF ListInv, ListTypeOK
<1>2. /\ page \in Pages /\ page.items \in SUBSET Keys /\ page.todo \in SUBSET Keys
      /\ page.at \in Keys \cup {0} /\ page.at \in Nat /\ page.scanned \in Nat
      /\ cursor \in Nat /\ steady \in SUBSET Keys
  BY PageFacts
<1>3. /\ config.op = "list" /\ ~ByIndex
      /\ \A j \in page.items \cup page.todo : cursor < j /\ j <= page.at
      /\ \A i \in page.items, t \in page.todo : i < t
      /\ cursor <= page.at
      /\ \A j \in steady : cursor < j /\ j <= page.at => j \in page.items \cup page.todo
      /\ Cardinality(page.items) \in Nat /\ Cardinality(page.todo) \in Nat
      /\ Cardinality(page.items) + Cardinality(page.todo) <= Limit
      /\ page.drained => \A j \in steady : j <= page.at
      /\ StaleInv => page.items \subseteq fresh
  BY <1>0, KvPage
<1>4. k \in page.todo /\ \A j \in page.todo : k <= j
  BY <1>0, <1>2, MinFacts
<1> HIDE DEF k
<1>5. k \in Keys /\ k \in Nat /\ 0 < k /\ cursor < k /\ k <= page.at
  BY <1>2, <1>3, <1>4, KeyNat
<1>6. k \in steady => hit
  BY Reads DEF Matching
<1>7. /\ items \in SUBSET Keys /\ items \subseteq page.items \cup {k} /\ page.items \subseteq items
      /\ (k \in steady => k \in items)
  BY <1>2, <1>5, <1>6
<1>8. StaleInv => items \subseteq fresh
  <2>1. hit => k \in Matching(rows)
    BY <1>5 DEF Matching
  <2> QED BY <2>1, <1>0, <1>3, Reads
<1> HIDE DEF hit, items
<1>9. /\ Cardinality(items) \in Nat /\ Cardinality(items) <= Cardinality(page.items) + 1
      /\ Cardinality(page.todo \ {k}) \in Nat
      /\ Cardinality(page.todo \ {k}) = Cardinality(page.todo) - 1
  <2>1. IsFiniteSet(page.items) /\ IsFiniteSet(page.todo)
    BY <1>2, KeysFinite
  <2>2. IsFiniteSet(page.items \cup {k}) /\ Cardinality(page.items \cup {k}) <= Cardinality(page.items) + 1
    <3>1. /\ IsFiniteSet(page.items \cup {k})
          /\ \/ Cardinality(page.items \cup {k}) = Cardinality(page.items)
             \/ Cardinality(page.items \cup {k}) = Cardinality(page.items) + 1
      BY <2>1, FS_AddElement
    <3> QED BY <3>1, <1>3
  <2>3. Cardinality(items) <= Cardinality(page.items \cup {k}) /\ Cardinality(items) \in Nat
    BY <2>2, <1>7, FS_Subset, KeysFinite
  <2>4. Cardinality(page.todo \ {k}) = Cardinality(page.todo) - 1 /\ IsFiniteSet(page.todo \ {k})
    BY <2>1, <1>4, FS_RemoveElement
  <2>5. Cardinality(page.todo \ {k}) \in Nat /\ Cardinality(page.items \cup {k}) \in Nat
    BY <2>2, <2>4, FS_CardinalityType
  <2> QED BY <2>2, <2>3, <2>4, <2>5, <1>3
<1>10. todo = page.todo \ {k}
  <2>1. CASE Cardinality(items) = Limit
    <3>1. Cardinality(page.todo \ {k}) = 0
      BY <2>1, <1>3, <1>9, KeyNat
    <3>2. page.todo \ {k} = {}
      <4>1. IsFiniteSet(page.todo \ {k})
        BY <1>2, KeysFinite
      <4> QED BY <3>1, <4>1, FS_EmptySet
    <3> QED BY <2>1, <3>2
  <2> QED BY <2>1
<1> HIDE DEF todo
<1>11. /\ p \in Pages /\ p.items = items /\ p.todo = todo /\ p.at = page.at
       /\ p.drained = page.drained
  <2>1. todo \in SUBSET Keys /\ page.scanned + 1 \in Nat
    BY <1>2, <1>10
  <2> QED BY <2>1, <1>2, <1>7 DEF Pages
<1> HIDE DEF p
<1>12. Ahead(p)
  <2>1. ASSUME NEW t \in todo PROVE k < t
    <3>1. t \in Nat /\ k <= t /\ t # k
      BY <1>2, <1>4, <1>10, KeyNat
    <3> QED BY <3>1, <1>5
  <2>2. \A i \in items : i \in page.items \/ i = k
    BY <1>7
  <2> QED BY <2>1, <2>2, <1>3, <1>5, <1>10, <1>11 DEF Ahead
<1>13. TakenUpTo(p)
  <2>1. \A j \in items \cup todo : j <= page.at
    BY <1>3, <1>5, <1>7, <1>10
  <2>2. ASSUME NEW j \in steady, cursor < j, j <= page.at PROVE j \in items \cup todo
    BY <2>2, <1>3, <1>7, <1>10
  <2> QED BY <2>1, <2>2, <1>3, <1>11 DEF TakenUpTo
<1>14. Cardinality(items) + Cardinality(todo) <= Limit
  BY <1>3, <1>9, <1>10, KeyNat
<1>15. /\ \A j \in items : cursor < j /\ j <= page.at
       /\ todo = {} => \A j \in steady : cursor < j /\ j <= page.at => j \in items
  BY <1>11, <1>12, <1>13 DEF Ahead, TakenUpTo
<1>16. ASSUME Cardinality(items) < Limit PROVE ReadsWell(p)
  <2>1. KvRoom(p)
    BY <1>3, <1>11, <1>14, <1>16 DEF KvRoom
  <2>2. Cardinality(p.items) <= Limit
    BY <1>9, <1>11, <1>16, KeyNat
  <2>3. StaleInv => Known(p)
    BY <1>0, <1>3, <1>8, <1>11 DEF Known
  <2> QED BY <2>1, <2>2, <2>3, <1>0, <1>11, <1>12, <1>13 DEF ReadsWell, WellMade
<1>17. CASE todo # {}
  <2>1. Cardinality(items) < Limit
    <3>1. Cardinality(todo) # 0 /\ Cardinality(todo) \in Nat
      <4>1. IsFiniteSet(todo)
        BY <1>2, <1>10, KeysFinite
      <4> QED BY <4>1, <1>9, <1>10, <1>17, FS_EmptySet
    <3> QED BY <3>1, <1>9, <1>14, KeyNat
  <2>2. Reading(p)
    BY <1>0, <1>17
  <2> QED BY <1>0, <1>1, <1>16, <2>1, <2>2 DEF Advance
<1>18. CASE todo = {}
  <2>0. KvPageRead(p)
    BY <1>0, <1>18
  <2>1. CASE page.drained
    <3>1. Finish(items, 0)
      BY <2>0, <2>1, <1>11 DEF KvPageRead
    <3>2. EndsWell(items, 0)
      BY <2>1, <1>3, <1>7, <1>8, <1>15, <1>18 DEF EndsWell
    <3> QED BY <1>0, <1>1, <3>1, <3>2 DEF Advance
  <2>2. CASE ~page.drained /\ (Cardinality(items) = Limit \/ p.scanned >= KvBudget)
    <3>1. Finish(items, page.at)
      BY <2>0, <2>2, <1>11 DEF KvPageRead
    <3>2. page.at # 0
      BY <1>2, <1>5
    <3>3. EndsWell(items, page.at)
      BY <3>2, <1>2, <1>3, <1>7, <1>8, <1>15, <1>18 DEF EndsWell
    <3> QED BY <1>0, <1>1, <3>1, <3>3 DEF Advance
  <2>3. CASE ~page.drained /\ ~(Cardinality(items) = Limit \/ p.scanned >= KvBudget)
    <3>1. Reading(p)
      BY <2>0, <2>3, <1>11 DEF KvPageRead
    <3>2. Cardinality(items) < Limit
      <4>1. Cardinality(todo) \in Nat /\ Cardinality(items) # Limit
        BY <2>3, <1>9, <1>10
      <4> QED BY <4>1, <1>9, <1>14, KeyNat
    <3> QED BY <1>0, <1>1, <1>16, <3>1, <3>2 DEF Advance
  <2> QED BY <2>1, <2>2, <2>3
<1> QED BY <1>17, <1>18

-----------------------------------------------------------------------------

LEMMA ListNextKeeps ==
    ListInv /\ [ListNext]_listVars => ListInv'
<1> SUFFICES ASSUME ListInv, [ListNext]_listVars PROVE ListInv'
  OBVIOUS
<1>1. CASE Ask
  BY <1>1, AskKeeps
<1>2. CASE Refuse
  BY <1>2, RefuseKeeps
<1>3. CASE ReferenceList \/ ReferenceCount \/ SqlList \/ SqlCount \/ DynamoListQuery
           \/ FakeDynamoList \/ DynamoCountQuery \/ Smembers \/ Hget \/ KvList \/ KvGet
  <2>1. Advance
    BY <1>3, ReferenceAdvances, SqlAdvances, DynamoListAdvances, FakeAdvances,
       DynamoCountAdvances, SmembersAdvances, HgetAdvances, KvListAdvances, KvGetAdvances
  <2> QED BY <2>1, AdvanceKeeps
<1>4. ASSUME NEW k \in Keys, Propagate(k) PROVE ListInv'
  BY <1>4, PropagateKeeps
<1>5. ASSUME NEW k \in Keys, NEW st \in States, Write(k, st) PROVE ListInv'
  BY <1>5, WriteKeeps
<1>6. CASE UNCHANGED listVars
  <2>1. UNCHANGED <<config, rows, replica, scopeSet, valueSets, writes, phase, cursor,
                    page, returned, steady, fresh, cut>>
    BY <1>6 DEF listVars, storeVars
  <2>2. NothingTwice' /\ Behind' /\ Complete' /\ OnePage' /\ PageInv'
    BY <2>1, FewerSteady
  <2>3. ListTypeOK' /\ SteadyMatch' /\ SetsCover'
    BY <2>1 DEF ListInv, ListTypeOK, SteadyMatch, SetsCover, Matching, Satisfies, IsLive
  <2> QED BY <2>2, <2>3 DEF ListInv
<1> QED BY <1>1, <1>2, <1>3, <1>4, <1>5, <1>6 DEF ListNext, ReadStep

\* A step returns only what is fresh, and knows what is.
LEMMA ListNextKnows ==
    ASSUME Respelled = {}, ListInv, StaleInv, [ListNext]_listVars
    PROVE  StaleInv' /\ (ListNext => \A k \in Keys : returned'[k] > returned[k] => k \in fresh)
<1> DEFINE Aged == \A k \in Keys : returned'[k] > returned[k] => k \in fresh
<1> SUFFICES StaleInv' /\ Aged
  OBVIOUS
<1>0. ASSUME returned' = returned PROVE Aged
  <2>1. \A k \in Keys : returned[k] \in Nat
    BY DEF ListInv, ListTypeOK
  <2> QED BY <1>0, <2>1
<1>1. CASE Ask
  <2>1. returned' = returned
    BY <1>1 DEF Ask
  <2> QED BY <1>0, <1>1, <2>1, AskKeeps
<1>2. CASE Refuse
  <2>1. returned' = returned
    BY <1>2 DEF Refuse
  <2> QED BY <1>0, <1>2, <2>1, RefuseKeeps
<1>3. CASE ReferenceList \/ ReferenceCount \/ SqlList \/ SqlCount \/ DynamoListQuery
           \/ FakeDynamoList \/ DynamoCountQuery \/ Smembers \/ Hget \/ KvList \/ KvGet
  <2>1. Advance
    BY <1>3, ReferenceAdvances, SqlAdvances, DynamoListAdvances, FakeAdvances,
       DynamoCountAdvances, SmembersAdvances, HgetAdvances, KvListAdvances, KvGetAdvances
  <2>2. ListTypeOK
    BY DEF ListInv
  <2> QED BY <2>1, <2>2, AdvanceKnows
<1>4. ASSUME NEW k \in Keys, Propagate(k) PROVE StaleInv' /\ Aged
  <2>1. returned' = returned
    BY <1>4 DEF Propagate
  <2> QED BY <1>0, <1>4, <2>1, PropagateKeeps
<1>5. ASSUME NEW k \in Keys, NEW st \in States, Write(k, st) PROVE StaleInv' /\ Aged
  <2>1. returned' = returned
    BY <1>5 DEF Write
  <2> QED BY <1>0, <1>5, <2>1, WriteKeeps
<1>6. CASE UNCHANGED listVars
  <2>1. UNCHANGED <<config, rows, replica, scopeSet, valueSets, phase, page, returned, fresh>>
    BY <1>6 DEF listVars, storeVars
  <2>2. StaleInv'
    BY <2>1 DEF StaleInv, IndexAgrees, FreshInv, Known, Matching, Satisfies, IsLive, ByIndex
  <2> QED BY <1>0, <2>1, <2>2
<1> HIDE DEF Aged
<1> QED BY <1>1, <1>2, <1>3, <1>4, <1>5, <1>6 DEF ListNext, ReadStep

\* Whatever is written around them, the parts of a listing keep their types,
\* and no page holds more than was asked for.
THEOREM ListTypeCorrect == ListSpec => []ListTypeOK
<1>1. ListInit => ListInv
  BY ListInitInv
<1>2. ListInv /\ [ListNext]_listVars => ListInv'
  BY ListNextKeeps
<1>3. ListInv => ListTypeOK
  BY DEF ListInv
<1> QED BY <1>1, <1>2, <1>3, PTL DEF ListSpec

\* No record is on two pages of a listing (NothingTwice), in any adapter.
THEOREM NoneTwice == ListSpec => []NothingTwice
<1>1. ListInit => ListInv
  BY ListInitInv
<1>2. ListInv /\ [ListNext]_listVars => ListInv'
  BY ListNextKeeps
<1>3. ListInv => NothingTwice
  BY DEF ListInv
<1> QED BY <1>1, <1>2, <1>3, PTL DEF ListSpec

\* A record that matches from the first page to the last is on one of them
\* (NothingMissed), unless a scan met its cap.
THEOREM NoneMissed == ListSpec => []NothingMissed
<1>1. ListInit => ListInv
  BY ListInitInv
<1>2. ListInv /\ [ListNext]_listVars => ListInv'
  BY ListNextKeeps
<1>3. ListInv => NothingMissed
  BY DEF ListInv, Complete, NothingMissed
<1> QED BY <1>1, <1>2, <1>3, PTL DEF ListSpec

\* The index sets in Redis are exactly the records' (IndexAgrees), when Lua
\* and JavaScript spell every value alike.
THEOREM IndexIsExact == ASSUME Respelled = {} PROVE ListSpec => []IndexAgrees
<1>1. ListInit => ListInv /\ StaleInv
  BY ListInitInv
<1>2. ListInv /\ StaleInv /\ [ListNext]_listVars => (ListInv /\ StaleInv)'
  BY ListNextKeeps, ListNextKnows
<1>3. StaleInv => IndexAgrees
  BY DEF StaleInv
<1> QED BY <1>1, <1>2, <1>3, PTL DEF ListSpec

\* No item of a page is one that matched at no moment of the call, in the table
\* or in the copy that answered (NoStaleItem), when Lua and JavaScript spell
\* every value alike.
THEOREM NoneStale == ASSUME Respelled = {} PROVE ListSpec => NoStaleItem
<1>1. ListInit => ListInv /\ StaleInv
  BY ListInitInv
<1>2. ListInv /\ StaleInv /\ [ListNext]_listVars => (ListInv /\ StaleInv)'
  BY ListNextKeeps, ListNextKnows
<1>3. ListInv /\ StaleInv /\ [ListNext]_listVars
        => [\A k \in Keys : returned'[k] > returned[k] => k \in fresh]_listVars
  BY ListNextKnows
<1> QED BY <1>1, <1>2, <1>3, PTL DEF ListSpec, NoStaleItem
=============================================================================
