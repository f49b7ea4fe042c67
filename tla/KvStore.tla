------------------------------- MODULE KvStore -------------------------------
(***************************************************************************)
(* KvDataStore (adapter-cf) over Workers KV, which has get, put and delete *)
(* and no conditional write.  Every operation reads the envelope and then  *)
(* writes without a condition what it made of it.  A version a caller      *)
(* expects is ignored, so the guarded kinds do not occur.  Reads are taken *)
(* as consistent; KV's staleness comes on top.                             *)
(***************************************************************************)
EXTENDS CasSteps

vars == <<callVars, casVars>>

\* The outcome an operation draws from its read, or "kvWrite".
AfterRead(c) ==
    CASE kind[c] = "create" -> IF row.st = "live" THEN "exists" ELSE "kvWrite"
      [] kind[c] = "put" -> "kvWrite"
      [] OTHER -> IF row.st = "live" THEN "kvWrite" ELSE "miss"

Load(c) ==
    /\ Ready(c)
    /\ seen' = [seen EXCEPT ![c] = row]
    /\ Step(c, AfterRead(c))
    /\ UNCHANGED cur

\* The next version follows the one read, a tombstone's included.
KvPut(c) ==
    /\ pc[c] = "kvWrite" /\ kind[c] \notin Deletes
    /\ Commit(c, Live(seen[c].ver + 1, UpdateValue(c)))
    /\ UNCHANGED casVars

KvDelete(c) ==
    /\ pc[c] = "kvWrite" /\ kind[c] \in Deletes
    /\ CommitDelete(c, IF soft THEN Dead(seen[c].ver + 1) ELSE Absent)
    /\ UNCHANGED casVars

CallStep(c) == Load(c) \/ KvPut(c) \/ KvDelete(c)

TypeOK ==
    /\ row \in Row /\ reply \in [Calls -> Envelope] /\ seen \in [Calls -> Row]
    /\ pc \in [Calls -> {"idle", "kvWrite"} \cup Outcomes]
=============================================================================
