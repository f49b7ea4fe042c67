------------------------------ MODULE ListPages ------------------------------
(***************************************************************************)
(* A client that lists one scope page by page while other requests write   *)
(* to it, and the counts, in every adapter of the DataStore port.          *)
(*                                                                         *)
(* The reference and the SQL adapters read a page in one step.  DynamoDB   *)
(* reads it in several Query requests, of the partition or of an index,    *)
(* none of which asks for a consistent read: each may be answered from a   *)
(* copy that trails the table.  Redis reads an index set and then record   *)
(* by record; Workers KV lists key names and then reads each.  Between two *)
(* such steps any write may land.                                          *)
(***************************************************************************)
EXTENDS Integers, FiniteSets, FiniteSetsExt

CONSTANTS
    MaxKey,       \* keys are 1..MaxKey, in the order of their strings
    Values,       \* values of the filtered field
    Respelled,    \* those Lua's tostring and JavaScript's String spell differently
    Limit,        \* rows asked for in a page
    ScanCap,      \* SCAN_CAP of the unindexed scans
    KvBudget,     \* Limit * KV_LIST_SCAN_MULTIPLE, the names a KV page may read
    MaxWrites     \* bound: writes during the pagination

Keys == 1..MaxKey

\* What a key's record is: its field's value, nothing, or a tombstone.
States == Values \cup {"none", "tombstone"}

ASSUME ListAssumption ==
    /\ MaxKey \in Nat /\ Limit \in Nat \ {0}
    /\ ScanCap \in Nat \ {0} /\ KvBudget \in Nat \ {0} /\ MaxWrites \in Nat
    /\ Respelled \subseteq Values
    /\ {"none", "tombstone", "any"} \cap Values = {}

VARIABLES
    config,    \* backend, op ("list" or "count"), want (the filter), declared, soft
    rows,      \* each key's record: its field's value, "none" or "tombstone"
    replica,   \* what the trailing copy a DynamoDB Query may read holds of it
    scopeSet,  \* Redis: the scope's set of keys
    valueSets, \* Redis: the declared field's sets, by the name the set has
    phase,     \* "idle", "reading" (a page is in the making), "done" or "refused"
    cursor,    \* the client's: the key to resume after, 0 for none
    page,      \* the page in the making
    returned,  \* history: how often each key has been returned
    steady,    \* history: keys that have matched ever since the first page was asked for
    fresh,     \* history: keys that matched, in what the call in progress could read,
               \*   at some moment of it
    cut,       \* history: a scan has stopped at ScanCap
    writes     \* writes so far

storeVars == <<rows, replica, scopeSet, valueSets, writes>>
listVars == <<config, storeVars, phase, cursor, page, returned, steady, fresh, cut>>

AnyValue == "any"

\* A page in the making: the keys still to read, where the requests have got
\* to, whether nothing follows them, the rows read, the items found.
NoPage == [todo |-> {}, at |-> 0, drained |-> FALSE, scanned |-> 0, items |-> {}]

\* The n least members of S.
Least(S, n) == {k \in S : Cardinality({j \in S : j < k}) < n}
Last(S, default) == IF S = {} THEN default ELSE Max(S)

\* Faulty variant for sensitivity runs: a page resumes at its anchor.
AtOrAfter(S, k) == {j \in S : j >= k}

After(S, k) == {j \in S : j > k}

IsLive(st) == st \in Values
Satisfies(st) == IsLive(st) /\ config.want \in {AnyValue, st}
Matching(table) == {k \in Keys : Satisfies(table[k])}

\* What a backend that keeps tombstones has under the scope.
Stored == {k \in Keys : rows[k] # "none"}

\* The query names a declared index and a value for it.
ByIndex == config.declared /\ config.want # AnyValue
Capped == ~config.declared /\ config.want # AnyValue

-----------------------------------------------------------------------------
\* The end of a page.

Finish(items, next) ==
    /\ returned' = [k \in Keys |-> returned[k] + IF k \in items THEN 1 ELSE 0]
    /\ cursor' = next
    /\ phase' = IF next = 0 THEN "done" ELSE "idle"
    /\ page' = NoPage

Reading(p) == page' = p /\ UNCHANGED <<phase, cursor, returned>>

Unstored == UNCHANGED <<config, storeVars, steady>>

\* The client asks for the page after its cursor.
Ask ==
    /\ phase = "idle"
    /\ phase' = "reading"
    /\ page' = [NoPage EXCEPT !.at = cursor]
    /\ fresh' = Matching(rows) \cup IF config.backend = "dynamo" THEN Matching(replica) ELSE {}
    /\ UNCHANGED <<config, storeVars, cursor, returned, steady, cut>>

InPage(backend, op) ==
    phase = "reading" /\ config.backend = backend /\ config.op = op

-----------------------------------------------------------------------------
\* The reference: sorted keys past the cursor, tombstones and misses skipped;
\* one matching row more than the page holds makes a cursor.

ReferenceList ==
    /\ InPage("memory", "list")
    /\ LET hits == After(Matching(rows), cursor)
           items == Least(hits, Limit)
       IN  Finish(items, IF hits = items THEN 0 ELSE Max(items))
    /\ Unstored /\ UNCHANGED <<fresh, cut>>

ReferenceCount ==
    /\ InPage("memory", "count")
    /\ Finish(Matching(rows), 0)
    /\ Unstored /\ UNCHANGED <<fresh, cut>>

\* Faulty variant for sensitivity runs: the SELECT forgets deleted_at IS NULL.
SqlRowsDeletedToo(after, limit) ==
    Least(After({k \in Keys : rows[k] = "tombstone" \/ Satisfies(rows[k])}, after), limit)

\* D1 and Postgres: one SELECT with LIMIT limit + 1, and the page and cursor
\* the store makes of what it returned.
SqlWhere == Matching(rows)

SqlRows(after, limit) == Least(After(SqlWhere, after), limit)

SqlPage(found) ==
    LET items == Least(found, Limit)
    IN  Finish(items, IF Cardinality(found) > Limit THEN Max(items) ELSE 0)

SqlList ==
    /\ InPage("sql", "list")
    /\ SqlPage(SqlRows(cursor, Limit + 1))
    /\ Unstored /\ UNCHANGED <<fresh, cut>>

\* A count that would have to scan is refused by the adapters that cannot
\* bound it.
Unscannable ==
    /\ phase = "reading" /\ config.op = "count" /\ Capped
    /\ config.backend \in {"sql", "dynamo"}

Refuse ==
    /\ Unscannable
    /\ phase' = "refused" /\ page' = NoPage
    /\ Unstored /\ UNCHANGED <<cursor, returned, fresh, cut>>

SqlCount ==
    /\ InPage("sql", "count") /\ ~Unscannable
    /\ Finish(SqlWhere, 0)
    /\ Unstored /\ UNCHANGED <<fresh, cut>>

-----------------------------------------------------------------------------
\* DynamoDB.  Query evaluates Limit items past its start key, the filter on
\* deletedAt drops tombstones after that, and LastEvaluatedKey is set unless
\* the end of the partition was met.  What it reads, view, is the table as it
\* is or the copy that trails it, and the next Query may read the other one.

Views == {rows, replica}

Partition(view) == IF ByIndex THEN {k \in Keys : view[k] = config.want}
                   ELSE {k \in Keys : view[k] # "none"}

\* Faulty variant for sensitivity runs: every request of a page starts where
\* the page does.
EvaluatedAgain(view, start, limit) == Least(After(Partition(view), cursor), limit)

Evaluated(view, start, limit) == Least(After(Partition(view), start), limit)

\* The post-filter: what the index's key does not already match.
Wanted(view, items) == IF ByIndex THEN items ELSE items \cap Matching(view)

Served(view, items) == {k \in items : IsLive(view[k])}

\* The store's page: a row more than it holds makes its last one the cursor;
\* a shorter one goes on where the port says it stopped.
DynamoPage(found, stopped) ==
    LET items == Least(found, Limit)
    IN  Finish(items, IF Cardinality(found) > Limit THEN Max(items) ELSE stopped)

\* One Query and the loop over its items, which stops at the page's last row
\* (one more than Limit), or at the first item beyond the cap; the row that
\* meets the cap has already become the last one scanned.
QueryPage(view) ==
    LET evaluated == Evaluated(view, page.at, Limit + 1)
        items == Served(view, evaluated)
        within == IF Capped THEN Least(items, ScanCap - page.scanned) ELSE items
        found == Least(page.items \cup Wanted(view, within), Limit + 1)
        full == Cardinality(found) > Limit
        hitCap == ~full /\ within # items
        drained == After(Partition(view), Last(evaluated, page.at)) = {}
    IN  /\ cut' = (cut \/ hitCap)
        /\ IF full \/ hitCap \/ drained
           THEN DynamoPage(found, IF hitCap THEN Min(items \ within) ELSE 0)
           ELSE Reading([page EXCEPT !.at = Max(evaluated), !.items = found,
                                     !.scanned = @ + Cardinality(items)])

DynamoListQuery ==
    /\ InPage("dynamo", "list")
    /\ \E view \in Views : QueryPage(view)
    /\ Unstored /\ UNCHANGED fresh

\* The fake port of the conformance tests reads the whole scope at once, and
\* its capped scan counts tombstones too.
FakeDynamoList ==
    /\ InPage("fakeDynamo", "list")
    /\ LET past == After(Stored, cursor)
           within == IF Capped THEN Least(past, ScanCap) ELSE past
           found == Least(within \cap Matching(rows), Limit + 1)
           hitCap == Cardinality(found) <= Limit /\ within # past
       IN  /\ cut' = (cut \/ hitCap)
           /\ DynamoPage(found, IF hitCap THEN Min(past \ within) ELSE 0)
    /\ Unstored /\ UNCHANGED fresh

\* count: every page of the query, with nothing to stop it.
QueryCount(view) ==
    LET evaluated == Evaluated(view, page.at, Limit + 1)
        found == page.items \cup Wanted(view, Served(view, evaluated))
    IN  IF After(Partition(view), Last(evaluated, page.at)) = {}
        THEN Finish(found, 0)
        ELSE Reading([page EXCEPT !.at = Max(evaluated), !.items = found])

DynamoCountQuery ==
    /\ InPage("dynamo", "count") /\ ~Unscannable
    /\ \E view \in Views : QueryCount(view)
    /\ Unstored /\ UNCHANGED <<fresh, cut>>

\* The copy catches up with the table, one item at a time.
Propagate(k) ==
    /\ config.backend = "dynamo" /\ replica[k] # rows[k]
    /\ replica' = [replica EXCEPT ![k] = rows[k]]
    /\ steady' = steady \cap Matching(replica')
    /\ fresh' = fresh \cup Matching(replica')
    /\ UNCHANGED <<config, rows, scopeSet, valueSets, writes, phase, cursor, page,
                   returned, cut>>

-----------------------------------------------------------------------------
\* Redis.  count is list, page after page.

JsName(v) == v
LuaName(v) == IF v \in Respelled THEN <<"lua", v>> ELSE JsName(v)
SetNames == {JsName(v) : v \in Values} \cup {LuaName(v) : v \in Values}

Smembers ==
    /\ phase = "reading" /\ config.backend = "redis" /\ ~page.drained
    /\ LET set == IF ByIndex THEN valueSets[JsName(config.want)] ELSE scopeSet
       IN  Reading([page EXCEPT !.todo = After(set, cursor), !.drained = TRUE])
    /\ Unstored /\ UNCHANGED <<fresh, cut>>

\* The declared field's value was settled by the set the key was found in.
Residual(st) == IF ByIndex THEN IsLive(st) ELSE Satisfies(st)

\* The next key's HGETs.  The row after the last of a full page makes the
\* cursor; a scan at its cap returns what it has and no cursor.
Hget ==
    /\ phase = "reading" /\ config.backend = "redis" /\ page.drained
    /\ IF page.todo = {} \/ page.scanned = ScanCap
       THEN /\ Finish(page.items, 0)
            /\ cut' = (cut \/ page.todo # {})
       ELSE LET k == Min(page.todo)
                read == [page EXCEPT !.todo = @ \ {k}, !.scanned = @ + 1]
            IN  /\ UNCHANGED cut
                /\ IF ~Residual(rows[k]) THEN Reading(read)
                   ELSE IF Cardinality(page.items) = Limit
                   THEN Finish(page.items, Max(page.items))
                   ELSE Reading([read EXCEPT !.items = @ \cup {k}])
    /\ Unstored /\ UNCHANGED fresh

\* CAS_LUA's upkeep of the sets when key k's record becomes st: the record's
\* old set is named in Lua from the stored JSON, the new one by the client.

\* Faulty variant for sensitivity runs: the script adds to the new set only.
OldSetsKept(k) == {}

OldSets(k) == IF IsLive(rows[k]) THEN {LuaName(rows[k])} ELSE {}

NewSets(st) == IF IsLive(st) THEN {JsName(st)} ELSE {}

Reindex(k, st) ==
    /\ valueSets' = [n \in SetNames |->
                       (IF n \in OldSets(k) THEN valueSets[n] \ {k} ELSE valueSets[n])
                       \cup IF n \in NewSets(st) THEN {k} ELSE {}]
    /\ scopeSet' = IF IsLive(st) THEN scopeSet \cup {k} ELSE scopeSet \ {k}

-----------------------------------------------------------------------------
\* Workers KV.  The cursor is KV's own: after the last name it listed.

\* Faulty variant for sensitivity runs: each raw page asks for Limit names and
\* the page stops once it is full.
KvNeedWholePage == Limit

\* Names asked for: what the page still lacks.
KvNeed == Limit - Cardinality(page.items)

KvList ==
    /\ InPage("kv", "list") /\ page.todo = {}
    /\ LET names == Least(After(Stored, page.at), KvNeed)
           at == Last(names, page.at)
           drained == After(Stored, at) = {}
       IN  IF names = {} THEN Finish(page.items, 0)
           ELSE Reading([page EXCEPT !.todo = names, !.at = at, !.drained = drained])
    /\ Unstored /\ UNCHANGED <<fresh, cut>>

\* What follows the last get of a raw page.
KvPageRead(p) ==
    IF p.drained THEN Finish(p.items, 0)
    ELSE IF Cardinality(p.items) = Limit \/ p.scanned >= KvBudget
    THEN Finish(p.items, p.at)
    ELSE Reading(p)

KvGet ==
    /\ InPage("kv", "list") /\ page.todo # {}
    /\ LET k == Min(page.todo)
           hit == Satisfies(rows[k])
           items == page.items \cup IF hit THEN {k} ELSE {}
           todo == IF Cardinality(items) = Limit THEN {} ELSE page.todo \ {k}
           p == [page EXCEPT !.todo = todo, !.items = items, !.scanned = @ + 1]
       IN  IF todo = {} THEN KvPageRead(p) ELSE Reading(p)
    /\ Unstored /\ UNCHANGED <<fresh, cut>>

-----------------------------------------------------------------------------
\* The other requests: a create, put, update or patch leaves the record with
\* some value, a delete leaves nothing or a tombstone.
Write(k, st) ==
    /\ writes < MaxWrites /\ writes' = writes + 1
    /\ st \in Values \cup {IF config.soft THEN "tombstone" ELSE "none"}
    /\ ~IsLive(st) => IsLive(rows[k])
    /\ st # rows[k]
    /\ rows' = [rows EXCEPT ![k] = st]
    /\ IF config.backend = "redis" THEN Reindex(k, st)
                                   ELSE UNCHANGED <<scopeSet, valueSets>>
    /\ steady' = steady \cap Matching(rows')
    /\ fresh' = fresh \cup Matching(rows')
    /\ UNCHANGED <<config, replica, phase, cursor, page, returned, cut>>

-----------------------------------------------------------------------------

Adapters == {"memory", "sql", "dynamo", "fakeDynamo", "redis", "kv"}

Config ==
    { c \in [backend : Adapters, op : {"list", "count"},
             want : {AnyValue} \cup Values, declared : BOOLEAN, soft : BOOLEAN] :
        /\ c.backend = "kv" => c.op = "list" /\ ~c.declared
        /\ c.backend = "fakeDynamo" => c.op = "list"
        /\ c.want = AnyValue => ~c.declared }

ListInit ==
    /\ config \in Config
    /\ rows \in [Keys -> Values \cup {"none"} \cup IF config.soft THEN {"tombstone"} ELSE {}]
    /\ replica = rows
    /\ scopeSet = {k \in Keys : IsLive(rows[k])}
    /\ valueSets = [n \in SetNames |-> {k \in scopeSet : JsName(rows[k]) = n}]
    /\ phase = "idle" /\ cursor = 0 /\ page = NoPage
    /\ returned = [k \in Keys |-> 0]
    /\ steady = Matching(rows)
    /\ fresh = {} /\ cut = FALSE /\ writes = 0

ReadStep ==
    \/ Ask \/ ReferenceList \/ ReferenceCount \/ SqlList \/ SqlCount \/ Refuse
    \/ DynamoListQuery \/ FakeDynamoList \/ DynamoCountQuery \/ Smembers \/ Hget \/ KvList \/ KvGet

ListNext ==
    \/ ReadStep
    \/ \E k \in Keys : Propagate(k)
    \/ \E k \in Keys, st \in States : Write(k, st)

\* A pagination is a loop of its caller's: nothing but its own answers stops it.
ListSpec == ListInit /\ [][ListNext]_listVars /\ WF_listVars(ReadStep)

-----------------------------------------------------------------------------

ListTypeOK ==
    /\ config \in Config
    /\ rows \in [Keys -> States] /\ replica \in [Keys -> States]
    /\ scopeSet \subseteq Keys /\ valueSets \in [SetNames -> SUBSET Keys]
    /\ phase \in {"idle", "reading", "done", "refused"}
    /\ cursor \in Keys \cup {0}
    /\ page \in [todo : SUBSET Keys, at : Keys \cup {0}, drained : BOOLEAN,
                 scanned : Nat, items : SUBSET Keys]
    /\ Cardinality(page.items) <= Limit \/ config.op = "count"
    /\ returned \in [Keys -> Nat]
    /\ steady \subseteq Keys /\ fresh \subseteq Keys
    /\ cut \in BOOLEAN /\ writes \in 0 .. MaxWrites

\* A record that matches from the first page to the last is on one of the
\* pages, whatever is written around it and wherever a page ends: at a
\* record since deleted, in a run of tombstones, at a backend's page or KV's
\* read budget.  Only a scan that met ScanCap is outside it.
NothingMissed ==
    (phase = "done" /\ ~cut) => \A k \in steady : returned[k] >= 1

\* No record is on two pages, nor counted twice.
NothingTwice == \A k \in Keys : returned[k] <= 1

\* An item of a page matched at some moment of the call that returned it,
\* although its index set and its value may have been read at two moments: in
\* the table or, for a DynamoDB Query, in the copy it may be answered from.
NoStaleItem == [][\A k \in Keys : returned'[k] > returned[k] => k \in fresh]_listVars

\* Redis: after every script the field's sets hold exactly the records whose
\* field has that value, so an index listing misses none and invents none.
IndexAgrees ==
    config.backend = "redis" =>
        /\ scopeSet = {k \in Keys : IsLive(rows[k])}
        /\ \A v \in Values : valueSets[JsName(v)] = {k \in Keys : rows[k] = v}

\* Every pagination ends: no cursor leads back to itself, and no run of
\* tombstones or of rows the filter drops keeps a loop going.
PagesEnd == <>(phase \in {"done", "refused"})

\* The comment on the capped scan (adapter-aws dataStore.ts): the next call
\* continues the partition rather than dropping the unscanned tail.
CapDropsNothing ==
    (phase = "done" /\ config.backend = "dynamo") => \A k \in steady : returned[k] >= 1
=============================================================================
