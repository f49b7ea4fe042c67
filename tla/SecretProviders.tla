--------------------------- MODULE SecretProviders ---------------------------
(***************************************************************************)
(* getSigningKey for one key id over the three SecretProviders, while an   *)
(* operator may provision and revoke the key's material once.              *)
(*                                                                         *)
(* Node caches the imported key, stamped when the import is done.  The     *)
(* Secrets Manager one caches the promise of the read that is under way,   *)
(* stamped when it started, so that later calls join it; a read that fails *)
(* or finds nothing takes the entry away.  The env one reads nothing, its  *)
(* material being the deployment's: it caches the promise of its import,   *)
(* for good, and whoever sees it rejected takes the entry away.  Each      *)
(* server has a cache of its own.                                          *)
(***************************************************************************)
EXTENDS Integers

CONSTANTS
    Requests,
    Servers,
    CacheTtl,     \* cacheTtlMs
    MaxRead       \* within which a source answers and an import ends

VARIABLES
    now,
    server,      \* which handles a request; fixed
    provider,    \* which SecretProvider; fixed
    material,    \* the source has the key
    revokedAt,   \* history: when it was taken away; Never
    cache,       \* of each server: the entry's stamp, and the call it is of
    lookup,      \* where a call is: idle, reading, importing, joined, key, none, failed
    leader,      \* the call whose promise it awaits
    asked        \* when it was made

Providers == {"node", "secretsManager", "env"}
Lookups == {"idle", "reading", "importing", "joined", "key", "none", "failed"}
Settled == {"key", "none", "failed"}
UnderWay == {"reading", "importing"}

Never == -1
NoEntry == [at |-> Never, by |-> "none"]
Entry(r) == [at |-> now, by |-> r]

SecretInit ==
    /\ provider \in Providers
    /\ material \in BOOLEAN
    /\ revokedAt = Never
    /\ cache = [h \in Servers |-> NoEntry]
    /\ lookup = [r \in Requests |-> "idle"]
    /\ leader = [r \in Requests |-> r]
    /\ asked = [r \in Requests |-> 0]

Look(r, l) == lookup' = [lookup EXCEPT ![r] = l]

\* r's server keeps e for this key id.
Cache(r, e) == cache' = [cache EXCEPT ![server[r]] = e]

\* Faulty variant for sensitivity runs: the entry never goes stale.
CachedForGood(r) == cache[server[r]] # NoEntry

Cached(r) ==
    LET e == cache[server[r]] IN e # NoEntry /\ now - e.at < CacheTtl

Ask(r) == lookup[r] = "idle" /\ asked' = [asked EXCEPT ![r] = now]

LookUpNode(r) ==
    /\ provider = "node"
    /\ Ask(r)
    /\ Look(r, IF Cached(r) THEN "key" ELSE "reading")
    /\ UNCHANGED <<material, revokedAt, cache, leader>>

\* A settled promise is as good as one under way: it is awaited all the same.
Join(r) ==
    /\ Look(r, "joined")
    /\ leader' = [leader EXCEPT ![r] = cache[server[r]].by]
    /\ UNCHANGED cache

\* r is at l, and others may join it.
Lead(r, l) ==
    /\ Look(r, l)
    /\ Cache(r, Entry(r))
    /\ UNCHANGED leader

LookUpSecretsManager(r) ==
    /\ provider = "secretsManager"
    /\ Ask(r)
    /\ \/ Cached(r) /\ Join(r)
       \/ ~Cached(r) /\ Lead(r, "reading")
    /\ UNCHANGED <<material, revokedAt>>

LookUpEnv(r) ==
    /\ provider = "env"
    /\ Ask(r)
    /\ \/ ~material /\ Look(r, "none") /\ UNCHANGED <<cache, leader>>
       \/ material /\ cache[server[r]] # NoEntry /\ Join(r)
       \/ material /\ cache[server[r]] = NoEntry /\ Lead(r, "importing")
    /\ UNCHANGED <<material, revokedAt>>

\* The source answers as it is now; nothing there evicts.
ReadSource(r) ==
    /\ lookup[r] = "reading"
    /\ \/ /\ material
          /\ Look(r, "importing")
          /\ UNCHANGED cache
       \/ /\ ~material
          /\ Look(r, "none")
          /\ Cache(r, NoEntry)
    /\ UNCHANGED <<material, revokedAt, leader, asked>>

ImportKey(r) ==
    /\ lookup[r] = "importing"
    /\ Look(r, "key")
    /\ IF provider = "node" THEN Cache(r, Entry(r)) ELSE UNCHANGED cache
    /\ UNCHANGED <<material, revokedAt, leader, asked>>

\* Faulty variant for sensitivity runs: the rejected promise stays.
EvictsNone(r) == FALSE

\* The read or the import throws.
Evicts(r) == provider \in {"secretsManager", "env"}

LookUpFails(r) ==
    /\ lookup[r] \in UnderWay
    /\ Look(r, "failed")
    /\ IF Evicts(r) THEN Cache(r, NoEntry) ELSE UNCHANGED cache
    /\ UNCHANGED <<material, revokedAt, leader, asked>>

\* The awaited promise settles.  The env provider's every caller evicts a
\* rejected one, whatever its entry is by then.
JoinedSettles(r) ==
    /\ lookup[r] = "joined"
    /\ lookup[leader[r]] \in Settled
    /\ Look(r, lookup[leader[r]])
    /\ IF provider = "env" /\ lookup[leader[r]] = "failed"
       THEN Cache(r, NoEntry)
       ELSE UNCHANGED cache
    /\ UNCHANGED <<material, revokedAt, leader, asked>>

LookUp(r) == LookUpNode(r) \/ LookUpSecretsManager(r) \/ LookUpEnv(r)

LookUpStep(r) ==
    \/ ReadSource(r) \/ ImportKey(r) \/ LookUpFails(r) \/ JoinedSettles(r)

\* The lifecycle tool takes the material away.
Revoke ==
    /\ material
    /\ material' = FALSE
    /\ revokedAt' = now
    /\ UNCHANGED <<cache, lookup, leader, asked>>

\* The clock cannot pass what a source takes at most.
ReadsInTime == \A r \in Requests :
    (lookup[r] \in UnderWay) => now - asked[r] < MaxRead

SecretTypeOK ==
    /\ provider \in Providers
    /\ material \in BOOLEAN
    /\ lookup \in [Requests -> Lookups]
    /\ leader \in [Requests -> Requests]
    /\ \A h \in Servers : cache[h] = NoEntry \/ cache[h].by \in Requests
=============================================================================
