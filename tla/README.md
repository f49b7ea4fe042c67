# Verification of smithy-hono

smithy-hono generates TypeScript services from Smithy models and runs them on
Hono over four platforms: Node with Redis or Postgres, AWS, Cloudflare, and
in-process memory. This directory holds TLA+ models of its runtime: the data
stores, lists, live streams, keys, sessions, signatures, rate limits, the
request pipeline, the browser's side of a login, the MCP server, the generated
handlers and the deployment tools. TLC checks each model on a small instance;
TLAPS proves the most important facts for every value of the constants. Every
definition follows the source under `src/packages` (and, for the generated
code, `src/src/main/java`); `PROJECT.json` maps each one to its lines.

## 1. Inventory

| Part | State it keeps | Operations | Who calls it | What is hard | What makes it correct |
|---|---|---|---|---|---|
| `data-core` port and in-memory store | rows: value, version, deletedAt | get, create, put, update, patch, delete | generated operations, `withLiveNotify` | a guarded call reads first and writes later | a version names one content; a guard that passes loses nothing; a refusal is final |
| `adapter-aws` DynamoDataStore | the same rows in DynamoDB | the same, as Gets and conditional Puts | the same | two reads and a write per call; tombstones | every call is one atomic step of the port, or is refused without effect |
| `adapter-cf` D1DataStore, `adapter-postgres` | the same rows in SQL | the same, as autocommitted statements | the same | put reads and writes in two statements | the same |
| `adapter-node` RedisDataStore | a hash per row, index sets | the same: HGETs, then one Lua script | the same | the value and the version are read by two commands | the same |
| `adapter-cf` KvDataStore | a KV entry per row | the same, without conditions | the same | no compare-and-set at all | call by call it is the reference; the class documents last write wins |
| fake ports | a Map | the ports' calls | the adapters' conformance suites | they make atomic what the real ports do in two requests | the same as the real ports' |
| lists, counts, secondary indexes | index sets, GSI, cursors | list, count | generated list operations | pages, scan caps and read budgets, rows changing under a cursor | a row that is there throughout is returned, and once |
| generated handlers (Java emitter) | - | create, get, put, update, delete, list of a `@persisted` resource | routes; MCP | a hook is awaited between the read and the write | what was answered happened; no edit is lost under optimistic concurrency |
| `mcp-core` | a buffer of half a line | POST batches, stdio lines | MCP clients | an authorization challenge in the middle of a batch; lines and chunks | what was challenged did nothing; one answer per request, in order, up to one whose handling throws |
| `key-tool` | key material; directory entry (current, previous) | provision, rotate, revoke-previous, revoke | an operator, by hand or from CI | killed between two requests; two operators at once | a revoked key never verifies; the current key does; no key is out of the directory's reach |
| `security-core` sessions, adapters' SessionStores | one row per session id: idle deadline, absolute ceiling | get, touch, issue, rotate, logout | every cookie-authenticated request | requests overlap; time passes between any two store calls; lapsed rows stay in some stores | logout and rotation are final; sessions end |
| `realtime` and the Durable Object hub | a queue and a writer loop per connection; a poll loop or an SSE leg per subscription | subscribe, notify, poll, write a frame, abort | write path and the live route | notifications out of order, lost, before the subscription; wake-ups | a client that stays connected ends up with the current record |
| rate limiting | token buckets per key | consume | the pipeline | clock skew, lost compare-and-sets, expiry | never more than the bucket in a window, never less |
| request signing, nonces, secret providers | used nonces until they expire; cached keys | verify, claim, getSigningKey | the pipeline | two verifiers at once, skewed clocks, respelled copies; expired rows still there; a key revoked while cached | a signature is accepted once; a revoked key stops in time |
| request pipeline | requests in flight | thirteen stages and the handler | Hono | a timer answers while the stages go on; stores that hang or fail | no handler before its guards; slots come back |
| configuration validation | - | `validateConfig` at boot | service start | what a check does not look at | an accepted configuration serves |
| OIDC login, `client-web` | transaction cookies; a tab's status and token | login, callback, refresh, logout, credentialed fetch | the browser | tabs that share a jar and nothing else; late and lost answers | no foreign login; a write once; a stale token heals |
| deployment tools | a state file; what is deployed | one run, again and again | an operator | killed between creating something and writing it down; recreated Workers | a run that says ok left a complete service; secrets are kept |
| audit, metrics, logs, headers, scaffolder, glue, schemas and clients | none | output | - | - | - |

How the parts meet. A request passes the pipeline: the limiters charge the
buckets, `authenticate` reads and slides the session or verifies the signature
against the key material that `key-tool` manages and a provider caches, and
claims its nonce; then the slot's policies read the record and the generated
handler calls the `DataStore` port. With `@live` the port is wrapped by
`withLiveNotify`, which notifies the hub after the write, and the hub feeds the
open streams. MCP's tools reach the same routes. Every store is reached over a
network, so two requests of one call are two steps. No part holds a lock or a
transaction across two requests: conditional writes are the only means of
exclusion, and what they leave open is what the models are about.

The hazards this gives rise to, each at its line with the properties that would
catch it, are the list `hazards` of `PROJECT.json`; where a property is claimed
only in part, or not at all, the hazard says so and section 5 shows why.

## 2. The modules

| Module | Models | Run |
|---|---|---|
| `RecordCalls` | the vocabulary of the store models: one record, the calls on it, what the port promises | (by extension) |
| `DataStore` | the port, as the in-memory store implements it; the abstract specification of the adapters | in `store_concurrent`, `mcp` |
| `CasSteps` | the steps the table-backed stores share | (by instance) |
| `DynamoStore`, `SqlStore`, `RedisStore`, `KvStore` | the adapters and their ports | in `store_concurrent` |
| `FakePorts` | the Map-backed ports the adapters' tests run over | in `store_concurrent` |
| `StoreConformance` | a record in any of these against `DataStore` | `store_concurrent` |
| `ListPages` | list and count in every adapter, over changing rows | `pages`, `pages_dynamo_cap` |
| `CrudHandlers` | the emitted operations and their routes over `DataStore` | in `mcp` |
| `McpServer` | the POST and stdio transports over `CrudHandlers` | `mcp` |
| `KeyLifecycle` | key-tool's four operations over its backend | `keys` |
| `Sessions` | the session phase of requests over four SessionStores | `sessions` |
| `LiveStream` | the write path's notify, three hubs, one stream and its client | `live` |
| `NonceStores`, `SecretProviders` | the nonce claim over four stores; the key lookup over three providers | in `signed` |
| `SignedRequests` | verifySignature over both | `signed` |
| `TokenBuckets` | consume over four RateLimitStores | `buckets` |
| `Configuration` | SecurityConfig and every check of validateConfig | in `pipeline` |
| `Pipeline` | the middleware stack, routing, the policy slot, the handler | `pipeline` |
| `BrowserLogin` | tabs, the cookie jar, the login routes | `browser` |
| `Deploy` | deploy-cf, deploy-aws, deploy-node | `deploy` |
| `McpServer_proofs`, `StoreConformance_proofs`, `KeyLifecycle_proofs`, `Sessions_proofs`, `SignedRequests_proofs`, `Pipeline_proofs`, `BrowserLogin_proofs`, `LiveStream_proofs` | theorems | (proved) |

The `MC*` modules add symmetry sets and constraints for TLC; the configurations
give the constants their values. Definitions introduced as faulty variants are
not part of any specification: each stands for a plausible bug of the operation
below it, and putting it in that operation's place makes the property it is
listed with fail.

### 2.1 Data stores

A store call addresses one scoped key and two records never meet in a write, so
the model is one record (`row`: absent, live or dead, its version, its value)
and a set of calls in flight. The value is the set of edits it contains: call
`c` contributes the edit `c`, so "an edit was lost" can be said. A guarded call
(`updateIf`, `patchIf`, `deleteIf`) first gets the record and later passes the
version it got; an update writes the value its caller read plus the caller's
edit, a patch merges into what the store reads. `soft` says whether deletes
leave tombstones; it varies in every run. The record starts absent, live, or as
a tombstone.

`DataStore` translates `data-core/src/memory.ts`: every method is one
synchronous section, one action. The adapters' modules have an action for every
request to the database, in the order the code sends them, with the early
returns between them: `PatchRead` is the store class's own read, `UpdateCasRead`
and `UpdateWrite` the port's read and conditional write, `Reread` DynamoDB's
second look at a failed condition, `LoadValue` and `LoadVersion` Redis's two
HGETs, `*Eval` one run of its Lua script. `FakePorts` keeps the class's reads and
makes each port call one step.

`StoreConformance` holds the record in any of these back-ends. Its refinement
mapping leaves the record as it is and shows a call that is between two of its
requests as one that has not happened yet (`AtomicPc`). Then

- with `serial`, call by call, every back-end is the reference, down to which
  refusal a caller gets (`SerialMatchesReference`). The one difference is a
  parameter (`TombstoneBump`): the adapters' tombstones take a version of their
  own, the in-memory ones keep the record's. This is
  `data-core/src/conformance.ts` for all short sequences of calls instead of the
  written ones.
- without, every call still takes effect in one atomic step or is refused
  without effect (`ImplementsDataStore`), for every mix of calls that `Atomic`
  admits. The exclusions in `Atomic` are not simplifications: each names a mix
  for which the code is not atomic, and section 5 gives the traces.
- a refusal is honest in the same mixes and for Redis in all of them
  (`ConflictsAreReal`).

### 2.2 Lists

`ListPages` is one client that lists a scope page by page while other requests
write to it. The reference and the SQL adapters read a page in one step;
DynamoDB in several Queries, from the partition or from an index, each answered
by the table or by a copy that trails it (`Views`): no Query of the adapter asks
for a consistent read, its `get` does. Redis reads an index set and then each record; KV key names and then each
value, up to its read budget. Counts are operators over the same reads. The
bounds of the instance (limit 2, DynamoDB's scan cap 3, KV's budget 3, keys up
to 4) are smaller than the code's and in the same relation, so a page can end for
each of its reasons: full, cap, budget, end of data. `NothingMissed` and
`NothingTwice` speak of rows that are there and match throughout; `NoStaleItem` says
a page holds nothing that matched at no moment of its reading, neither in the
table nor in the copy that answered (what a copy still has is old, and was a
match once); `IndexAgrees`
relates Redis's index sets to its records; `PagesEnd` says a client that keeps
asking, of a scope that is left alone, comes to the end (fairness: the adapter's
own next read, `WF_vars(ReadStep)`).

### 2.3 Keys

`dir` is the client's directory entry, `material` the keyIds that have a
secret; a signature verifies iff its keyId has one, the server never looks at
the directory. An operation is a sequence of requests (`pc`), started by a read
of the directory (`Begin`) that it keeps in `entry`; `Crash` ends it anywhere.
`issued` and `retired` are what operators were told. Two history variables
appear only in properties: `condemned`, the keyIds some revoke set out to
delete, and `overlap`, whether two operations were ever under way together.

A key reported revoked never verifies again, with any overlap and any crash
(`RevokedStaysRejected`); while operators take turns, crashing or not, every key
that was handed out and verifies is one a revoke will find (`NoStrayKey`), and
the current key verifies (`CurrentVerifies`). `OverlapWindow`, `RevokeRejectsAll`,
`FirstProvisionWins` and `OneProvisionWins` are stated beside them; section 5
uses the last.

### 2.4 Sessions

A request (`pc`, `kind`, `cookie`) is an access, a logout or a login's
callback. It performs the store calls of `authenticate.ts`, `session.ts` and
`routes.ts` in order; each SessionStore answers a call in one step (memory) or
in up to two requests (Redis, DynamoDB, KV), so other requests and the clock
move in between. A row is its idle deadline `until`, its ceiling `cap` and
DynamoDB's `rev`. Time is in whole seconds. Redis drops a row at its deadline;
DynamoDB and KV keep it until swept, and the reader compares. A request may
fail at any step.

The claims are made per store, as the code can bear them. Revocation is final
except over KV (`RevokedStaysDead`); a refusal is final over memory and Redis
(`RefusedStaysDead`; the other two keep lapsed rows, which a request that was
accepted earlier may slide back to life); a logout that presents a lapsed session
is such a refusal: the route answers 204 and clears the cookie, but deletes
nothing (`authenticate.ts:242-262`), so over DynamoDB a slide that was computed
before can make the session resolve again until its idle end. No session outlives its idle time
(`IdleSessionsEnd`). KV's propagation delay is left out: reads see the last
write.

### 2.5 Live streams

One record with overlapping writers, one connection, any of three hubs (`hub`,
fixed per behaviour, like `soft`, record mode and whether the subscription is
scoped). A write commits, then its notification is in flight until `Notify`;
`inflight` is in commit order and any of its members may be next. The memory hub
hands the event to the endpoint at once; the Durable Object hub puts it in the
`pipe` of the subscription's leg, which may go down and up again; the polling
hub ignores it and reads the version itself, in the steps of its loop
(`PollBaseline`, `PollWakes`, `PollReads` or `PollFails`, `PollAnswer`), with
other steps between a read and what is done with its answer. The endpoint's
`queue` coalesces by type; its `loop` runs until its next await: asleep in
`waitNext`, or writing a frame to a client that may be slow. In record mode
(`pushRecords`) a frame carries the record, and the client takes what it is
given; otherwise the client, who is external, fetches, opens the stream,
refetches on a newer version, treats a delete as final, and may leave at any
time.

News can be missed in ways the code does not close: the write falls between the
client's fetch and the subscription (`early`), a notification or the leg is
lost (`lost`), notifications overtake each other (`reordered`), a record deleted
for good is created again at a version the client's guard refuses
(`restarted`), or a poller that has never seen the record cannot see it go
(`blind`). The history variable `gaps` collects them, only when the client
really lacks the news, and `Converges` and `NewsIsOnItsWay` speak of behaviours
without one. `DeleteEndsStream` says a queued delete ends the stream.

Fairness: the hub's and the endpoint's own steps, a notification, the client's
reading of frames and its refetch are weakly fair, since they are settled
promises and timers of a running event loop; a poll's read is strongly fair,
since a read that is tried again and again is assumed not to fail for ever.
Writers, aborts, outages and heartbeats are not fair. With heartbeats off
(`heartbeatMs: 0`) a lost wake-up would be fatal; that is why no liveness
property may lean on them.

### 2.6 Signatures

`SignedRequests` is what happens to the copies of one signed request: the
signer's retries, and copies respelled or changed on the way. A copy (`stage`:
idle, arrived, verified, accepted, refused) has its timestamp checked when its
header is read (`Arrive`), its key looked up, its canonical form verified
(`Verify`) and its signature claimed as a nonce (`Decide`), with arbitrary time
between. Cryptography is abstract: what matters is which copies the
code makes alike. Each part of a copy is as signed, respelled or changed, and
`Canonical` says which respellings `buildCanonicalString` undoes (the case of
the method, the order and escaping of the query, the spacing in headers; path
and body are taken as they are). Since the nonce is the signature, not the
request, a respelled copy must not buy a second run.

`NonceStores` is `checkAndStore` over the four stores: one step in memory, in
Redis and in the Durable Object; over DynamoDB an insert, and for a row that is
past its deadline but not yet swept a read, a conditional write and a
confirming read. Servers' clocks differ from the store's by at most `MaxDrift`.
`AcceptedOnce` holds however these interleave, with one reservation that the
code shares: the window is checked when the request arrives and the nonce lives
two windows from when it is claimed, so a copy that spends `Slack` (what the
forward skew and the clocks leave of a window, 4.5 minutes by default) between
the two may come after its sibling's nonce has lapsed.

`SecretProviders` is `getSigningKey`: the Node provider caches imported keys
and stamps them after the import, the Secrets Manager one caches the promise of
a read under way and stamps it before, the env one caches the promise of an
import for as long as it lives and drops it when the import fails. Requests that
find a promise join it (`Join`), and share its end. A revoked
key stops within `Grace`, which is different for the three (`RevokedStops`), and
a read that failed is not what later requests are served (`NoPinnedFailure`).

### 2.7 Rate limits

`TokenBuckets` is one bucket in any of the four stores, in integer tokens and
ticks. Beside it runs `ideal`, the bucket as the specification of a token
bucket has it, refilled by true time and charged for every request allowed
(computed from the moment the store read, since that is when the request was
judged). `NoOverspend` says the store never gives out more than `ideal` has,
`NeverHarsher` that it never holds less, `RetryHonest` that a refused caller
who waits as told is served. A DynamoDB caller whose compare-and-set lost every
time (`GiveUp`) is denied with what it would take to refill a bucket that is
full, a Retry-After of 0 (`hint` is marked `lost`): that hint is about the
contention, not the bucket, and `RetryHonest` leaves it out, as section 5 says.
Expiry and sweeps run behind the callers' backs:
dropping a bucket that is not full would be a gift.

DynamoDB's callers compute by their own clocks, which is worth at most
`Allowance` (the refill of twice the drift), once and not per request. Two gaps
are excluded by history variables and described in section 5: `swapped`, a write
that others came before (`overtaken`) and that still finds the version it read,
because versions begin again after a sweep, and `lagging`, a row that outlives
the longest elapsed time the code believes in. Rates are positive: a bucket without
refill never comes back and the code expires it all the same.

### 2.8 Pipeline and configuration

`Pipeline` runs requests through the thirteen stages in the order
`createSecurityPipeline` mounts them: cors, load shedding, header guards, the
per-address limit, body guards, authentication, signature, CSRF, the
per-principal limit, the two policies of the slot, `authorize`, the handler.
Any awaited stage may throw (`Throw`), and may have done its work by then: a
limiter's charge or a nonce's claim is stored and the answer lost (`Charge`,
`LoseClaim`), a handler takes effect in one step and ends in another
(`Handler`, `Respond`), with 200, or with an error thrown before or after it took
effect. The timer may answer any request inside
the shedder while its stages go on to their end (`Timeout`), so a handler may
take effect after its caller was told 504. `Routes`, `Urls`, `Resolved` and
`Dispatched` are the two readings of a URL: `resolveOp`'s, which selects the
guards, and the framework's, which selects the handler. That they agree on the
instance's table is the assumption `RoutesAgree`, a closed formula that TLC
evaluates; they need not agree on every table, and the framework's half is
external.

`SlotsAreExact`: the shedder's count is exactly the number of unanswered
admitted requests. `HandlerIsEntitled`: a handler that ran had its scheme
satisfied, its session's change came with the session's token from its own
site, its signature bought one run, and the limits were charged.
`RefusalIsFinal`: whomever a guard, a limiter or the shedder refused was told the
truth, the operation has no effect, then or later; of a 500 or a 504 nothing of
the kind can be said, and a 404 may be the handler's own. And under a configuration
that `validateConfig` accepts nobody is refused as unauthenticated who is not
(`NoSilentOutage`, with two exceptions: the one of section 5, and a caller whose
own nonce was stored without an answer and then found taken). `JudgedAsOne`: the policies of a slot judge one and the same load of
the record, though it may change hands while they wait.

`Configuration` is `SecurityConfig` and each check of `validateConfig`.
`Pipeline` reads the configuration where the code does; `MCSignedRequests` and
`MCTokenBuckets` assume their own parameters pass its checks.

### 2.9 The browser

`BrowserLogin` has tabs that share a cookie jar (`jar`, `txJar`) and nothing
else, the asynchronous calls at work (`call`: completeLogin, refresh, logout, a
write with its one retry), and the server's session store (`live`) and callback
route. A request carries the cookies of the moment it is sent; an answer
changes the jar when it arrives; any answer may be lost. The provider issues
one code per transaction; `Foreign` transactions were begun in another browser
and their callback URL is opened here.

The application is on the API's own site or on its allowlist, so the CSRF
middleware's refusal of a cross-site origin (`csrf.ts:159-168`) does not meet the
tabs' own calls; `Pipeline` has it. `Lose` is a network that loses a request or an
answer, and a rotation whose last step, the deletion of the session before, fails:
the caller is told 500 and both sessions stay
(`security-core/src/auth/session.ts:260-261`).

`NoForeignLogin`: such a URL does not sign this browser in. `WriteOnce`: the
transparent retry never carries a write out twice. `HealsStaleToken`: a write
ends refused for its token only if the session changed under way, an answer
about another session came in between, or an answer of its own was lost.
`NoOrphanSession`: signing in again leaves no usable session behind, unless
sign-ins and logouts overlap, an answer is lost or the deletion fails. `RefreshTellsTruth`: a
refresh nothing disturbed leaves the tab with what the jar and the store say.

### 2.10 Generated handlers and MCP

`CrudHandlers` is what `CrudEmitter.java` and `RouteEmitter.java` emit for a
`@persisted` resource: validators, `authorize`, the scoped store call, the
mapping of what is thrown to a status. A handler may fail before it writes
(`HandlerThrows`) or when it has written (`Concluded`); both are a 500. It extends `DataStore`: an operation is
one of its calls (`kind`), and an update is the generated read, the hook that is
awaited, and the write (`merging`), guarded when `optimisticConcurrency` is on.
`AnsweredTruly` ties the status to what the store did.

`McpServer` extends it with the two transports. A POST resolves its bearer
once, gates the whole batch, then dispatches it message by message; on stdin a
line may come in any chunks, may be too long, may lack its newline at the end.
`ChallengedRanNothing`: a batch answered with a challenge has run none of its
operations. `handleMessage` catches what a tool call throws and answers it; what
resources/list, resources/read or prompts/get throw escapes (`Escape`), the POST
fails and `serveStdio` ends (`phase` is then `"failed"`). `AnsweredInOrder`: every
message is handled once and in order, answered as its operation ended, and what
was dropped is reported; serving stops short only at a resource or a prompt, with
all before it handled and nothing behind it run.
`VersionNamesContent` and `NoLostEdit` are the port's promises, with hand-written
code calling the same store beside the routes.

### 2.11 Deployment

`Deploy` is one tool per behaviour (`tool`), run again and again. A run keeps a
copy of the state file (`mem`), reads and writes the file (`disk`), and changes
the cloud (`remote`, `live`, `code`, `wired`, `bound`, `applied`, `kube`); `Stop` is
a failed step or a kill between any two, `Tear` a kill in the middle of
`writeFileSync`, after which the file does not parse and no run gets past it
(`StateUnreadable`) until it is removed (`LoseStateFile`). On Kubernetes the Secret
(`kube.secret`) is what a run writes and `bound` what the pods have in their
environment, which is the Secret as it was when they started (`PodsStart`). Applying
the Deployment starts pods for the first time or for a new image tag; under a tag that
is used again (`~kube.pinned`, the default `latest`) it may start none, and the
Secret's new values wait for a `Restart`. A rollout may stall, which the tool
only warns of (`warned`). Between runs the state file may get lost,
the secrets file may be edited, emptied or lost, the Worker deleted, the
configuration may grow. `excused` collects the secrets for which an operator has
asked for a new value, or must expect one.

`OkMeansComplete`: on AWS a running service is never without a secret it declares,
and after a run that ended well has the secrets file's values. On Kubernetes the
Secret has them then; the pods are never without a secret of their version when
every run has an image tag of its own, and after such a run, if the rollout was
completed, they run the new image with the Secret's values. On Workers it may be until a run ends well, and then the
Worker is also wired to the only namespace and database of their names, unless a
listing could not be read. `KeysKept`: a
generated key in use keeps its value (deploy-cf and deploy-aws). `MigrationsAppendOnly`:
what a Worker has been through stays a prefix of its migrations.
`RerunHeals`: repeated runs get there, whatever happened, unless a torn state file
or an empty secrets file is in the way. Fairness: a run goes
on unless it is stopped (`Go`), and the operator repeats a run that did not end
well (`BeginRun`), both weakly fair; failures are bounded by `MaxFaults`, since a
step that always fails never heals. The migrations are sorted by rank: the i-th
tag is the one with i - 1 before it in the code's comparison.

## 3. Runs and bounds

| Run | Instance | Distinct states | Properties |
|---|---|---|---|
| `store_concurrent` | 3 calls of any kinds; 4 back-ends and 3 fakes; serial or not | 287 k | `ConflictsAreReal`, `ImplementsDataStore`, `SerialMatchesReference` |
| `pages` | 4 keys, 2 values, pages of 2, scan cap and read budget 3, 2 writes | 1.44 M | `NothingMissed`, `NothingTwice`, `IndexAgrees`, `NoStaleItem`, `PagesEnd` |
| `pages_dynamo_cap` | the same with 1 write | - | violates `CapDropsNothing` |
| `keys` | 3 keyIds, 2 operators | 702 k | `RevokedStaysRejected`, `NoStrayKey`, `CurrentVerifies` |
| `sessions` | 2 ids, 2 requests, idle 2 s, ceiling 3 s, 3 s | 2.96 M | `RevokedStaysDead`, `RefusedStaysDead`, `IdleSessionsEnd` |
| `live` | 4 commits, 2 in flight, a queue of 2 | 352 k | `NewsIsOnItsWay`, `Converges`, `DeleteEndsStream` |
| `signed` | 2 copies, 2 servers, window 3, drift 1, cache 2, read 1, 7 ticks | 1.70 M | `AcceptedOnce`, `RevokedStops`, `NoPinnedFailure` |
| `buckets` | 2 callers, capacity 3, rate 2, costs 1 and 3, drift 1, 8 ticks | 2.08 M | `NoOverspend`, `NeverHarsher`, `RetryHonest` |
| `pipeline` | 2 requests, 1 slot; 13 configurations | 1.36 M | `SlotsAreExact`, `HandlerIsEntitled`, `RefusalIsFinal`, `JudgedAsOne` |
| `browser` | 2 tabs, 3 calls, 3 transactions (1 foreign), 2 sessions, 1 lost answer or failed deletion | 1.36 M | `NoForeignLogin`, `WriteOnce`, `HealsStaleToken`, `NoOrphanSession`, `RefreshTellsTruth` |
| `deploy` | 2 secrets (1 from the file), 2 faults, 2 events, 1 more run | 937 k | `OkMeansComplete`, `KeysKept`, `MigrationsAppendOnly`, `RerunHeals` |
| `mcp` | 3 calls; a batch of up to 4 messages; 3 lines | 850 k | `VersionNamesContent`, `ChallengedRanNothing`, `AnsweredInOrder`, `NoLostEdit` |

Why these are enough.

- *Stores.* A call sends at most four requests, and a disturbance needs one
  interrupting call between two of them; three calls add a bystander whose
  edit can be lost.
- *Lists.* Four keys make two pages and a rest; the caps are one larger than
  the page, so that a page may end for either reason; two writes can delete a
  row and create one on either side of a cursor. `Observed` admits only writes
  the client can still see.
- *Keys, sessions.* Three keyIds are a current, a previous and a new one; two
  operators are a race. Two session ids are an old and a new one; three seconds
  reach both the idle deadline and the ceiling.
- *Streams.* Four commits make a create, an update, a delete and a create
  again; two notifications in flight can overtake. Two is the least queue
  that holds one event of each type, and the coalescing keeps it from ever
  holding more.
- *Signatures.* Two copies, of which one differs: two that differ are
  each judged against the signed request, not against one another. The window
  of 3 with drift 1 leaves a slack of 1, the least that separates a slow copy
  from a prompt one; seven ticks pass two windows and a sweep. Stores and
  providers vary apart (`StoreVaries`, `ProviderVaries`), since the claim does
  not depend on how the key was come by.
- *Buckets.* The costs are one token and the whole capacity, the rate does not
  divide the capacity; `Prompt` lets a write come at most a tick after its read;
  the least row lifetime and the longest elapsed time stand in the code's
  relation to the refill time.
- *Pipeline.* Two requests of which one is arbitrary meet in the single slot and
  in the nonce store; more of them meet nowhere else, and the theorems of section 4
  have no such bound. The record changes only while the probe's
  policies are at work (`Judging`).
- *Browser.* Two calls at a time out of three; again the theorems have no such
  bound.
- *Deploy.* Two faults and two events are a failed run whose repetition fails,
  and an event between the two; `MaxReruns` adds a run nothing asked for.
- *MCP.* The three parts of `MCMcpServer` separate what does not interact:
  the store's own calls, one POST, one stdin. Long lines are longer than the limit,
  short ones fit it together with a newline.

Every bound is a constant in a guard (`MaxCommits`, `MaxInFlight`, `MaxTime`,
`MaxRev`, `MaxVersion`, `MaxWrites`, `MaxFaults`, `MaxEvents`, `MaxReruns`,
`MaxSessions`, `MaxLost`, `Horizon`), a finite set, or a constraint named above.
Deadlock checking is off throughout: a behaviour ends when its finite inputs are
used up. Symmetry is used by safety runs only, over calls, keys, operators, ids,
requests, servers and callers, which the modules treat alike.

## 4. Proofs

All arguments have the same form: a typing invariant, an inductive
strengthening that TLC checked first, one step per action, and a last step by
temporal logic. The assumptions are those the modules name: kinds are store
operations, `TombstoneBump` is 0 or 1, `NoKey` and `NoSid` are not keys or ids,
TTLs, the signature window, the retries of the nonce store and the bucket's
numbers are positive, a refill takes no longer than `MaxElapsed`, the
forward skew is no longer than the window, `"none"` is not a transaction, there
is a tab, what marks an absent record, a tombstone and the absent filter are not
values, the requests of the pipeline are finitely many and its routes agree.
Sets of calls, keys, operators, ids, copies, servers, tabs and transactions are
arbitrary.

- `McpServer_proofs`, the store: `TypeCorrect`, `ChainHolds`,
  `VersionsNameContents`, `VersionsGrow`, `NoEditIsLost`, `ConflictsAreFinal`.
  With tombstones no envelope is from the future (`EnvelopesArePast`) and one
  whose version is still the record's has the record's content
  (`EnvelopesMatchRow`); these make `EnvelopesAgree` inductive (`ChainInv`). That
  a guarded write loses nothing follows, because a guard that passes names the
  present content.
- `McpServer_proofs`, the server: `ServerTypeCorrect`,
  `ServedVersionsNameContents`, `ServedNoEditIsLost`, `ChallengeRunsNothing`,
  `AnswersComeInOrder`, for any messages, any calls beside them, any lines, any
  buffer and any chunks, where TLC has three calls and three lines. The emitted
  handlers take the store through steps of `DataStore` only, so what is proved of
  it carries over; where a call is on its route says what it was told
  (`Routed`). A batch runs nothing before its gate, and what waits is the rest of
  it (`PostInv`). On stdin every line read so far is handled, waiting or lost, and
  the errors count the lost and the garbled ones (`ReadSoFar`, `Tally`). How many
  lines have been read follows from the symbols read (`LinesBy`): the ends of
  lines only grow, so those at or before a symbol are the first of them, by the
  least line that ends after it. Where a message's handling throws, what waited is
  dropped and nothing handles a line again, so what was handled, waiting and lost
  is still everything before it.
- `StoreConformance_proofs`: `TypeCorrect`, `BackendsImplementPort`,
  `SerialBackendsAreTheReference`, `ConflictsAreNews`, for any number of calls in
  any of the back-ends and the in-process ports, where TLC has three calls. What
  a call between its reads and its write has read need not be what the record is
  now; but if the condition of its write holds, what it writes is what it would
  have computed from the record as it is (`Sound`), so the write is one step of
  the port. For the mixes of `Atomic` that follows from how far other calls can
  have moved the record since (`Plan`); for calls in turn nobody has moved it,
  and a refusal has the reference's reason (`Still`). Each back-end has one lemma
  that says how its steps end: the record alone, a success, or an envelope
  (`Settles`); the rest of the argument does not know the back-ends. A conflict is
  news because a caller's version is never of the future and, when it is refused,
  not the present one (`Real`).
- `StoreConformance_proofs`, lists: `ListTypeCorrect`, `NoneTwice`, `NoneMissed`,
  `IndexIsExact`, `NoneStale`, for every back-end and any keys, values, limits,
  caps, budgets and writes, where TLC has four keys and two writes. What was
  returned is behind the cursor and nothing steady is left there (`Behind`,
  `Complete`); a page in the making has taken all that is steady between the
  cursor and where it stands (`WellMade`). Each request of a back-end reads on to
  such a page or ends one (`Advance`), because what it returns first is first in
  the order of keys (`IsStart`). That Redis's index is exact, and so that no page
  is stale, supposes `Respelled = {}`: with a number that Lua and JavaScript
  spell differently both are false (section 5). That no record is missed does
  not suppose it: of the sets, only that they cover the records is used.
- `KeyLifecycle_proofs`: `TypeCorrect`, `RevokedKeysStayRejected`,
  `NoKeyIsStray`, `CurrentKeyVerifies`, `RevokeIsTotal`. A key that was deleted on
  behalf of a revoke is not in flight to be written, because keyIds are minted
  once; and while operators take turns at most one operation is under way, so
  its copy of the directory is the directory's, up to its own writes
  (`TurnInv`). A crash leaves a state that satisfies the same conjuncts, which
  is why they speak of the entry rather than of the operation.
- `Sessions_proofs`: `TypeCorrect`, `RevocationIsFinal`, `RefusalIsFinal`,
  `IdleSessionsExpire`, `SlidesNeverBack`. A revoked id's row is gone and no
  request is about to write one there, which for DynamoDB needs that a
  conditional write names the version of a row that is present; a stored
  deadline is no further ahead than the idle TTL because every computed timeout
  is clamped before it is used.
- `SignedRequests_proofs`: `TypeCorrect`, `SignaturesBuyOnce`, `RevokedKeysStop`,
  `FailuresAreForgotten`, for any number of copies and servers, any window, skew,
  drift, retries, cache time and read time. No row is stored with a deadline
  before `Lapse`, because the copy that claims it came within its window
  (`Deadlines`); until then no row is stale or swept, so the first claim's row
  stays and whoever is fresh owns it (`Early`); from then on whoever is still
  served is slow (`LateIsSlow`). For the keys, what a read finds was there when
  it was asked for or later (`Readers`), a cache entry belongs to a read that did
  not fail (`Entries`), and who joins a read asked within the cache's time of it
  (`Joiners`).
- `Pipeline_proofs`: `TypeCorrect`, `SlotsStayExact`, `HandlersAreEntitled`,
  `RefusalsAreFinal`, `JudgedTogether`, `NoneIsFree`, for every finite set of
  requests, every bound of the shedder and every configuration, where TLC has
  two requests and thirteen configurations. A step of a stage does one of three
  things: it ends the request, advances it, or admits it to the shedder
  (`StepEnds`); each keeps the count (`SlotInv`). What a guard asked for
  is written once, by an earlier stage, so it stays true behind the guard
  (`RequestInv`); requests meet in the nonce store only (`Nonces`), which is
  why a refusal under an accepted configuration has its cause in the request or
  its copies (`Refusals`).
- `Pipeline_proofs`, buckets: `BucketTypeCorrect`, `NoneIsHarsher`,
  `RetriesAreHonest` (a bucket's hint, not that of lost retries), `NoneIsOverspent`,
  for every back-end, any capacity, rate,
  costs, drift and number of callers, and however late a write comes, where TLC
  has two callers and a write at most a tick after its read (`Prompt`). What a
  bucket would hold if it could hold any amount, and owe it, is a line that
  clocks do not move. Measured on it, the bucket, and what each caller has read
  and may still write, are worth no less than the ideal bucket (`Generous`) and,
  for a caller no write has come before, no more (`Stingy`); what may be dropped
  is full (`Lasts`). The first needs nothing else, so no sweep, swapped or
  late write makes a bucket harsher. The second supposes `RowsOutlast` and
  `RefillsInTime`: a DynamoDB row lives for a full refill, a second and three
  times the drift, and Redis refills within `MaxElapsed` less a second. Without
  either the claim is false (TLC has the traces), and section 5 says what that
  means for the code's 60 s and one hour.
- `BrowserLogin_proofs`: `TypeCorrect`, `LoginsAreOwn`, `WritesHappenOnce`,
  `StaleTokensHeal`, `NoneIsOrphaned`, `RefreshesTellTruth`, for any number of
  tabs, calls, transactions, sessions and lost answers. A call moves alone; one
  that nothing disturbed and whose answers all came knows the session
  (`Steady`); while sign-ins and logouts take turns each knows what it leaves in
  the store (`InTurn`); a write that may still be sent has not been carried out
  (`NotYet`). The generality matters here: that a late refresh answer disturbs
  other calls cannot be seen with three calls, only with four.

- `LiveStream_proofs`: `TypeCorrect`, `NewsKeepsComing`, for any number of
  commits, any bounds on the queue and on what is in flight, and each hub,
  deletion and deployment. What the client must still hear is in flight, in the
  hub's pipe, in the queue or in the frame being written: the newest version is
  there with no older one behind it, or a delete is (`Fresh`). Each step moves it
  one place on or puts a newer one behind it; the one that cannot counts a gap.
  Where a record is deleted for good and starts again at version 1, its old frame
  has the delete behind it (`RestartsTold`). What a poller read last, the client
  knows, asks for, or has in its queue (`Polls`).

- `KeyLifecycle_proofs`, deployment: `DeployTypeCorrect`, `OkIsComplete`,
  `KeysAreKept`, `MigrationsOnlyAppend`, for any secrets, and any number of
  failures, events and runs, where TLC has two secrets, two failures and two
  events. A run looks at every declared secret once (`LeftInv`), and one it is
  through with is bound (`PutInv`, `CacheInv`, `UseInv`); what a state file names
  exists, and once if every listing could be read (`ResourceInv`). A generated
  secret in use is in the state file, or about to be, or excused (`KnownInv`,
  `CacheInv`), and a listing holds for the secrets whose turn is still to come,
  because no secret has two turns. That migrations only append rests on the
  comparison alone: a tag the convention lets an operator add comes after every
  old one and leaves their order, hence their ranks (`NewTagGoesLast`), wherever
  it is put into the binding array.

Every safety property of a passing run is stated by a theorem. Liveness
(`Converges`, `DeleteEndsStream`, `PagesEnd`, `RerunHeals`) is out of the
prover's reach and stays with TLC. So is induction over data, with one way round
it: where a claim about all numbers or all lines is needed, the proof takes the
least one that fails (`LeastNatural` in `McpServer_proofs` and
`StoreConformance_proofs`).

## 5. Findings and divergences

One run shows a disagreement of the code with its own comment:
`pages_dynamo_cap`. `listRows` moves the resume point to a row and only then
notices that the scan cap is reached (`adapter-aws/src/dataStore.ts:942`), so
the next page begins after a row that nobody compared with the filter, where
`:386-387` promises to resume "past the last SCANNED id". The Map-backed fake of
the same package scans in the same order (`:1134-1138`), so its tests agree.

The following were met while modelling. None is hidden by a model: each is an
exclusion that a definition names, or a property that is stated and not
claimed.

*Stores* (the mixes excluded by `Atomic`; the fakes make atomic what the ports do
in two requests, so the conformance suite cannot see most of them):
- Everywhere but in Redis, with hard deletes: a patch that read a record can meet
  one deleted and created again at the same version. KV's writes have no
  condition at all, and the class says so; it is claimed call by call only.
- DynamoDB: a create that found no row takes no version along, and its condition
  accepts any tombstone: with a create and a delete in between it starts again
  at version 1 over that tombstone (`adapter-aws/src/dataStore.ts:713`, against
  `:685-689`). An unguarded soft delete guards its write by another read than
  the one it built the tombstone from (`:338`).
- SQL: `put` reads and writes in two statements, so two puts, or a put and an
  update, may share a version (`adapter-cf/src/dataStore.ts:573`,
  `adapter-postgres/src/dataStore.ts:681-691`, against `data-core/src/index.ts:46-47`).
- Redis: a get or a patch reads the value and the version by two commands; with a
  write in between it has the old value under the new version, and a patch then
  undoes the write it did not see (`adapter-node/src/dataStore.ts:500`, against `:397`).
- Redis names a value's index set with Lua's `tostring` in the script and with
  JavaScript's `String` in the client (`:153`): for a number that the two spell
  differently, `IndexAgrees` fails (the constant `Respelled`).

*Keys.* After a revoke, two provisions at once both succeed and one key is in
nobody's directory (`key-tool/src/lifecycle.ts:111`, against
`backend.ts:51-53`; `OneProvisionWins`).

*Sessions.* Over KV a touch between its read and its put undoes a logout
(`adapter-cf/src/sessionStore.ts:113`, against `storage/index.ts:74-77` of
security-core: touch reads, logout deletes, touch puts).

*Streams.* The endpoint's queue keeps the hint that arrived last, not the newest
(`realtime/src/endpoint.ts:72`, against `:52-54`; `ReorderingIsHarmless`). In
record mode an overtaken frame lets an older record stand, and nothing sends it
again.

*Rate limits.* Over DynamoDB a caller whose clock is ahead refills by it
(`adapter-aws/src/stores/rateLimit.ts:96`; `:4-5` says a bucket "MUST NOT
overspend", `:40-41` that an episode of skew is bounded, which is what
`NoOverspend` confirms; `ExactLimits` is the strict reading). A row's version
begins again at 1 once it was swept, so a compare-and-set can succeed against a
row it never read. A row's ttl is cut to whole seconds, by the caller's clock
(`:74`): if a bucket takes longer to refill than the floor of 60 s, its row may
be swept up to a second, and what the clocks differ by, before it is full, and
each such sweep is a gift of that much refill. Redis does the same in the last
second of a bucket that takes the whole `MAX_ELAPSED_MS` of one hour
(`adapter-node/src/tokenBucket.ts:197`). A caller who lost every compare-and-set
is denied with a Retry-After computed from a full bucket, which is 0
(`adapter-aws/src/stores/rateLimit.ts:80-82`); `storage/index.ts:104` of
security-core has 0 for an allowed request, and `conformance.ts:137` wants a
denial's to be positive.

*Lists.* DynamoDB's list and count send no `ConsistentRead`, on the partition as
little as on an index (`adapter-aws/src/dataStore.ts:922-934`, `:1008-1019`), where
`get` does (`:650`): a list may not show what the same caller has just written.

*Configuration and pipeline.*
- `validateConfig` does not look at `nonceForOps`: a read-only signed
  operation named there, without a nonce store, is accepted at boot and answers
  401 to everyone (`NoSilentOutage`'s exception; header of `validateConfig.ts:4-9`).
- Its `MISSING_NONCE_STORE` message offers `signing.replaySafeOps` as a way out
  (`:86-90`), which the check (`:45-47`, `:80`) does not look at.
- `resolveOp`'s order (`index.ts:201-215` of the pipeline) and a trie's agree
  on tables like the instance's; a table on which they differ would engage one
  operation's guards for another's handler.

*Browser.* A logout whose answer was a refusal has not ended the session, though
the tab says anonymous (`client-web/src/session.ts:211-221`, against
`README.md:31`; `LogoutEndsSession`). A refresh answer that comes late brings an
older session's token back into a tab (`:181-204`); the next write heals it.

*Generated code and MCP.*
- The emitted `_chain` drops the Response a slot middleware returns
  (`RouteEmitter.java:149-155`), so a refusal of `requireResourcePolicy` reaches
  the caller as 500; the checked-in `examples/secure-api/generated/notes.gen.ts`
  returns it. `Pipeline` models the latter.
- An update whose record disappears between its read and its write, or that
  loses a race without `optimisticConcurrency`, answers 500
  (`CrudEmitter.java:470-483`).
- A request without an id is a notification by `protocol.ts:126-127` of
  mcp-core; `handleMessage` answers an id-less ping or call with id null.
- Only tools/call catches what its dispatch throws (`protocol.ts:190-205`). A
  request that cannot be built for resources/list or resources/read (`:224`, `:246`),
  a body that cannot be read back, or a prompt's template that fails for any other
  reason than a missing argument (`:268`) rejects `handleMessage`: a POST fails
  although earlier messages of its batch have run, and `serveStdio` ends with the
  lines behind it unanswered (`stdio.ts:154-156`).
- On stdin, the parse error of an overlong rest is written before the answers to
  the earlier lines of its chunk, and an overlong line that arrives whole
  in one chunk is served (`stdio.ts:59-80`).

*Deployment.*
- deploy-node makes every secret anew on each run (`deploy.ts:420`), so a second
  run invalidates sessions and keys; its header (`:17-19`) calls the flow
  idempotent. `KeysKept` is claimed for the other two.
- It then applies a Deployment that, with the default tag `latest`
  (`deploy.ts:353`), no checksum of the Secret (`manifests.ts:207-263`) and no
  restart (`deploy.ts:566-574`), is the one already there: pods read the Secret when
  they start (`manifests.ts:200-205`), so a run that ends well may leave them with
  the old image and the old values, among them secrets declared since that they do
  not have at all, and pods that restart later differ from those that did not. A
  rollout that does not complete is a warning (`deploy.ts:455-467`).
- All three write their state file in place and parse it without a fallback: one
  that was cut short fails every later run until somebody removes it
  (`deploy-node` `deploy.ts:316-336`), and with it what it knew is gone.
- deploy-cf skips a secret it has put once, so an edited secrets file does not
  reach the Worker without `--rotate-keys` (`bin/deploy.ts:677-681`); deploy-aws
  and deploy-node read it again. The order its README gives (`:18-37`) is not
  the code's.
- Adopting the realtime hub after a class of a later generation would insert
  its migration before one already applied (`wrangler.ts:45-83`); `AdoptHub`'s
  guard is the convention its comment asks for.
- deploy-aws's `fail()` exits the process inside the `try` whose `finally`
  removes the temporary file (`deploy.ts:59-62`, `:501-521`, against
  `:20-22`).

## 6. Not modelled, and the plan

Not modelled, for good: audit, metrics and logs (output only); examples,
templates, docs and the website; the scaffolder (it writes once and keeps
nothing); the adapters' request conversion, the CDK stack and the Kubernetes
manifests (declarative output); the generator's metadata, schemas, clients and
manifests (a compiler to text, whose run-time behaviour is in `CrudHandlers` and
`Pipeline` where it has any).

Left out of the modelled parts: cryptography (an id token, a signature or a key
is valid or not); KV's propagation delay; several records (writes never relate
two; lists do, and have their own module); the Durable Object's WebSocket path
and direct forwarding; the AWS and Cloudflare key backends and keys an
operator names instead of having them minted; the splitting and writing of
cookies; D1's best-effort migrations and the images of a deployment.

Next: the AWS and Cloudflare key backends behind `KeyLifecycle`, and the
composition of `Sessions` with `BrowserLogin`, which now has a store of its own.
