------------------------------- MODULE Deploy -------------------------------
(***************************************************************************)
(* The three deployment tools: deploy-cf (a Worker, its KV namespace and   *)
(* D1 database, its secrets and its Durable Object migrations), deploy-aws *)
(* (one CDK stack) and deploy-node (a Kubernetes Secret and manifests).    *)
(*                                                                         *)
(* A run works through its steps and may fail at any of them or be killed  *)
(* between any two, or while it writes its state file, which is what it    *)
(* remembers; the operator runs it again.  Between runs that file may get  *)
(* lost, the operator's secrets file may be edited or lost, the Worker may *)
(* be deleted, and the configuration may grow.  Pods may be started anew   *)
(* at any time.  One run at a time.                                        *)
(***************************************************************************)
EXTENDS Integers, FiniteSets, SequencesExt

CONSTANTS
    Secrets,       \* the secrets that may come to be declared
    FromFile,      \* those the operator's secrets file has; the others are generated
    MaxFaults,     \* failed or killed steps, unreadable listings, stalled rollouts
    MaxEvents,     \* lost or edited files, deleted Workers, grown configurations
    MaxReruns      \* runs beyond the ones that make good a failure or an event

ASSUME DeployAssumption ==
    /\ FromFile \subseteq Secrets
    /\ {MaxFaults, MaxEvents, MaxReruns} \subseteq Nat

VARIABLES
    tool,        \* "cf", "aws" or "node"; fixed
    declared,    \* the configuration: its secrets
    classTags,   \* and the migration tags of its Durable Objects, hub excepted
    hub,         \* and whether it has adopted the realtime hub
    file,        \* the secrets file: Missing, Blank (no entry), or its value
    stage,       \* the step of the run in progress, "idle" when there is none
    rotate,      \* its --rotate-keys
    mem,         \* its copy of the state file
    left,        \* its secrets still to look at
    seen,        \* the Worker's secrets as it listed them
    ended,       \* how the last run ended: "ok", "failed"; "due" asks for one
    disk,        \* the state file
    remote,      \* KV namespaces and D1 databases of the configured name
    live,        \* is the service running, and
    code,        \* with which declared secrets
    wired,       \* and to which namespace and database
    bound,       \* the secret values it can read, 0 for none; a pod's from its start
    kube,        \* Kubernetes: the Secret, the version of the image last built and
                 \*   of the one last applied, and whether each run has a tag of its own
    applied,     \* the migration tags it has been through
    excused,     \* history: secrets that may get another value
    warned,      \* history: was a listing unreadable, or a rollout not completed?
    budget       \* what is left of MaxFaults, MaxEvents and MaxReruns

config == <<declared, classTags, hub, file>>
run == <<stage, rotate, mem, left, seen, ended>>
cloud == <<remote, live, code, wired, bound, applied, kube>>
deployVars == <<tool, config, run, disk, cloud, excused, warned, budget>>

Kinds == {"kv", "d1"}
Ids == 1..(MaxFaults + 1)
Values == 1..4
Generated == Secrets \ FromFile

Missing == -1
Blank == 0
FileStates == {Missing, Blank, 1, 2}

\* The state file: resource ids, the secrets marked as put (cf), the values
\* generated (aws); or one cut short, which does not parse.
Empty == [ids |-> [k \in Kinds |-> 0], marks |-> {}, cache |-> [s \in Secrets |-> 0],
          torn |-> FALSE]
Torn == [Empty EXCEPT !.torn = TRUE]
Unknown == [readable |-> FALSE, names |-> {}]

\* materializeSecret: the file's entry, which must be there, or a value made
\* anew.
Material(s) ==
    IF s \in FromFile THEN file
    ELSE CHOOSE v \in Values : v \notin {bound[s], mem.cache[s], kube.secret[s]}
Materializes(s) == s \in FromFile => file # Blank

Fault == budget.faults > 0 /\ budget' = [budget EXCEPT !.faults = @ - 1]
Event ==
    /\ stage = "idle" /\ budget.events > 0
    /\ budget' = [budget EXCEPT !.events = @ - 1]
    /\ ended' = "due"

-----------------------------------------------------------------------------
(* Durable Object migrations (deploy-cf wrangler.ts)                       *)

HubTag == "realtime-v1"
BaseTags == {"v1", "billing-v1"}
Generation(tag) == CASE tag = "v2" -> 2 [] tag = "v3" -> 3 [] OTHER -> 1
ClassTags == BaseTags \cup {"v2", "v3"}

\* The binding array: the operator's objects, and the derived hub last.
Bindings == IF hub THEN Append(classTags, HubTag) ELSE classTags

\* Faulty variant for sensitivity runs: migrations in the order of the
\* binding array, where the hub floats to the end.
MigrationsAsBound(bindings) == bindings

\* By generation, within one the hub last, then by first appearance.
FirstAppearance(bindings, tag) == Min({i \in DOMAIN bindings : bindings[i] = tag})

Before(bindings, a, b) ==
    \/ Generation(a) < Generation(b)
    \/ Generation(a) = Generation(b) /\ a # HubTag /\ b = HubTag
    \/ /\ Generation(a) = Generation(b) /\ (a = HubTag <=> b = HubTag)
       /\ FirstAppearance(bindings, a) < FirstAppearance(bindings, b)

\* Sorted: the i-th tag has i - 1 before it.
TagsBefore(bindings, tag) == {t \in ToSet(bindings) : Before(bindings, t, tag)}
TagsAt(bindings, i) ==
    {tag \in ToSet(bindings) : Cardinality(TagsBefore(bindings, tag)) = i - 1}
Migrations(bindings) ==
    [i \in 1..Cardinality(ToSet(bindings)) |-> CHOOSE tag \in TagsAt(bindings, i) : TRUE]

-----------------------------------------------------------------------------
(* A run                                                                   *)

\* The process is gone, and with it all it knew but the state file.
Exit(how) ==
    /\ stage' = "idle" /\ ended' = how
    /\ rotate' = FALSE /\ mem' = Empty /\ left' = <<>> /\ seen' = Unknown

\* The operator starts the tool with its arguments and configuration; nothing
\* happens when they are not in order.
BeginDeploy(first) ==
    /\ stage = "idle"
    /\ IF ended = "ok"
       THEN budget.reruns > 0 /\ budget' = [budget EXCEPT !.reruns = @ - 1]
       ELSE UNCHANGED budget
    /\ excused' = IF rotate' THEN Generated ELSE excused
    /\ stage' = first
    /\ left' = SetToSeq(declared)
    /\ UNCHANGED <<tool, config, mem, seen, ended, disk, cloud, warned>>

BeginCf == tool = "cf" /\ rotate' \in BOOLEAN /\ BeginDeploy("file")
BeginAws == tool = "aws" /\ rotate' \in BOOLEAN /\ BeginDeploy("file")

\* deploy-node has no --rotate-keys, and renders its manifests first.
BeginNode == tool = "node" /\ rotate' = FALSE /\ BeginDeploy("tools")

\* A step fails, or the run is killed before it.  Killed between a put and its
\* mark, a secret is bound that the next run knows nothing of.
Stop ==
    /\ stage # "idle" /\ Fault
    /\ Exit("failed")
    /\ excused' = IF stage = "mark" THEN excused \cup ({Head(left)} \cap Generated)
                   ELSE excused
    /\ UNCHANGED <<tool, config, disk, cloud, warned>>

\* The stages at which the state file is written, in place.
Saves ==
    \/ stage \in {"saveKv", "saveD1", "mark"}
    \/ tool = "aws" /\ stage = "secrets" /\ left # <<>>
    \/ tool = "node" /\ stage \in {"images", "verify"}

\* The run is killed in the middle of that: the file no longer parses.
Tear ==
    /\ Saves /\ Fault
    /\ Exit("failed")
    /\ disk' = Torn
    /\ excused' = Generated
    /\ UNCHANGED <<tool, config, cloud, warned>>

\* What can only end the run early: the preflights (wrangler, the account, an
\* active zone; docker and kubectl), rendering and building.
Goes(from, to) ==
    /\ stage = from /\ stage' = to
    /\ UNCHANGED <<tool, config, rotate, mem, left, seen, ended, disk, cloud, excused,
                   warned, budget>>

EnsureAccount == Goes("account", "zone")
CheckZone == Goes("zone", "state")
RenderWrangler == (\A k \in Kinds : mem.ids[k] # 0) /\ Goes("render", "assets")
BuildAssets == Goes("assets", "deploy")
BuildSpa == Goes("build", "secrets")
EnsureTools == Goes("tools", "file")

\* The secrets file is read when a declared secret needs it, and must then be
\* there; whether it has the entry shows when the secret is materialized.
NeedsFile == declared \cap FromFile # {}
AfterFile == [cf |-> "account", aws |-> "state", node |-> "state"]

LoadSecretsFile ==
    /\ stage = "file"
    /\ IF NeedsFile /\ file = Missing
       THEN /\ Exit("failed")
            /\ UNCHANGED <<tool, config, disk, cloud, excused, warned, budget>>
       ELSE Goes("file", AfterFile[tool])

AfterState == [cf |-> "kv", aws |-> "build", node |-> "images"]

\* What an earlier run saved for this domain, or nothing; a file that does not
\* parse ends this run and every later one, until somebody removes it.
StateUnreadable ==
    /\ stage = "state" /\ disk.torn
    /\ Exit("failed")
    /\ UNCHANGED <<tool, config, disk, cloud, excused, warned, budget>>

LoadState ==
    /\ stage = "state" /\ ~disk.torn
    /\ mem' = disk
    /\ stage' = AfterState[tool]
    /\ UNCHANGED <<tool, config, rotate, left, seen, ended, disk, cloud, excused, warned,
                   budget>>

After(k) == IF k = "kv" THEN "d1" ELSE "render"
Saving(k) == IF k = "kv" THEN "saveKv" ELSE "saveD1"

\* Faulty variant for sensitivity runs: existing resources are not looked for.
FindNothing(k) == {}

\* findExistingKvId, findExistingD1Id: what the listing shows under the name.
Find(k) == remote[k]

\* provisionKv and provisionD1: the id of the state file, else an existing
\* resource of the name, else a new one.  A failed listing shows nothing.
Reuse(k) ==
    /\ mem.ids[k] # 0
    /\ Goes(k, After(k))

Adopt(k) ==
    /\ stage = k /\ mem.ids[k] = 0
    /\ \E id \in Find(k) : mem' = [mem EXCEPT !.ids[k] = id]
    /\ stage' = Saving(k)
    /\ UNCHANGED <<tool, config, rotate, left, seen, ended, disk, cloud, excused, warned,
                   budget>>

\* D1 names are unique: creating a second one fails.
Create(k) ==
    /\ stage = k /\ mem.ids[k] = 0
    /\ IF Find(k) = {} THEN UNCHANGED <<warned, budget>> ELSE Fault /\ warned' = TRUE
    /\ IF k = "d1" /\ remote[k] # {}
       THEN Exit("failed") /\ UNCHANGED remote
       ELSE \E id \in Ids \ remote[k] :
              /\ \A i \in Ids \ remote[k] : id <= i
              /\ remote' = [remote EXCEPT ![k] = @ \cup {id}]
              /\ mem' = [mem EXCEPT !.ids[k] = id]
              /\ stage' = Saving(k) /\ UNCHANGED <<ended, rotate, left, seen>>
    /\ UNCHANGED <<tool, config, disk, live, code, wired, bound, applied, kube, excused>>

Save(k) ==
    /\ stage = Saving(k)
    /\ disk' = mem
    /\ stage' = After(k)
    /\ UNCHANGED <<tool, config, rotate, mem, left, seen, ended, cloud, excused, warned,
                   budget>>

\* wrangler deploy with the rendered wrangler.toml: the Worker exists from
\* here on, with the secrets it had.
DeployWorker ==
    /\ stage = "deploy"
    /\ live' = TRUE /\ code' = declared
    /\ wired' = mem.ids
    /\ applied' = Migrations(Bindings)
    /\ stage' = "list"
    /\ UNCHANGED <<tool, config, rotate, mem, left, seen, ended, disk, remote, bound,
                   kube, excused, warned, budget>>

\* listWorkerSecrets: the bound names, or unknown.
ListSecrets ==
    /\ stage = "list"
    /\ \/ /\ seen' = [readable |-> TRUE, names |-> {s \in Secrets : bound[s] # 0}]
          /\ UNCHANGED <<warned, budget>>
       \/ seen' = Unknown /\ Fault /\ warned' = TRUE
    /\ stage' = "put"
    /\ UNCHANGED <<tool, config, rotate, mem, left, ended, disk, cloud, excused>>

\* Faulty variant for sensitivity runs: what cannot be listed is taken to be
\* absent.
PresentIfListed(s) == s \in seen.names

\* The listing if there is one, else the state file's mark.
Present(s) == IF seen.readable THEN s \in seen.names ELSE s \in mem.marks

\* Faulty variant for sensitivity runs: the state file is believed.
ProvisionedByMark(s) == s \in mem.marks

EffectivelyProvisioned(s) == s \in mem.marks /\ Present(s)

\* putSecrets, one secret at a time.
Skip ==
    /\ stage = "put" /\ left # <<>>
    /\ EffectivelyProvisioned(Head(left)) /\ ~rotate
    /\ left' = Tail(left)
    /\ UNCHANGED <<tool, config, stage, rotate, mem, seen, ended, disk, cloud, excused,
                   warned, budget>>

Put ==
    /\ stage = "put" /\ left # <<>>
    /\ ~(EffectivelyProvisioned(Head(left)) /\ ~rotate) /\ Materializes(Head(left))
    /\ bound' = [bound EXCEPT ![Head(left)] = Material(Head(left))]
    /\ stage' = "mark"
    /\ UNCHANGED <<tool, config, rotate, mem, left, seen, ended, disk, remote, live, code,
                   wired, applied, kube, excused, warned, budget>>

Mark ==
    /\ stage = "mark"
    /\ mem' = [mem EXCEPT !.marks = @ \cup {Head(left)}]
    /\ disk' = mem'
    /\ excused' = excused \ {Head(left)}
    /\ left' = Tail(left) /\ stage' = "put"
    /\ UNCHANGED <<tool, config, rotate, seen, ended, cloud, warned, budget>>

\* The migrations and the health probe that follow can only warn.
PutsDone ==
    /\ stage = "put" /\ left = <<>>
    /\ Exit("ok")
    /\ UNCHANGED <<tool, config, disk, cloud, excused, warned, budget>>

-----------------------------------------------------------------------------
(* deploy-aws                                                              *)

\* Faulty variant for sensitivity runs: a new value is not saved.
CachedInMemory(state) == disk

Cached(state) == state

\* resolveSecrets: the file's value, the cached one, or a new one, saved before
\* it is used.
Resolve ==
    /\ tool = "aws" /\ stage = "secrets" /\ left # <<>>
    /\ Materializes(Head(left))
    /\ LET s == Head(left)
           reused == mem.cache[s] # 0 /\ ~rotate
       IN  mem' = IF s \in FromFile \/ reused THEN mem
                  ELSE [mem EXCEPT !.cache[s] = Material(s)]
    /\ disk' = Cached(mem')
    /\ left' = Tail(left)
    /\ UNCHANGED <<tool, config, stage, rotate, seen, ended, cloud, excused, warned, budget>>

\* cdk deploy: all of the stack or nothing of it.
DeployStack ==
    /\ tool = "aws" /\ stage = "secrets" /\ left = <<>>
    /\ live' = TRUE /\ code' = declared
    /\ bound' = [s \in Secrets |-> IF s \notin declared THEN 0
                                   ELSE IF s \in FromFile THEN file ELSE mem.cache[s]]
    /\ excused' = {s \in excused : bound'[s] # disk.cache[s]}
    /\ stage' = "verify"
    /\ UNCHANGED <<tool, config, rotate, mem, left, seen, ended, disk, remote, wired,
                   applied, kube, warned, budget>>

-----------------------------------------------------------------------------
(* deploy-node                                                             *)

\* The images are built, and pushed, under the configured tag.
BuildImages ==
    /\ stage = "images" /\ stage' = "secrets"
    /\ kube' = [kube EXCEPT !.image = declared]
    /\ UNCHANGED <<tool, config, rotate, mem, left, seen, ended, disk, remote, live, code,
                   wired, bound, applied, excused, warned, budget>>

\* syncSecret: one Secret with every value made anew, before the manifests.
\* No pod that runs takes notice.
SyncSecret ==
    /\ tool = "node" /\ stage = "secrets"
    /\ \A s \in declared : Materializes(s)
    /\ kube' = [kube EXCEPT !.secret =
                  [s \in Secrets |-> IF s \in declared THEN Material(s) ELSE 0]]
    /\ stage' = "apply"
    /\ UNCHANGED <<tool, config, rotate, mem, left, seen, ended, disk, remote, live, code,
                   wired, bound, applied, excused, warned, budget>>

\* A pod's environment (envFrom) is the Secret as it is when the pod starts.
PodsStart(version) == code' = version /\ bound' = kube.secret

\* kubectl apply and the rollout: pods start for the first time or for a new
\* image tag; without one the Deployment is the one that was there, unless
\* something else in it was edited.  A rollout that does not complete leaves
\* the pods of before.  No later run reads the images and the mark in the state
\* file.
Apply ==
    /\ stage = "apply" /\ stage' = "verify"
    /\ kube' = [kube EXCEPT !.spec = kube.image]
    /\ \/ PodsStart(kube.image) /\ live' = TRUE /\ UNCHANGED <<warned, budget>>
       \/ live /\ ~kube.pinned /\ UNCHANGED <<live, code, bound, warned, budget>>
       \/ Fault /\ warned' = TRUE /\ UNCHANGED <<live, code, bound>>
    /\ UNCHANGED <<tool, config, rotate, mem, left, seen, ended, disk, remote, wired, applied,
                   excused>>

\* A pod is evicted or crashes, or a rollout completes late: under a tag that is
\* used again, the node may have the image of that tag or pull the new one.
Restart ==
    /\ tool = "node" /\ kube.spec # {}
    /\ live' = TRUE
    /\ \E version \in {code, kube.spec} \cup (IF kube.pinned THEN {} ELSE {kube.image}) :
          version # {} /\ PodsStart(version)
    /\ UNCHANGED <<tool, config, run, disk, remote, wired, applied, kube, excused, warned,
                   budget>>

\* materializeSecret throws: on Workers the Worker is deployed by then.
MaterialMissing ==
    /\ \/ stage = "put" /\ left # <<>> /\ (EffectivelyProvisioned(Head(left)) => rotate)
                        /\ ~Materializes(Head(left))
       \/ tool = "aws" /\ stage = "secrets" /\ left # <<>> /\ ~Materializes(Head(left))
       \/ tool = "node" /\ stage = "secrets" /\ \E s \in declared : ~Materializes(s)
    /\ Exit("failed")
    /\ UNCHANGED <<tool, config, disk, cloud, excused, warned, budget>>

\* The rollout and the health probe can only warn.
Verify ==
    /\ stage = "verify"
    /\ Exit("ok")
    /\ UNCHANGED <<tool, config, disk, cloud, excused, warned, budget>>

-----------------------------------------------------------------------------
(* Between runs                                                            *)

\* Or removed, once it does not parse.
LoseStateFile ==
    /\ Event
    /\ disk # Empty /\ disk' = Empty
    /\ excused' = Generated
    /\ UNCHANGED <<tool, config, stage, rotate, mem, left, seen, cloud, warned>>

\* From the dashboard, with wrangler delete, by a move of the account.
DeleteWorker ==
    /\ tool = "cf" /\ live /\ Event
    /\ live' = FALSE /\ code' = {}
    /\ wired' = [k \in Kinds |-> 0]
    /\ bound' = [s \in Secrets |-> 0]
    /\ applied' = <<>>
    /\ UNCHANGED <<tool, config, stage, rotate, mem, left, seen, disk, remote, kube, excused,
                   warned>>

DeclareSecret ==
    /\ Event
    /\ \E s \in Secrets \ declared : declared' = declared \cup {s}
    /\ UNCHANGED <<tool, classTags, hub, file, stage, rotate, mem, left, seen, disk, cloud,
                   excused, warned>>

\* (Of interest only while a declared secret comes of it.)
EditSecretsFile ==
    /\ NeedsFile /\ Event
    /\ file' \in FileStates \ {file}
    /\ UNCHANGED <<tool, declared, classTags, hub, stage, rotate, mem, left, seen, disk,
                   cloud, excused, warned>>

\* By the convention orderMigrationTags documents: base classes come first,
\* then the hub, and what comes after the hub has a generation of its own.
AddClass ==
    /\ tool = "cf" /\ Event
    /\ \E tag \in ClassTags \ ToSet(classTags) :
          /\ \A t \in ToSet(Bindings) :
                Generation(t) < Generation(tag) \/ (tag \in BaseTags /\ ~hub)
          /\ tag \in BaseTags => ToSet(classTags) \subseteq BaseTags
          /\ \E i \in (IF tag \in BaseTags THEN {Len(classTags) + 1}
                       ELSE 1..(Len(classTags) + 1)) :
                classTags' = InsertAt(classTags, i, tag)
    /\ UNCHANGED <<tool, declared, hub, file, stage, rotate, mem, left, seen, disk, cloud,
                   excused, warned>>

AdoptHub ==
    /\ tool = "cf" /\ ~hub /\ Event
    /\ ToSet(classTags) \subseteq BaseTags
    /\ hub' = TRUE
    /\ UNCHANGED <<tool, declared, classTags, file, stage, rotate, mem, left, seen, disk, cloud,
                   excused, warned>>

-----------------------------------------------------------------------------

ProvisionResources == \E k \in Kinds : Reuse(k) \/ Adopt(k) \/ Create(k) \/ Save(k)

Go ==
    \/ EnsureAccount \/ CheckZone \/ EnsureTools \/ LoadSecretsFile \/ LoadState
    \/ StateUnreadable
    \/ ProvisionResources \/ RenderWrangler \/ BuildAssets \/ BuildSpa \/ BuildImages
    \/ DeployWorker \/ ListSecrets \/ Skip \/ Put \/ Mark \/ PutsDone
    \/ Resolve \/ DeployStack \/ SyncSecret \/ MaterialMissing \/ Apply \/ Verify

DeployInit ==
    /\ tool \in {"cf", "aws", "node"}
    /\ \E s \in Secrets : declared = {s}
    /\ classTags \in {<<>>, <<"v1">>} /\ hub = FALSE
    /\ file = 1
    /\ (tool # "cf" => classTags = <<>>)
    /\ stage = "idle" /\ rotate = FALSE /\ mem = Empty /\ left = <<>> /\ seen = Unknown
    /\ ended = "due"
    /\ disk = Empty
    /\ remote = [k \in Kinds |-> {}]
    /\ live = FALSE /\ code = {}
    /\ wired = [k \in Kinds |-> 0]
    /\ bound = [s \in Secrets |-> 0]
    /\ applied = <<>>
    /\ \E pinned \in BOOLEAN : /\ pinned => tool = "node"
                              /\ kube = [secret |-> bound, image |-> {}, spec |-> {},
                                      pinned |-> pinned]
    /\ excused = {} /\ warned = FALSE
    /\ budget = [faults |-> MaxFaults, events |-> MaxEvents, reruns |-> MaxReruns]

BeginRun == BeginCf \/ BeginAws \/ BeginNode

DeployNext ==
    \/ BeginRun \/ Stop \/ Tear \/ Go \/ Restart
    \/ LoseStateFile \/ DeleteWorker \/ DeclareSecret \/ EditSecretsFile
    \/ AddClass \/ AdoptHub

\* A run goes on unless it is stopped, and the operator repeats one that failed.
DeploySpec ==
    /\ DeployInit /\ [][DeployNext]_deployVars
    /\ WF_deployVars(Go) /\ WF_deployVars(BeginRun /\ ended # "ok")

-----------------------------------------------------------------------------

StateFiles ==
    [ids : [Kinds -> {0} \cup Ids], marks : SUBSET Secrets, cache : [Secrets -> {0} \cup Values],
     torn : BOOLEAN]

DeployTypeOK ==
    /\ tool \in {"cf", "aws", "node"}
    /\ declared \subseteq Secrets /\ code \subseteq declared
    /\ classTags \in Seq(ClassTags) /\ hub \in BOOLEAN /\ file \in FileStates
    /\ stage \in {"idle", "file", "state", "account", "zone", "kv", "saveKv", "d1", "saveD1", "render",
                  "assets", "deploy", "list", "put", "mark", "tools", "images", "build",
                  "secrets", "apply", "verify"}
    /\ rotate \in BOOLEAN /\ ended \in {"due", "ok", "failed"}
    /\ mem \in StateFiles /\ disk \in StateFiles
    /\ left \in Seq(declared) /\ (stage = "mark" => left # <<>>)
    /\ seen \in [readable : BOOLEAN, names : SUBSET Secrets]
    /\ remote \in [Kinds -> SUBSET Ids] /\ wired \in [Kinds -> {0} \cup Ids]
    /\ live \in BOOLEAN /\ bound \in [Secrets -> {0} \cup Values]
    /\ applied \in Seq(ClassTags \cup {HubTag})
    /\ kube \in [secret : [Secrets -> {0} \cup Values], image : SUBSET declared,
                 spec : SUBSET declared, pinned : BOOLEAN]
    /\ excused \subseteq Secrets /\ warned \in BOOLEAN
    /\ budget \in [faults : Nat, events : Nat, reruns : Nat]

Well == stage = "idle" /\ ended = "ok"

\* Workers: after a run that ended well.
WorkerComplete ==
    Well /\ ~warned =>
        /\ \A s \in code : bound[s] # 0
        /\ \A k \in Kinds : remote[k] = {wired[k]}

\* AWS: at any time, and after such a run with the file's values.
StackComplete ==
    /\ \A s \in code : bound[s] # 0
    /\ Well => \A s \in code \cap FromFile : bound[s] = file

\* Kubernetes: after such a run for the pods that start from then on; under an
\* image tag of its own those are the ones that run, once the rollout is complete.
PodsComplete ==
    /\ Well => \A s \in declared : /\ kube.secret[s] # 0
                                  /\ s \in FromFile => kube.secret[s] = file
    /\ kube.pinned => /\ \A s \in code : bound[s] # 0
                      /\ Well /\ ~warned => code = declared /\ bound = kube.secret

\* A run that ends well leaves a complete service, whatever was lost, deleted or
\* cut short before: on Workers every declared secret is bound and the Worker is
\* wired to the only namespace and database of their names, unless a listing
\* could not be read; on AWS the service never runs without a secret its version
\* declares, and has the secrets file's values; on Kubernetes the Secret has
\* them.  The pods do where the run's image tag is new and the rollout was
\* completed: under the default tag nothing starts them anew.
OkMeansComplete ==
    live => CASE tool = "cf" -> WorkerComplete
              [] tool = "aws" -> StackComplete
              [] tool = "node" -> PodsComplete

\* A generated secret in use is replaced only on request, or where the state
\* file does not know it: lost, or never told because the run was killed
\* between put and save ("re-runs don't rotate keys").  deploy-node makes no
\* such promise: it replaces every one on every run.
KeysKept ==
    [][\A s \in Generated :
          tool # "node" /\ bound[s] # 0 /\ bound'[s] \notin {0, bound[s]} => s \in excused]_deployVars

\* What a deployed Worker has been through is never reordered: a new migration
\* goes after every one applied (R3-1).
MigrationsAppendOnly == [][live /\ live' => IsPrefix(applied, applied')]_deployVars

\* However runs failed or were killed, repeating them ends in one that is well,
\* unless a file is in the way: the operator's secrets file has no value, or the
\* state file was cut short.
FileInTheWay == disk.torn \/ (NeedsFile /\ file \in {Missing, Blank})
RerunHeals ==
    (stage = "idle" /\ ended # "ok") ~> (stage = "idle" /\ (ended = "ok" \/ FileInTheWay))
=============================================================================
