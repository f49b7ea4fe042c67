----------------------------- MODULE LiveStream -----------------------------
(* One live connection (an @live event stream) to one record.

   Writers commit to the record and then notify its channel: withLiveNotify.
   A hub carries the notification to the connection, or reads the record's
   version on a timer: createMemoryHub, createDurableObjectHub,
   createPollingHub. The endpoint queues what arrives and a loop writes it to
   the client, one frame at a time: liveEventStream.

   The client is external: it fetches the record, opens the stream, refetches
   on a hint that is newer than what it knows and closes its view on a delete
   (docs/design/realtime.md, "if (v > known) refetch()"; hub.ts, the contract
   of live:deleted). A version of 0 stands for null, the absent record.       *)
EXTENDS Integers, SequencesExt

CONSTANTS MaxCommits,   \* bound: commits to the record in a behaviour
          MaxInFlight,  \* bound: writers between their commit and their notify
          QueueCap      \* the endpoint's maxQueueLength

(* The default queue holds 256 events; there are two types to coalesce into. *)
ASSUME BoundsAssumption == /\ MaxCommits \in Nat
                           /\ MaxInFlight \in Nat \ {0}
                           /\ QueueCap \in Nat \ {0, 1}

VARIABLES hub,       \* which backend the deployment chose; never changes
          soft,      \* the store keeps deleted rows as tombstones; never changes
          push,      \* frames carry the record (pushRecords); never changes
          scoped,    \* the resource has an owner or a tenant; never changes
          row,       \* the record: [live, ver]
          commits,   \* how many writes were committed
          inflight,  \* events of committed writes not yet notified, in commit order
          stage,     \* the client: off, fetched, admitted to the stream, open,
                     \* ended (told deleted), gone
          known,     \* the version the client shows
          refetch,   \* the client has a refetch to do
          queue,     \* the endpoint's pending events
          loop,      \* the endpoint's writer loop: off, ready, asleep, writing, ended
          frame,     \* the event the loop is writing
          feed,      \* the hub's side of the subscription
          pipe,      \* durable: frames from the object to the worker
          last,      \* polling: lastVersion
          polled,    \* polling: the version a read returned, not yet looked at
          gaps       \* history: the ways in which news was missed so far

deployment == <<hub, soft, push, scoped>>
store      == <<row, commits, inflight>>
client     == <<stage, known, refetch>>
endpoint   == <<queue, loop, frame>>
leg        == <<feed, pipe, last, polled>>
vars == <<deployment, store, client, endpoint, leg, gaps>>

Hubs     == {"memory", "durable", "polling"}
Versions == 0 .. MaxCommits
Events   == [type : {"updated", "deleted"}, ver : Versions]
NoEvent  == [type |-> "none", ver |-> 0]
Updated(v) == [type |-> "updated", ver |-> v]
Deleted    == [type |-> "deleted", ver |-> 0]

(* pushRecords is refused over a hub whose notify delivers nothing. *)
CanPush(h) == h # "polling"

Current    == IF row.live THEN row.ver ELSE 0
Subscribed == loop \in {"ready", "asleep", "writing"}
FeedStart  == [memory |-> "direct", durable |-> "down", polling |-> "baseline"]

(* What is on its way to the client. *)
OnItsWay == ToSet(inflight) \cup ToSet(pipe) \cup ToSet(queue) \cup {frame}
WouldTell(e) == e.type = "deleted" \/ e.ver > known

(* History only: something the client does not know of went by unannounced, or
   it will take a record still on its way for the newest.                     *)
Opening     == stage \in {"fetched", "admitted"}
Watching    == Opening \/ stage = "open"
Overtaken   == push /\ \E e \in OnItsWay : e.ver > known
Missed(how) ==
  gaps' = IF Watching /\ (known # Current \/ Overtaken) THEN gaps \cup {how} ELSE gaps

-----------------------------------------------------------------------------
(* The endpoint's queue and its wake-up.                                      *)

(* Faulty variants for sensitivity runs: the queued event stays and the new one
   goes; the new one replaces any type.                                       *)
CoalesceKeepsFirst(q, e) == IF \E x \in ToSet(q) : x.type = e.type THEN q ELSE Append(q, e)
CoalesceAnyType(q, e)    == <<e>>

(* createBoundedEventQueue.push: the newest arrival of a type replaces the
   queued one and goes last; beyond the cap the oldest goes.                  *)
Coalesce(q, e) ==
  LET same == {i \in DOMAIN q : q[i].type = e.type}
      rest == IF same = {} THEN q
              ELSE RemoveAt(q, CHOOSE i \in same : \A j \in same : i <= j)
      all  == Append(rest, e)
  IN  SubSeq(all, IF Len(all) > QueueCap THEN Len(all) - QueueCap + 1 ELSE 1, Len(all))

(* Faulty variant: the event is queued and the loop sleeps on. *)
OnEventNoWake(e) == queue' = Coalesce(queue, e) /\ UNCHANGED <<loop, frame>>

(* onEvent: queue the event and wake the loop. *)
OnEvent(e) == /\ queue' = Coalesce(queue, e)
              /\ loop' = IF loop = "asleep" THEN "ready" ELSE loop
              /\ UNCHANGED frame

-----------------------------------------------------------------------------
(* The write path.                                                            *)

Emit(e) == inflight' = IF hub = "polling" THEN inflight ELSE Append(inflight, e)

Commits == /\ commits < MaxCommits
           /\ Len(inflight) < MaxInFlight
           /\ commits' = commits + 1
           /\ UNCHANGED <<deployment, client, endpoint, leg>>

(* create, put, update, patch: the version goes up; a row that was deleted for
   good starts again at 1. A poller sees a restart as any other version, the
   client's guard refuses it.                                                 *)
Write ==
  /\ Commits
  /\ row' = [live |-> TRUE, ver |-> row.ver + 1]
  /\ Emit(Updated(row.ver + 1))
  /\ gaps' = IF hub = "polling" /\ ~soft /\ ~row.live /\ Watching
             THEN gaps \cup {"restarted"} ELSE gaps

Delete ==
  /\ Commits
  /\ row.live
  /\ row' = [live |-> FALSE, ver |-> IF soft THEN row.ver + 1 ELSE 0]
  /\ Emit(Deleted)
  /\ UNCHANGED gaps

(* notify of the memory hub: handed to the subscriber at once. *)
MemoryNotify(e) ==
  /\ hub = "memory" /\ Subscribed
  /\ OnEvent(e)
  /\ UNCHANGED leg

(* notify of the Durable Object hub: the object writes it to its subscriber. *)
FanOut(e) == pipe' = Append(pipe, e)

DurableNotify(e) ==
  /\ hub = "durable" /\ feed = "up"
  /\ FanOut(e)
  /\ UNCHANGED <<endpoint, feed, last, polled>>

(* Nobody is subscribed, or the request to the object fails: swallowed. A record
   frame that comes after an unheard later one is taken for the newest.       *)
Unheard(i) ==
  /\ ~ (hub = "memory" /\ Subscribed)
  /\ IF push /\ i > 1 THEN gaps' = gaps \cup {"reordered"}
     ELSE Missed(IF Opening THEN "early" ELSE "lost")
  /\ UNCHANGED <<endpoint, leg>>

(* emit: the writer's await on hub.notify, after its await on the store. The
   writers are independent, so any of them may be next.                       *)
Notify(i) ==
  /\ inflight' = RemoveAt(inflight, i)
  /\ \/ /\ MemoryNotify(inflight[i]) \/ DurableNotify(inflight[i])
        /\ gaps' = IF i > 1 THEN gaps \cup {"reordered"} ELSE gaps
     \/ Unheard(i)
  /\ UNCHANGED <<deployment, row, commits, client>>

-----------------------------------------------------------------------------
(* The polling hub's loop, one per subscription.                              *)

PollBaseline ==
  /\ feed = "baseline"
  /\ feed' = "sleep"
  /\ \/ last' = Current /\ Missed("early")
     \/ last' = 0 /\ UNCHANGED gaps         \* the read failed
  /\ UNCHANGED <<deployment, store, client, endpoint, pipe, polled>>

PollWakes ==
  /\ feed = "sleep"
  /\ feed' = IF Subscribed THEN "reading" ELSE "ended"
  /\ UNCHANGED <<deployment, store, client, endpoint, pipe, last, polled, gaps>>

PollReads ==
  /\ feed = "reading"
  /\ feed' = "answered"
  /\ polled' = Current
  /\ UNCHANGED <<deployment, store, client, endpoint, pipe, last, gaps>>

PollFails ==
  /\ feed = "reading"
  /\ feed' = "sleep"
  /\ UNCHANGED <<deployment, store, client, endpoint, pipe, last, polled, gaps>>

(* Not stopped while the read was in flight. *)
NotStopped == Subscribed

(* What the loop does with the answer; unsubscribed meanwhile, it only ends. *)
PollAnswer ==
  /\ feed = "answered"
  /\ polled' = 0
  /\ \/ /\ ~ NotStopped
        /\ feed' = "ended"
        /\ UNCHANGED <<endpoint, last, gaps>>
     \/ /\ NotStopped /\ polled # last
        /\ last' = polled
        /\ OnEvent(IF polled = 0 THEN Deleted ELSE Updated(polled))
        /\ feed' = IF polled = 0 THEN "ended" ELSE "sleep"
        /\ UNCHANGED gaps
     \/ /\ NotStopped /\ polled = last
        /\ feed' = "sleep"
        /\ IF polled = 0 THEN Missed("blind") ELSE UNCHANGED gaps
        /\ UNCHANGED <<endpoint, last>>
  /\ UNCHANGED <<deployment, store, client, pipe>>

-----------------------------------------------------------------------------
(* The Durable Object hub's subscription: pumpSse.                            *)

(* The subscribe request reaches the object; at first, or after the backoff. *)
LegUp ==
  /\ feed = "down" /\ Subscribed
  /\ feed' = "up"
  /\ UNCHANGED <<deployment, store, client, endpoint, pipe, last, polled, gaps>>

(* The object restarts, evicts a slow reader or the connection is cut. *)
LegDown ==
  /\ feed = "up" /\ Subscribed
  /\ feed' = "down"
  /\ pipe' = <<>>
  /\ IF pipe = <<>> THEN UNCHANGED gaps ELSE Missed("lost")
  /\ UNCHANGED <<deployment, store, client, endpoint, last, polled>>

Pump ==
  /\ feed = "up" /\ pipe # <<>>
  /\ OnEvent(Head(pipe))
  /\ pipe' = Tail(pipe)
  /\ UNCHANGED <<deployment, store, client, feed, last, polled, gaps>>

(* The unsubscribe's abort signal ends the loop wherever it is. *)
LegEnds ==
  /\ feed \in {"down", "up"} /\ loop = "ended"
  /\ feed' = "ended"
  /\ pipe' = <<>>
  /\ UNCHANGED <<deployment, store, client, endpoint, last, polled, gaps>>

-----------------------------------------------------------------------------
(* The endpoint's writer loop.                                                *)

(* The loop runs until its next await: it ends when the client is gone, starts
   on the oldest event, or sleeps until woken.                                *)
LoopRuns ==
  /\ loop = "ready"
  /\ \/ /\ stage = "gone"
        /\ loop' = "ended"
        /\ UNCHANGED <<queue, frame>>
     \/ /\ stage # "gone" /\ queue # <<>>
        /\ loop' = "writing"
        /\ frame' = Head(queue)
        /\ queue' = Tail(queue)
     \/ /\ stage # "gone" /\ queue = <<>>
        /\ loop' = "asleep"
        /\ UNCHANGED <<queue, frame>>
  /\ UNCHANGED <<deployment, store, client, leg, gaps>>

(* The heartbeat timer wakes the loop too; it may be disabled. *)
Heartbeat ==
  /\ loop = "asleep"
  /\ loop' = "ready"
  /\ UNCHANGED <<deployment, store, client, queue, frame, leg, gaps>>

(* What a client does with a frame that is newer than what it shows: a record is
   taken over, a hint is a reason to refetch.                                 *)
Apply(e) ==
  IF push THEN known' = (IF e.ver > known THEN e.ver ELSE known) /\ UNCHANGED refetch
  ELSE refetch' = (refetch \/ e.ver > known) /\ UNCHANGED known

(* The client takes the frame; a delete is the last one. *)
FrameTaken ==
  /\ loop = "writing" /\ stage = "open"
  /\ frame' = NoEvent
  /\ IF frame.type = "deleted"
     THEN loop' = "ended" /\ stage' = "ended" /\ known' = 0 /\ refetch' = FALSE
     ELSE loop' = "ready" /\ Apply(frame) /\ UNCHANGED stage
  /\ UNCHANGED <<deployment, store, queue, leg, gaps>>

(* The client is gone: the write throws and the loop's finally unsubscribes. *)
WriteThrows ==
  /\ loop = "writing" /\ stage = "gone"
  /\ frame' = NoEvent
  /\ loop' = "ended"
  /\ UNCHANGED <<deployment, store, client, queue, leg, gaps>>

-----------------------------------------------------------------------------
(* The client.                                                                *)

Fetch ==
  /\ stage = "off"
  /\ stage' = "fetched" /\ known' = Current
  /\ UNCHANGED <<deployment, store, refetch, endpoint, leg, gaps>>

(* store.get(id, scopeFrom(c)): the caller's own record, if there is one. *)
Visible == Current # 0

(* The generated route of a scoped resource reads the record first, as the read
   operation does: what that refuses cannot be subscribed to.                 *)
Admit ==
  /\ scoped /\ stage = "fetched"
  /\ stage' = IF Visible THEN "admitted" ELSE "off"
  /\ UNCHANGED <<deployment, store, known, refetch, endpoint, leg, gaps>>

Open ==
  /\ stage = IF scoped THEN "admitted" ELSE "fetched"
  /\ stage' = "open"
  /\ loop' = "ready"
  /\ feed' = FeedStart[hub]
  /\ UNCHANGED <<deployment, store, known, refetch, queue, frame, pipe, last, polled, gaps>>

Refetch ==
  /\ refetch /\ stage = "open"
  /\ refetch' = FALSE /\ known' = Current
  /\ UNCHANGED <<deployment, store, stage, endpoint, leg, gaps>>

(* The client disconnects: onAbort marks the stream done and wakes the loop. *)
Abort ==
  /\ stage = "open"
  /\ stage' = "gone"
  /\ loop' = IF loop = "asleep" THEN "ready" ELSE loop
  /\ UNCHANGED <<deployment, store, known, refetch, queue, frame, leg, gaps>>

-----------------------------------------------------------------------------
Init ==
  /\ hub \in Hubs /\ soft \in BOOLEAN /\ scoped \in BOOLEAN
  /\ push \in BOOLEAN /\ (push => CanPush(hub))
  /\ row = [live |-> FALSE, ver |-> 0]
  /\ commits = 0 /\ inflight = <<>>
  /\ stage = "off" /\ known = 0 /\ refetch = FALSE
  /\ queue = <<>> /\ loop = "off" /\ frame = NoEvent
  /\ feed = "none" /\ pipe = <<>> /\ last = 0 /\ polled = 0
  /\ gaps = {}

NotifyAny == \E i \in DOMAIN inflight : Notify(i)
HubSteps  == PollBaseline \/ PollWakes \/ PollAnswer \/ LegUp \/ Pump \/ LegEnds
LoopSteps == LoopRuns \/ FrameTaken \/ WriteThrows

Next == \/ Write \/ Delete \/ NotifyAny
        \/ PollBaseline \/ PollWakes \/ PollReads \/ PollFails \/ PollAnswer
        \/ LegUp \/ LegDown \/ Pump \/ LegEnds
        \/ LoopRuns \/ Heartbeat \/ FrameTaken \/ WriteThrows
        \/ Fetch \/ Admit \/ Open \/ Refetch \/ Abort

(* Promises that are settled continue and timers fire, so what is ready to run
   runs; a connected client takes its frames. A read that keeps being tried
   does not fail for ever. Writers, clients and outages owe nothing, and no
   heartbeat is relied on.                                                    *)
Fairness == /\ WF_vars(NotifyAny)
            /\ WF_vars(HubSteps)
            /\ WF_vars(LoopSteps)
            /\ WF_vars(Refetch)
            /\ SF_vars(PollReads)

Spec == Init /\ [][Next]_vars /\ Fairness

-----------------------------------------------------------------------------
TypeOK ==
  /\ hub \in Hubs /\ soft \in BOOLEAN /\ scoped \in BOOLEAN
  /\ push \in BOOLEAN /\ (push => CanPush(hub))
  /\ row \in [live : BOOLEAN, ver : Versions]
  /\ commits \in 0 .. MaxCommits
  /\ inflight \in Seq(Events) /\ Len(inflight) <= MaxInFlight
  /\ stage \in {"off", "fetched", "admitted", "open", "ended", "gone"}
  /\ known \in Versions /\ refetch \in BOOLEAN
  /\ queue \in Seq(Events) /\ Len(queue) <= QueueCap
  /\ loop \in {"off", "ready", "asleep", "writing", "ended"}
  /\ frame \in Events \cup {NoEvent}
  /\ feed \in {"none", "direct", "down", "up", "baseline", "sleep", "reading", "answered", "ended"}
  /\ pipe \in Seq(Events)
  /\ last \in Versions /\ polled \in Versions
  /\ gaps \subseteq {"early", "lost", "reordered", "restarted", "blind"}

PollWouldTell == feed \in {"sleep", "reading", "answered"} /\ last # Current
(* A poller that has not seen the record yet does not see that it goes. *)
PollUnaware   == feed = "baseline" \/ (hub = "polling" /\ last = 0 /\ Current = 0)

(* A connected client that shows an old version is about to hear of the new
   one: unless news was missed, the frame is in flight, queued, being written or
   about to be polled. Coalescing, the wake-up and the poller's bookkeeping
   drop nothing that still matters.                                           *)
NewsIsOnItsWay ==
  stage = "open" /\ gaps = {} /\ ~ PollUnaware /\ known # Current =>
    refetch \/ PollWouldTell \/ \E e \in OnItsWay : WouldTell(e)

(* Unless news was missed, a client that stays connected ends up showing the
   record as it is, over any of the hubs, without relying on heartbeats.      *)
Converges == <>[](stage = "open" /\ gaps = {} => known = Current)

(* A queued delete reaches the client or the client leaves: no later event,
   cap or busy writer keeps the stream of a deleted record open.              *)
DeleteEndsStream ==
  (stage = "open" /\ Deleted \in ToSet(queue)) ~> (stage \in {"ended", "gone"})

(* What endpoint.ts says of coalescing: clients reconcile by version, so only
   the newest hint of a type matters; notifies out of order are then harmless. *)
ReorderingIsHarmless ==
  <>[](stage = "open" /\ gaps \subseteq {"reordered"} => known = Current)
=============================================================================
