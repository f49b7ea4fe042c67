-------------------------- MODULE LiveStream_proofs --------------------------
(***************************************************************************)
(* Proofs about LiveStream for any number of commits, any bounds on the    *)
(* queue and on what is in flight, and any of the hubs, stores and         *)
(* deployments.                                                            *)
(*                                                                         *)
(* The argument: what a client must still hear is somewhere on the way     *)
(* from the store to it, in flight, in the pipe of the notified hub, in    *)
(* the queue or in the frame being written.  A hub that is notified has    *)
(* the newest version there with no older one behind it (Fresh), or a      *)
(* delete, and each step but one moves it one place on or puts a newer one *)
(* behind it; the step that drops frames counts a gap.  Where versions     *)
(* start again because a record was deleted for good, the old version's    *)
(* frame has the delete behind it (RestartsTold).  And what a poller has   *)
(* read last, it has told: the client knows it, asks for it, or has it in  *)
(* its queue (Polls).                                                      *)
(***************************************************************************)
EXTENDS LiveStream, TLAPS

\* An event about a live record, and the one that it is gone.
IsUp(e) == e.type = "updated"
IsDelete(e) == e.type = "deleted"

\* s holds nothing about a live record.
NoneIn(s) == \A i \in DOMAIN s : ~IsUp(s[i])

\* e is the last in s about a live record.
LastIn(s, e) ==
    \E i \in DOMAIN s : s[i] = e /\ \A j \in DOMAIN s : j > i => ~IsUp(s[j])

\* A version beyond n in s has the delete behind it.
Healed(s, n) ==
    \A i \in DOMAIN s : IsUp(s[i]) /\ s[i].ver > n =>
        \E j \in DOMAIN s : j > i /\ IsDelete(s[j])

\* A coalesced queue holds at most one event of a type.
Paired(q) == Len(q) <= 2 /\ (Len(q) = 2 => q[1].type # q[2].type)

-----------------------------------------------------------------------------

LEMMA EventTypes ==
  /\ Deleted \in Events /\ ~IsUp(Deleted) /\ Deleted.ver = 0 /\ IsDelete(Deleted)
  /\ \A v \in Versions : Updated(v) \in Events /\ IsUp(Updated(v)) /\ Updated(v).ver = v
  /\ \A e \in Events : /\ e.ver \in Versions /\ e # NoEvent
                       /\ IsUp(e) => e = Updated(e.ver)
                       /\ ~IsUp(e) <=> IsDelete(e)
  /\ ~IsUp(NoEvent) /\ NoEvent.ver = 0 /\ ~IsDelete(NoEvent)
  /\ \A n \in Nat : n <= MaxCommits <=> n \in Versions
  /\ Versions \subseteq Nat
BY BoundsAssumption DEF Events, Deleted, Updated, NoEvent, IsUp, IsDelete, Versions

LEMMA AppendFacts ==
  ASSUME NEW S, NEW s \in Seq(S), NEW e \in S
  PROVE  /\ Append(s, e) \in Seq(S) /\ Len(Append(s, e)) = Len(s) + 1
         /\ \A i \in 1 .. Len(s) : Append(s, e)[i] = s[i]
         /\ Append(s, e)[Len(s) + 1] = e
         /\ ToSet(Append(s, e)) = ToSet(s) \cup {e}
         /\ IsUp(e) => LastIn(Append(s, e), e)
         /\ ~IsUp(e) => /\ NoneIn(s) => NoneIn(Append(s, e))
                        /\ \A u \in S : LastIn(s, u) => LastIn(Append(s, e), u)
<1>1. /\ Append(s, e) \in Seq(S) /\ Len(Append(s, e)) = Len(s) + 1
      /\ DOMAIN Append(s, e) = 1 .. Len(s) + 1 /\ DOMAIN s = 1 .. Len(s) /\ Len(s) \in Nat
      /\ \A i \in 1 .. Len(s) : Append(s, e)[i] = s[i]
      /\ Append(s, e)[Len(s) + 1] = e
  OBVIOUS
<1>2. ToSet(Append(s, e)) = ToSet(s) \cup {e}
  BY <1>1 DEF ToSet
<1>3. IsUp(e) => LastIn(Append(s, e), e)
  BY <1>1 DEF LastIn
<1>4. ASSUME ~IsUp(e), NoneIn(s) PROVE NoneIn(Append(s, e))
  BY <1>1, <1>4 DEF NoneIn
<1>5. ASSUME ~IsUp(e), NEW u \in S, LastIn(s, u) PROVE LastIn(Append(s, e), u)
  BY <1>1, <1>5 DEF LastIn
<1> QED BY <1>1, <1>2, <1>3, <1>4, <1>5

LEMMA HealedAppend ==
  ASSUME NEW s \in Seq(Events), NEW e \in Events, NEW n \in Nat, NEW m \in Nat
  PROVE  /\ Healed(s, n) /\ m >= n /\ e.ver <= m => Healed(Append(s, e), m)
         /\ Healed(Append(s, Deleted), m)
<1>1. \A x \in Events :
        /\ DOMAIN Append(s, x) = 1 .. Len(s) + 1 /\ DOMAIN s = 1 .. Len(s) /\ Len(s) \in Nat
        /\ \A i \in 1 .. Len(s) : Append(s, x)[i] = s[i]
        /\ Append(s, x)[Len(s) + 1] = x
  OBVIOUS
<1>4. e.ver \in Nat /\ \A i \in 1 .. Len(s) : s[i] \in Events /\ s[i].ver \in Nat
  <2>1. \A x \in Events : x.ver \in Nat
    BY EventTypes
  <2> QED BY <2>1
<1>2. ASSUME Healed(s, n), m >= n, e.ver <= m PROVE Healed(Append(s, e), m)
  <2> SUFFICES ASSUME NEW i \in 1 .. Len(s) + 1, IsUp(Append(s, e)[i]), Append(s, e)[i].ver > m
               PROVE  \E j \in 1 .. Len(s) + 1 : j > i /\ IsDelete(Append(s, e)[j])
    BY <1>1 DEF Healed
  <2>1. i \in 1 .. Len(s)
    <3> SUFFICES ASSUME i = Len(s) + 1 PROVE FALSE
      BY <1>1
    <3> QED BY <1>1, <1>2, <1>4
  <2>2. s[i].ver > n /\ IsUp(s[i])
    BY <1>1, <1>2, <1>4, <2>1
  <2>3. PICK j \in DOMAIN s : j > i /\ IsDelete(s[j])
    BY <1>1, <1>2, <2>1, <2>2 DEF Healed
  <2> QED BY <1>1, <2>1, <2>3
<1>3. Healed(Append(s, Deleted), m)
  BY <1>1, EventTypes DEF Healed
<1> QED BY <1>2, <1>3

LEMMA ConcatFacts ==
  ASSUME NEW S, NEW a \in Seq(S), NEW b \in Seq(S)
  PROVE  /\ a \o b \in Seq(S) /\ Len(a \o b) = Len(a) + Len(b)
         /\ \A k \in 1 .. Len(a) + Len(b) : (a \o b)[k] = IF k <= Len(a) THEN a[k] ELSE b[k - Len(a)]
OBVIOUS

LEMMA Small == \A n \in Nat : (n <= 1 => n = 0 \/ n = 1) /\ (n <= 2 => n = 0 \/ n = 1 \/ n = 2)
OBVIOUS

LEMMA RemoveFacts ==
  ASSUME NEW S, NEW s \in Seq(S), NEW i \in DOMAIN s
  PROVE  /\ RemoveAt(s, i) \in Seq(S) /\ Len(RemoveAt(s, i)) = Len(s) - 1 /\ s[i] \in S
         /\ ToSet(s) = ToSet(RemoveAt(s, i)) \cup {s[i]}
<1> DEFINE r == RemoveAt(s, i)
<1>1. Len(s) \in Nat /\ DOMAIN s = 1 .. Len(s) /\ i \in 1 .. Len(s) /\ s[i] \in S
  OBVIOUS
<1>2. /\ SubSeq(s, 1, i - 1) \in Seq(S) /\ Len(SubSeq(s, 1, i - 1)) = i - 1
      /\ \A k \in 1 .. i - 1 : SubSeq(s, 1, i - 1)[k] = s[k]
  BY <1>1
<1>3. /\ SubSeq(s, i + 1, Len(s)) \in Seq(S) /\ Len(SubSeq(s, i + 1, Len(s))) = Len(s) - i
      /\ \A k \in 1 .. Len(s) - i : SubSeq(s, i + 1, Len(s))[k] = s[i + k]
  BY <1>1
<1>4. /\ r \in Seq(S) /\ Len(r) = Len(s) - 1
      /\ \A k \in 1 .. i - 1 : r[k] = s[k]
      /\ \A k \in i .. Len(s) - 1 : r[k] = s[k + 1]
  <2> DEFINE a == SubSeq(s, 1, i - 1)
             b == SubSeq(s, i + 1, Len(s))
  <2>1. r = a \o b
    BY DEF RemoveAt
  <2> HIDE DEF r
  <2>2. /\ a \in Seq(S) /\ Len(a) = i - 1 /\ \A k \in 1 .. i - 1 : a[k] = s[k]
        /\ b \in Seq(S) /\ Len(b) = Len(s) - i /\ \A k \in 1 .. Len(s) - i : b[k] = s[i + k]
    BY <1>2, <1>3
  <2> HIDE DEF a, b
  <2>3. /\ a \o b \in Seq(S) /\ Len(a \o b) = Len(s) - 1
        /\ \A k \in 1 .. i - 1 : (a \o b)[k] = a[k]
        /\ \A k \in i .. Len(s) - 1 : (a \o b)[k] = b[k - (i - 1)]
    <3>1. a \o b \in Seq(S) /\ Len(a \o b) = Len(a) + Len(b)
      BY <2>2, ConcatFacts
    <3>2. \A k \in 1 .. Len(a) + Len(b) : (a \o b)[k] = IF k <= Len(a) THEN a[k] ELSE b[k - Len(a)]
      BY <2>2, ConcatFacts
    <3>3. Len(a \o b) = Len(s) - 1
      BY <1>1, <2>2, <3>1
    <3>4. ASSUME NEW k \in 1 .. i - 1 PROVE (a \o b)[k] = a[k]
      BY <1>1, <2>2, <3>2, <3>4
    <3>5. ASSUME NEW k \in i .. Len(s) - 1 PROVE (a \o b)[k] = b[k - (i - 1)]
      <4>1. k \in 1 .. Len(a) + Len(b) /\ ~(k <= Len(a))
        BY <1>1, <2>2
      <4>2. (a \o b)[k] = IF k <= Len(a) THEN a[k] ELSE b[k - Len(a)]
        BY <4>1, <3>2
      <4> QED BY <4>1, <4>2, <2>2
    <3> QED BY <3>1, <3>3, <3>4, <3>5
  <2>4. \A k \in i .. Len(s) - 1 : b[k - (i - 1)] = s[k + 1]
    BY <1>1, <2>2
  <2> QED BY <2>1, <2>2, <2>3, <2>4
<1>5. DOMAIN r = 1 .. Len(s) - 1
  BY <1>4, <1>1
<1> HIDE DEF r
<1>6. ASSUME NEW k \in DOMAIN s, k # i PROVE s[k] \in ToSet(r)
  <2>1. CASE k < i
    BY <1>1, <1>4, <1>5, <1>6, <2>1 DEF ToSet
  <2>2. CASE k > i
    <3>1. k - 1 \in i .. Len(s) - 1 /\ k - 1 \in DOMAIN r /\ r[k - 1] = s[k]
      BY <1>1, <1>4, <1>5, <1>6, <2>2
    <3> QED BY <3>1 DEF ToSet
  <2> QED BY <1>1, <1>6, <2>1, <2>2
<1>7. ASSUME NEW k \in DOMAIN r PROVE r[k] \in ToSet(s)
  <2>1. k \in 1 .. Len(s) - 1
    BY <1>5, <1>7
  <2>2. CASE k < i
    <3>1. k \in DOMAIN s /\ r[k] = s[k]
      BY <1>1, <1>4, <2>1, <2>2
    <3> QED BY <3>1 DEF ToSet
  <2>3. CASE k >= i
    <3>1. k + 1 \in DOMAIN s /\ r[k] = s[k + 1]
      BY <1>1, <1>4, <2>1, <2>3
    <3> QED BY <3>1 DEF ToSet
  <2> QED BY <1>1, <2>1, <2>2, <2>3
<1>8. ToSet(s) = ToSet(r) \cup {s[i]}
  BY <1>6, <1>7, <1>1 DEF ToSet
<1> QED BY <1>1, <1>4, <1>8 DEF r

LEMMA TailFacts ==
  ASSUME NEW S, NEW s \in Seq(S), s # <<>>
  PROVE  /\ Tail(s) \in Seq(S) /\ Head(s) \in S /\ Len(Tail(s)) = Len(s) - 1
         /\ Head(s) = s[1] /\ RemoveAt(s, 1) = Tail(s) /\ 1 \in DOMAIN s
         /\ ToSet(s) = ToSet(Tail(s)) \cup {Head(s)}
         /\ NoneIn(s) => NoneIn(Tail(s)) /\ ~IsUp(Head(s))
         /\ \A u \in S : LastIn(s, u) => LastIn(Tail(s), u) \/ (Head(s) = u /\ NoneIn(Tail(s)))
         /\ \A n \in Nat : Healed(s, n) => Healed(Tail(s), n)
<1>1. /\ Len(s) \in Nat \ {0} /\ DOMAIN s = 1 .. Len(s)
      /\ Tail(s) \in Seq(S) /\ Len(Tail(s)) = Len(s) - 1 /\ DOMAIN Tail(s) = 1 .. Len(s) - 1
      /\ \A k \in 1 .. Len(s) - 1 : Tail(s)[k] = s[k + 1]
      /\ Head(s) = s[1] /\ s[1] \in S /\ 1 \in DOMAIN s
  OBVIOUS
<1>2. RemoveAt(s, 1) = Tail(s)
  <2>1. SubSeq(s, 1, 0) = <<>> /\ SubSeq(s, 2, Len(s)) = Tail(s)
    BY <1>1
  <2> QED BY <1>1, <2>1 DEF RemoveAt
<1> DEFINE t == Tail(s)
<1>0. /\ \A k \in DOMAIN t : k + 1 \in DOMAIN s /\ t[k] = s[k + 1]
      /\ \A k \in DOMAIN s : k = 1 \/ (k - 1 \in DOMAIN t /\ t[k - 1] = s[k])
      /\ DOMAIN s \subseteq Nat /\ DOMAIN t \subseteq Nat /\ \A k \in DOMAIN s : k >= 1
  BY <1>1
<1> HIDE DEF t
<1>3. ToSet(s) = ToSet(t) \cup {s[1]}
  BY <1>1, <1>2, RemoveFacts DEF t
<1>4. ASSUME NoneIn(s) PROVE NoneIn(t) /\ ~IsUp(s[1])
  BY <1>0, <1>1, <1>4 DEF NoneIn
<1>5. ASSUME NEW u \in S, LastIn(s, u) PROVE LastIn(t, u) \/ (s[1] = u /\ NoneIn(t))
  <2>1. PICK i \in DOMAIN s : s[i] = u /\ \A j \in DOMAIN s : j > i => ~IsUp(s[j])
    BY <1>5 DEF LastIn
  <2>2. \A k \in DOMAIN t : k + 1 > i => ~IsUp(t[k])
    BY <1>0, <2>1
  <2>3. CASE i = 1
    BY <1>0, <2>1, <2>2, <2>3 DEF NoneIn
  <2>4. CASE i # 1
    <3>1. i - 1 \in DOMAIN t /\ t[i - 1] = u /\ \A k \in DOMAIN t : k > i - 1 => ~IsUp(t[k])
      BY <1>0, <2>1, <2>2, <2>4
    <3> QED BY <3>1 DEF LastIn
  <2> QED BY <2>3, <2>4
<1>6. ASSUME NEW n \in Nat, Healed(s, n) PROVE Healed(t, n)
  <2> SUFFICES ASSUME NEW k \in DOMAIN t, IsUp(t[k]), t[k].ver > n
               PROVE  \E j \in DOMAIN t : j > k /\ IsDelete(t[j])
    BY DEF Healed
  <2>1. PICK j \in DOMAIN s : j > k + 1 /\ IsDelete(s[j])
    BY <1>0, <1>6 DEF Healed
  <2>2. j - 1 \in DOMAIN t /\ j - 1 > k /\ IsDelete(t[j - 1])
    BY <1>0, <2>1
  <2> QED BY <2>2
<1> QED BY <1>1, <1>2, <1>3, <1>4, <1>5, <1>6 DEF t

\* createBoundedEventQueue keeps at most one event of a type, the newest.
LEMMA CoalesceFacts ==
  ASSUME NEW q \in Seq(Events), Paired(q), NEW e \in Events
  PROVE  /\ Coalesce(q, e) \in Seq(Events) /\ Paired(Coalesce(q, e))
         /\ Len(Coalesce(q, e)) <= QueueCap
         /\ ToSet(Coalesce(q, e)) = {x \in ToSet(q) : x.type # e.type} \cup {e}
<1> DEFINE same == {i \in DOMAIN q : q[i].type = e.type}
           rest == IF same = {} THEN q
                   ELSE RemoveAt(q, CHOOSE i \in same : \A j \in same : i <= j)
           all  == Append(rest, e)
<1>1. rest \in Seq(Events) /\ Len(rest) <= 1 /\ ToSet(rest) = {x \in ToSet(q) : x.type # e.type}
  <2>1. DOMAIN q = 1 .. Len(q) /\ (Len(q) = 0 \/ Len(q) = 1 \/ Len(q) = 2) /\ \A i \in 1 .. Len(q) : q[i] \in Events
    <3> HIDE DEF same, rest, all
    <3>1. Len(q) \in Nat /\ Len(q) <= 2
      BY DEF Paired
    <3>2. Len(q) = 0 \/ Len(q) = 1 \/ Len(q) = 2
      BY <3>1, Small
    <3>3. DOMAIN q = 1 .. Len(q) /\ \A i \in 1 .. Len(q) : q[i] \in Events
      OBVIOUS
    <3> QED BY <3>2, <3>3
  <2>2. CASE same = {}
    <3>1. ToSet(q) = {x \in ToSet(q) : x.type # e.type}
      BY <2>2 DEF ToSet
    <3>2. Len(q) <= 1
      <4> SUFFICES ASSUME Len(q) = 2 PROVE FALSE
        BY <2>1
      <4>1. 1 \in DOMAIN q /\ 2 \in DOMAIN q /\ q[1].type # q[2].type
        BY <2>1 DEF Paired
      <4> QED BY <2>1, <2>2, <4>1 DEF Events
    <3> QED BY <2>2, <3>1, <3>2
  <2>3. CASE same # {}
    <3>1. PICK k \in DOMAIN q : same = {k}
      <4>1. PICK k \in DOMAIN q : q[k].type = e.type
        BY <2>3
      <4>2. \A j \in DOMAIN q : q[j].type = e.type => j = k
        BY <2>1, <4>1 DEF Paired
      <4> QED BY <4>1, <4>2
    <3>2. (CHOOSE i \in same : \A j \in same : i <= j) = k
      BY <2>1, <3>1
    <3>3. rest = RemoveAt(q, k)
      BY <2>3, <3>2
    <3> HIDE DEF rest
    <3>4. rest \in Seq(Events) /\ Len(rest) = Len(q) - 1 /\ ToSet(q) = ToSet(rest) \cup {q[k]}
      BY <3>3, RemoveFacts
    <3>5. q[k].type = e.type /\ \A j \in DOMAIN q : j # k => q[j].type # e.type
      BY <3>1
    <3>6. \A x \in ToSet(rest) : x.type # e.type
      <4>1. CASE Len(rest) = 0
        BY <3>4, <4>1 DEF ToSet
      <4>2. CASE Len(rest) = 1
        <5>1. Len(q) = 2 /\ ToSet(rest) = {rest[1]}
          <6>1. Len(q) = 2
            BY <3>4, <4>2, <2>1
          <6>2. DOMAIN rest = {1}
            BY <3>4, <4>2
          <6> QED BY <6>1, <6>2 DEF ToSet
        <5>2. ToSet(q) = {q[1], q[2]} /\ q[1].type # q[2].type
          BY <5>1, <2>1 DEF ToSet, Paired
        <5>3. PICK j \in DOMAIN q : j # k
          BY <5>1, <2>1
        <5>4. q[j] \in ToSet(q) /\ q[j].type # q[k].type
          BY <3>5 , <5>3 DEF ToSet
        <5>5. rest[1] = q[j]
          BY <3>4, <5>1, <5>4
        <5> QED BY <5>1, <5>4, <5>5, <3>5
      <4> QED BY <2>1, <3>4, <4>1, <4>2
    <3>7. Len(rest) <= 1
      BY <2>1, <3>4
    <3> QED BY <3>4, <3>5, <3>6, <3>7
  <2> QED BY <2>2, <2>3
<1> HIDE DEF rest
<1>2. Len(rest) = 0 \/ Len(rest) = 1
  <2>1. Len(rest) \in Nat
    BY <1>1
  <2> QED BY <1>1, <2>1, Small
<1>3. /\ all \in Seq(Events) /\ Len(all) = Len(rest) + 1 /\ ToSet(all) = ToSet(rest) \cup {e}
  <2>1. rest \in Seq(Events)
    BY <1>1
  <2> QED BY <2>1, AppendFacts DEF all
<1>4. Len(rest) = 1 => all[1] = rest[1] /\ all[2] = e /\ rest[1] \in ToSet(rest)
  <2>1. rest \in Seq(Events)
    BY <1>1
  <2>2. ASSUME Len(rest) = 1 PROVE rest[1] \in ToSet(rest)
    <3>1. 1 \in DOMAIN rest
      BY <2>1, <2>2
    <3> QED BY <3>1 DEF ToSet
  <2>3. ASSUME Len(rest) = 1 PROVE all[1] = rest[1] /\ all[2] = e
    <3>1. /\ \A i \in 1 .. Len(rest) : all[i] = rest[i]
          /\ all[Len(rest) + 1] = e
      BY <2>1, AppendFacts DEF all
    <3> HIDE DEF all
    <3> QED BY <2>3, <3>1
  <2> QED BY <2>2, <2>3
<1>5. Paired(all) /\ Len(all) <= QueueCap
  BY <1>1, <1>2, <1>3, <1>4, BoundsAssumption DEF Paired
<1> HIDE DEF all
<1>6. Coalesce(q, e) = all
  <2>1. Coalesce(q, e) = SubSeq(all, IF Len(all) > QueueCap THEN Len(all) - QueueCap + 1 ELSE 1, Len(all))
    BY DEF Coalesce, all, rest
  <2>2. SubSeq(all, 1, Len(all)) = all
    <3>1. Len(all) \in Nat
      BY <1>3
    <3> QED BY <1>3, <3>1
  <2>3. ~(Len(all) > QueueCap)
    BY <1>2, <1>3, <1>5, BoundsAssumption
  <2> QED BY <2>1, <2>2, <2>3
<1> QED BY <1>1, <1>3, <1>5, <1>6

-----------------------------------------------------------------------------
(* The inductive invariant                                                 *)

\* The client will be told that the record is gone.
DeleteTold == \E e \in OnItsWay : IsDelete(e)

\* What holds at each stage of the client and for each hub.
Places ==
    /\ stage \in {"off", "fetched", "admitted"} =>
          /\ loop = "off" /\ feed = "none" /\ queue = <<>> /\ frame = NoEvent /\ pipe = <<>>
          /\ last = 0 /\ polled = 0 /\ ~refetch
    /\ stage = "open" =>
          /\ Subscribed
          /\ loop = "writing" <=> frame # NoEvent
          /\ hub = "polling" =>
                \/ feed \in {"baseline", "sleep", "reading", "answered"}
                \/ DeleteTold
          /\ hub # "polling" => feed \in {"direct", "down", "up"}
          /\ feed # "up" => pipe = <<>>
    /\ hub # "durable" => pipe = <<>> /\ feed \notin {"down", "up"}
    /\ feed \in {"baseline", "sleep", "reading", "answered"} => hub = "polling"
    /\ hub = "polling" => inflight = <<>> /\ ~push
    /\ push => ~refetch

Rows ==
    /\ ~row.live /\ ~soft => row.ver = 0
    /\ row.live => row.ver > 0
    /\ row.ver <= commits

\* The newest version is on its way, and no older one behind it.
Fresh ==
    LET u == Updated(row.ver)
    IN  \/ LastIn(inflight, u)
        \/ LastIn(pipe, u) /\ NoneIn(inflight)
        \/ u \in ToSet(queue) /\ NoneIn(pipe) /\ NoneIn(inflight)
        \/ frame = u

\* A hub that is notified: the client knows, is about to ask, or will be told.
Announced ==
    hub # "polling" /\ Watching /\ gaps = {} =>
       \/ known = Current
       \/ refetch
       \/ DeleteTold
       \/ row.live /\ known < row.ver /\ Fresh

\* Record frames: a version from before the record was deleted for good has the
\* delete behind it.
RestartsTold ==
    push /\ gaps = {} =>
       /\ Healed(inflight, Current)
       /\ Watching => \A e \in OnItsWay : e.ver > Current => DeleteTold

\* The poller has announced what it saw last.
Polls ==
    hub = "polling" /\ Watching /\ gaps = {} =>
       /\ row.live \/ soft => known <= row.ver /\ last <= row.ver /\ polled <= row.ver
       /\ feed \in {"baseline", "none"} => last = 0
       /\ feed = "answered" /\ polled # 0 => polled >= last
       /\ last # 0 /\ last = Current =>
             \/ known >= last
             \/ refetch
             \/ DeleteTold
             \/ frame = Updated(last) \/ Updated(last) \in ToSet(queue)

Shape == TypeOK /\ Paired(queue) /\ Places /\ Rows

Inv == Shape /\ Announced /\ RestartsTold /\ Polls

-----------------------------------------------------------------------------
(* What the parts of a step do                                             *)

LEMMA EventsInOrder ==
  ASSUME TypeOK
  PROVE  /\ ToSet(inflight) \subseteq Events /\ ToSet(pipe) \subseteq Events
         /\ ToSet(queue) \subseteq Events
         /\ \A i \in DOMAIN inflight : inflight[i] \in ToSet(inflight)
         /\ ToSet(<<>>) = {} /\ NoneIn(<<>>) /\ \A u \in Events : ~LastIn(<<>>, u)
         /\ \A n \in Nat : Healed(<<>>, n)
BY DEF TypeOK, ToSet, NoneIn, LastIn, Healed

\* onEvent puts the event in the place of the one of its type.
LEMMA Queued ==
  ASSUME TypeOK, Paired(queue), NEW e \in Events, OnEvent(e)
  PROVE  /\ queue' \in Seq(Events) /\ Len(queue') <= QueueCap /\ Paired(queue')
         /\ ToSet(queue') = {x \in ToSet(queue) : x.type # e.type} \cup {e}
         /\ loop' = (IF loop = "asleep" THEN "ready" ELSE loop) /\ frame' = frame
<1>1. queue' = Coalesce(queue, e) /\ queue \in Seq(Events)
  BY DEF OnEvent, TypeOK
<1> QED BY <1>1, CoalesceFacts DEF OnEvent

LEMMA Emitted ==
  ASSUME TypeOK, Commits, NEW e \in Events, Emit(e)
  PROVE  /\ inflight' \in Seq(Events) /\ Len(inflight') <= MaxInFlight
         /\ hub = "polling" => inflight' = inflight
         /\ hub # "polling" =>
               /\ inflight' = Append(inflight, e)
               /\ ToSet(inflight') = ToSet(inflight) \cup {e}
               /\ IsUp(e) => LastIn(inflight', e)
<1>1. inflight \in Seq(Events) /\ Len(inflight) < MaxInFlight /\ Len(inflight) \in Nat
  BY DEF TypeOK, Commits
<1>2. MaxInFlight \in Nat
  BY BoundsAssumption
<1>3. CASE hub = "polling"
  BY <1>1, <1>2, <1>3 DEF Emit
<1>4. CASE hub # "polling"
  <2>1. inflight' = Append(inflight, e)
    BY <1>4 DEF Emit
  <2>2. Len(Append(inflight, e)) = Len(inflight) + 1
    BY <1>1, AppendFacts
  <2>3. Len(inflight) + 1 <= MaxInFlight
    BY <1>1, <1>2
  <2> QED BY <1>1, <1>4, <2>1, <2>2, <2>3, AppendFacts
<1> QED BY <1>3, <1>4

LEMMA Notified ==
  ASSUME TypeOK, NEW i \in DOMAIN inflight, Notify(i)
  PROVE  /\ inflight[i] \in Events
         /\ inflight' \in Seq(Events) /\ Len(inflight') <= MaxInFlight
         /\ ToSet(inflight) = ToSet(inflight') \cup {inflight[i]}
         /\ i > 1 \/ (i = 1 /\ inflight # <<>> /\ Head(inflight) = inflight[i]
                         /\ inflight' = Tail(inflight))
<1>1. inflight \in Seq(Events) /\ Len(inflight) <= MaxInFlight /\ inflight' = RemoveAt(inflight, i)
      /\ MaxInFlight \in Nat
  BY BoundsAssumption DEF TypeOK, Notify
<1>2. i \in Nat /\ i >= 1 /\ Len(inflight) \in Nat /\ inflight # <<>>
  BY <1>1
<1>3. /\ RemoveAt(inflight, i) \in Seq(Events) /\ Len(RemoveAt(inflight, i)) = Len(inflight) - 1
      /\ inflight[i] \in Events /\ ToSet(inflight) = ToSet(RemoveAt(inflight, i)) \cup {inflight[i]}
  BY <1>1, RemoveFacts
<1>4. Len(inflight) - 1 <= MaxInFlight
  BY <1>1, <1>2
<1>5. i = 1 => Head(inflight) = inflight[i] /\ RemoveAt(inflight, 1) = Tail(inflight)
  BY <1>1, <1>2, TailFacts
<1> QED BY <1>1, <1>2, <1>3, <1>4, <1>5

\* The queue and the pipe give up their oldest.
LEMMA Taken ==
  ASSUME NEW s \in Seq(Events), s # <<>>
  PROVE  /\ Head(s) \in Events /\ Tail(s) \in Seq(Events)
         /\ Len(s) <= QueueCap => Len(Tail(s)) <= QueueCap
         /\ ToSet(s) = ToSet(Tail(s)) \cup {Head(s)}
         /\ Paired(s) => Paired(Tail(s))
<1>1. /\ Tail(s) \in Seq(Events) /\ Head(s) \in Events /\ Len(Tail(s)) = Len(s) - 1
      /\ ToSet(s) = ToSet(Tail(s)) \cup {Head(s)}
  BY TailFacts
<1>2. Len(s) \in Nat /\ Len(Tail(s)) \in Nat /\ QueueCap \in Nat
  BY <1>1, BoundsAssumption
<1> QED BY <1>1, <1>2 DEF Paired

LEMMA Noted ==
  ASSUME TypeOK, NEW how \in {"early", "lost", "blind"}, Missed(how)
  PROVE  /\ gaps' \subseteq {"early", "lost", "reordered", "restarted", "blind"}
         /\ gaps' = {} =>
               /\ gaps = {}
               /\ Watching => known = Current /\ (push => \A e \in OnItsWay : ~(e.ver > known))
BY DEF Missed, TypeOK, Overtaken

-----------------------------------------------------------------------------
(* Types, and what holds at each stage                                     *)

LEMMA InitShape == Init => Shape
<1> SUFFICES ASSUME Init PROVE Shape
  OBVIOUS
<1>1. /\ Len(<<>>) = 0 /\ <<>> \in Seq(Events) /\ 0 \in Versions /\ 0 \in 0 .. MaxCommits
      /\ 0 <= MaxInFlight /\ 0 <= QueueCap
      /\ [live |-> FALSE, ver |-> 0] \in [live : BOOLEAN, ver : Versions]
  BY BoundsAssumption DEF Versions
<1>2. TypeOK
  BY <1>1 DEF Init, TypeOK
<1>3. Paired(queue)
  BY <1>1 DEF Init, Paired
<1>4. Places
  BY DEF Init, Places, Hubs, CanPush
<1>5. Rows
  BY DEF Init, Rows
<1> QED BY <1>2, <1>3, <1>4, <1>5 DEF Shape

LEMMA WriteTypes ==
  ASSUME TypeOK, Paired(queue), Rows, Write \/ Delete
  PROVE  TypeOK' /\ Paired(queue') /\ Rows'
<1>1. row.ver + 1 \in Versions /\ row.ver \in Nat /\ commits + 1 \in 0 .. MaxCommits
      /\ 0 \in Versions /\ row.ver + 1 <= commits + 1 /\ row.ver + 1 > 0 /\ commits \in Nat
  BY BoundsAssumption DEF TypeOK, Rows, Write, Delete, Commits, Versions
<1>2. Updated(row.ver + 1) \in Events /\ Deleted \in Events
  BY <1>1, EventTypes
<1>3. Commits /\ (Emit(Updated(row.ver + 1)) \/ Emit(Deleted))
  BY DEF Write, Delete
<1>4. inflight' \in Seq(Events) /\ Len(inflight') <= MaxInFlight
  BY <1>2, <1>3, Emitted
<1>5. /\ UNCHANGED <<deployment, client, endpoint, leg>> /\ commits' = commits + 1
      /\ gaps' \subseteq {"early", "lost", "reordered", "restarted", "blind"}
      /\ \/ row' = [live |-> TRUE, ver |-> row.ver + 1]
         \/ row' = [live |-> FALSE, ver |-> IF soft THEN row.ver + 1 ELSE 0]
  BY DEF Write, Delete, Commits, TypeOK
<1>8. row' \in [live : BOOLEAN, ver : Versions]
  <2>1. (IF soft THEN row.ver + 1 ELSE 0) \in Versions
    BY <1>1
  <2>2. \A b \in BOOLEAN, v \in Versions :
           [live |-> b, ver |-> v] \in [live : BOOLEAN, ver : Versions]
    OBVIOUS
  <2> QED BY <1>1, <1>5, <2>1, <2>2
<1>6. TypeOK'
  BY <1>1, <1>4, <1>5, <1>8 DEF TypeOK, deployment, client, endpoint, leg
<1>7. Paired(queue') /\ Rows'
  BY <1>1, <1>5 DEF Rows, deployment, client, endpoint, leg
<1> QED BY <1>6, <1>7

LEMMA NotifyTypes ==
  ASSUME TypeOK, Paired(queue), Rows, NEW i \in DOMAIN inflight, Notify(i)
  PROVE  TypeOK' /\ Paired(queue') /\ Rows'
<1> DEFINE e == inflight[i]
<1>1. e \in Events /\ inflight' \in Seq(Events) /\ Len(inflight') <= MaxInFlight
  BY Notified
<1>2. /\ UNCHANGED <<deployment, row, commits, client>>
      /\ gaps' \subseteq {"early", "lost", "reordered", "restarted", "blind"}
  BY DEF Notify, Unheard, Missed, TypeOK
<1> HIDE DEF e
<1>3. /\ queue' \in Seq(Events) /\ Len(queue') <= QueueCap /\ Paired(queue')
      /\ loop' \in {"off", "ready", "asleep", "writing", "ended"} /\ frame' = frame
      /\ pipe' \in Seq(Events) /\ UNCHANGED <<feed, last, polled>>
  <2>1. CASE MemoryNotify(e)
    BY <1>1, <2>1, Queued DEF MemoryNotify, leg, TypeOK
  <2>2. CASE DurableNotify(e)
    <3>1. Append(pipe, e) \in Seq(Events)
      BY <1>1, AppendFacts DEF TypeOK
    <3> QED BY <2>2, <3>1 DEF DurableNotify, FanOut, endpoint, TypeOK
  <2>3. CASE Unheard(i)
    BY <2>3 DEF Unheard, endpoint, leg, TypeOK
  <2> QED BY <2>1, <2>2, <2>3 DEF Notify, e
<1> QED BY <1>1, <1>2, <1>3 DEF TypeOK, Rows, deployment, client

LEMMA ShapeTypes ==
  ASSUME TypeOK, Paired(queue), Rows, [Next]_vars
  PROVE  TypeOK' /\ Paired(queue') /\ Rows'
<1> USE DEF deployment, store, client, endpoint, leg
<1>0. 0 \in Versions /\ Current \in Versions
  BY BoundsAssumption DEF Versions, Current, TypeOK
<1>1. CASE Write \/ Delete
  BY <1>1, WriteTypes
<1>2. CASE NotifyAny
  BY <1>2, NotifyTypes DEF NotifyAny
<1>3. CASE PollBaseline
  <2>1. gaps' \subseteq {"early", "lost", "reordered", "restarted", "blind"}
    BY <1>3, Noted DEF PollBaseline, TypeOK
  <2> QED BY <1>0, <1>3, <2>1 DEF PollBaseline, TypeOK, Rows
<1>4. CASE PollWakes
  BY <1>4 DEF PollWakes, TypeOK, Rows
<1>5. CASE PollReads
  BY <1>0, <1>5 DEF PollReads, TypeOK, Rows
<1>6. CASE PollFails
  BY <1>6 DEF PollFails, TypeOK, Rows
<1>7. CASE PollAnswer
  <2>1. CASE NotStopped /\ polled # last /\ OnEvent(IF polled = 0 THEN Deleted ELSE Updated(polled))
    <3> DEFINE e == IF polled = 0 THEN Deleted ELSE Updated(polled)
    <3>1. e \in Events
      BY EventTypes DEF TypeOK
    <3> HIDE DEF e
    <3>2. OnEvent(e)
      BY <2>1 DEF e
    <3>3. /\ queue' \in Seq(Events) /\ Len(queue') <= QueueCap /\ Paired(queue')
          /\ loop' = (IF loop = "asleep" THEN "ready" ELSE loop) /\ frame' = frame
      BY <3>1, <3>2, Queued
    <3>4. /\ UNCHANGED <<deployment, store, client, pipe, gaps>> /\ polled' = 0
          /\ last' \in Versions /\ feed' \in {"sleep", "ended"}
      BY <1>7, <2>1 DEF PollAnswer, TypeOK
    <3> QED BY <1>0, <3>3, <3>4 DEF TypeOK, Rows
  <2>2. CASE UNCHANGED <<endpoint, last>>
    <3>1. gaps' \subseteq {"early", "lost", "reordered", "restarted", "blind"}
      BY <1>7, Noted DEF PollAnswer, TypeOK
    <3>2. feed' \in {"sleep", "ended"} /\ polled' = 0 /\ UNCHANGED <<deployment, store, client, pipe>>
      BY <1>7 DEF PollAnswer
    <3> QED BY <1>0, <2>2, <3>1, <3>2 DEF TypeOK, Rows
  <2> QED BY <1>7, <2>1, <2>2 DEF PollAnswer
<1>8. CASE LegUp
  BY <1>8 DEF LegUp, TypeOK, Rows
<1>9. CASE LegDown
  <2>1. gaps' \subseteq {"early", "lost", "reordered", "restarted", "blind"}
    BY <1>9, Noted DEF LegDown, TypeOK
  <2>2. <<>> \in Seq(Events)
    OBVIOUS
  <2> QED BY <1>9, <2>1, <2>2 DEF LegDown, TypeOK, Rows
<1>10. CASE Pump
  <2>1. Head(pipe) \in Events /\ Tail(pipe) \in Seq(Events)
    BY <1>10, Taken DEF Pump, TypeOK
  <2>2. OnEvent(Head(pipe)) /\ pipe' = Tail(pipe)
        /\ UNCHANGED <<deployment, store, client, feed, last, polled, gaps>>
    BY <1>10 DEF Pump
  <2>3. /\ queue' \in Seq(Events) /\ Len(queue') <= QueueCap /\ Paired(queue')
        /\ loop' = (IF loop = "asleep" THEN "ready" ELSE loop) /\ frame' = frame
    BY <2>1, <2>2, Queued
  <2> QED BY <2>1, <2>2, <2>3 DEF TypeOK, Rows
<1>11. CASE LegEnds
  BY <1>11 DEF LegEnds, TypeOK, Rows
<1>12. CASE LoopRuns
  <2>1. CASE queue # <<>> /\ frame' = Head(queue) /\ queue' = Tail(queue)
    <3>1. Head(queue) \in Events /\ Tail(queue) \in Seq(Events) /\ Len(Tail(queue)) <= QueueCap
          /\ Paired(Tail(queue))
      BY <2>1, Taken DEF TypeOK
    <3> QED BY <1>12, <2>1, <3>1 DEF LoopRuns, TypeOK, Rows
  <2>2. CASE UNCHANGED <<queue, frame>>
    BY <1>12, <2>2 DEF LoopRuns, TypeOK, Rows
  <2> QED BY <1>12, <2>1, <2>2 DEF LoopRuns
<1>13. CASE Heartbeat
  BY <1>13 DEF Heartbeat, TypeOK, Rows
<1>14. CASE FrameTaken
  <2>1. frame.ver \in Versions
    BY <1>0, EventTypes DEF TypeOK
  <2> QED BY <1>0, <1>14, <2>1 DEF FrameTaken, Apply, TypeOK, Rows
<1>15. CASE WriteThrows
  BY <1>15 DEF WriteThrows, TypeOK, Rows
<1>16. CASE Fetch
  BY <1>0, <1>16 DEF Fetch, TypeOK, Rows
<1>19. CASE Admit
  BY <1>19 DEF Admit, TypeOK, Rows
<1>20. CASE Refetch
  <2>1. /\ refetch' \in BOOLEAN /\ known' \in Versions
        /\ UNCHANGED <<deployment, store, stage, endpoint, leg, gaps>>
    BY <1>0, <1>20 DEF Refetch
  <2> QED BY <2>1 DEF TypeOK, Rows
<1>21. CASE Abort
  BY <1>21 DEF Abort, TypeOK, Rows
<1>18. CASE Open
  <2>1. FeedStart[hub] \in {"direct", "down", "baseline"}
    BY DEF FeedStart, Hubs, TypeOK
  <2> QED BY <1>18, <2>1 DEF Open, TypeOK, Rows
<1>17. CASE UNCHANGED vars
  BY <1>17 DEF vars, TypeOK, Rows
<1> QED BY <1>1, <1>2, <1>3, <1>4, <1>5, <1>6, <1>7, <1>8, <1>9, <1>10, <1>11, <1>12, <1>13,
           <1>14, <1>15, <1>16, <1>17, <1>18, <1>19, <1>20, <1>21 DEF Next

LEMMA PlacesNext ==
  ASSUME Shape, [Next]_vars
  PROVE  Places'
<1> USE DEF deployment, store, client, endpoint, leg
<1>0. TypeOK /\ Paired(queue) /\ Places /\ Rows
  BY DEF Shape
<1>a. ~IsDelete(NoEvent) /\ \A e \in Events : e # NoEvent
  BY EventTypes
<1>1. CASE Write \/ Delete
  <2>1. CASE hub = "polling"
    BY <1>0, <1>1, <2>1 DEF Write, Delete, Commits, Emit, Places, Subscribed, OnItsWay, DeleteTold
  <2>2. CASE hub # "polling"
    BY <1>0, <1>1, <2>2 DEF Write, Delete, Commits, Places, Subscribed
  <2> QED BY <2>1, <2>2
<1>2. ASSUME NEW i \in DOMAIN inflight, Notify(i) PROVE Places'
  <2> DEFINE e == inflight[i]
  <2>0. e \in Events /\ inflight # <<>> /\ hub # "polling"
    BY <1>0, <1>2, Notified DEF Places
  <2>5. UNCHANGED <<deployment, row, commits, client>>
    BY <1>2 DEF Notify
  <2> HIDE DEF e
  <2>1. CASE MemoryNotify(e)
    BY <1>0, <2>0, <2>1, <2>5, Queued DEF MemoryNotify, Places, Subscribed, TypeOK
  <2>2. CASE DurableNotify(e)
    BY <1>0, <2>0, <2>2, <2>5 DEF DurableNotify, Places, Subscribed, TypeOK
  <2>3. CASE Unheard(i)
    BY <1>0, <2>0, <2>3, <2>5 DEF Unheard, Places, Subscribed, TypeOK
  <2> QED BY <1>2, <2>1, <2>2, <2>3 DEF Notify, e
<1>3. CASE PollBaseline \/ PollWakes \/ PollReads \/ PollFails
  BY <1>0, <1>3 DEF PollBaseline, PollWakes, PollReads, PollFails, Places, Subscribed, OnItsWay, DeleteTold
<1>7. CASE PollAnswer
  <2> DEFINE e == IF polled = 0 THEN Deleted ELSE Updated(polled)
  <2>0. hub = "polling" /\ UNCHANGED <<deployment, store, client, pipe>> /\ feed = "answered"
        /\ polled' = 0
    BY <1>0, <1>7 DEF PollAnswer, Places
  <2>1. CASE NotStopped /\ OnEvent(e) /\ feed' = IF polled = 0 THEN "ended" ELSE "sleep"
    <3>1. e \in Events
      BY <1>0, EventTypes DEF TypeOK
    <3>2. polled = 0 => IsDelete(e)
      BY EventTypes
    <3> HIDE DEF e
    <3>3. /\ ToSet(queue') = {x \in ToSet(queue) : x.type # e.type} \cup {e}
          /\ loop' = (IF loop = "asleep" THEN "ready" ELSE loop) /\ frame' = frame
      BY <1>0, <2>1, <3>1, Queued
    <3>4. polled = 0 => DeleteTold'
      BY <3>2, <3>3 DEF OnItsWay, DeleteTold
    <3> QED BY <1>0, <2>0, <2>1, <3>3, <3>4 DEF Places, Subscribed, NotStopped
  <2>2. CASE UNCHANGED endpoint /\ (feed' = "sleep" \/ (feed' = "ended" /\ ~NotStopped))
    <3>1. CASE feed' = "sleep"
      BY <1>0, <2>0, <2>2, <3>1 DEF Places, Subscribed, OnItsWay, DeleteTold
    <3>2. CASE feed' = "ended" /\ ~NotStopped
      <4>1. stage # "open" /\ stage \notin {"off", "fetched", "admitted"}
        BY <1>0, <2>0, <3>2 DEF Places, NotStopped
      <4> QED BY <1>0, <2>0, <2>2, <3>2, <4>1 DEF Places
    <3> QED BY <2>0, <2>2, <1>7, <3>1, <3>2 DEF PollAnswer
  <2> QED BY <1>7, <2>1, <2>2 DEF PollAnswer
<1>8. CASE LegUp \/ LegDown \/ LegEnds
  BY <1>0, <1>8 DEF LegUp, LegDown, LegEnds, Places, Subscribed
<1>10. CASE Pump
  <2>1. Head(pipe) \in Events
    BY <1>0, <1>10, Taken DEF Pump, TypeOK
  <2>2. /\ loop' = (IF loop = "asleep" THEN "ready" ELSE loop) /\ frame' = frame
    BY <1>0, <1>10, <2>1, Queued DEF Pump
  <2> QED BY <1>0, <1>10, <2>2 DEF Pump, Places, Subscribed
<1>12. CASE LoopRuns
  <2>0. /\ UNCHANGED <<deployment, store, client, leg>> /\ loop = "ready"
    BY <1>12 DEF LoopRuns
  <2>1. CASE stage = "gone" /\ loop' = "ended"
    BY <1>0, <1>12, <2>0, <2>1 DEF Places
  <2>2. CASE queue # <<>> /\ frame' = Head(queue) /\ queue' = Tail(queue) /\ loop' = "writing"
    <3>1. frame' \in Events /\ ToSet(queue) = ToSet(queue') \cup {frame'}
      BY <1>0, <2>2, Taken DEF TypeOK
    <3>2. frame' # NoEvent
      BY <1>a, <3>1
    <3>3. stage = "open" => frame = NoEvent
      BY <1>0, <2>0 DEF Places
    <3>4. stage = "open" => OnItsWay = OnItsWay' \cup {NoEvent}
      BY <2>0, <3>1, <3>3 DEF OnItsWay
    <3>5. stage = "open" => (DeleteTold <=> DeleteTold')
      BY <1>a, <3>4 DEF DeleteTold
    <3> QED BY <1>0, <1>a, <2>0, <2>2, <3>2, <3>5 DEF Places, Subscribed
  <2>3. CASE queue = <<>> /\ loop' = "asleep" /\ UNCHANGED <<queue, frame>>
    BY <1>0, <2>0, <2>3 DEF Places, Subscribed, OnItsWay, DeleteTold
  <2> QED BY <1>12, <2>1, <2>2, <2>3 DEF LoopRuns
<1>13. CASE Heartbeat
  BY <1>0, <1>13 DEF Heartbeat, Places, Subscribed, OnItsWay, DeleteTold
<1>14. CASE FrameTaken
  <2>1. CASE frame.type = "deleted"
    BY <1>0, <1>14, <2>1 DEF FrameTaken, Places
  <2>2. CASE frame.type # "deleted"
    <3>1. ~IsDelete(frame)
      BY <2>2 DEF IsDelete
    <3>2. DeleteTold => DeleteTold'
      BY <1>14, <3>1 DEF FrameTaken, OnItsWay, DeleteTold
    <3> QED BY <1>0, <1>14, <2>2, <3>2 DEF FrameTaken, Apply, Places, Subscribed
  <2> QED BY <2>1, <2>2
<1>15. CASE WriteThrows
  BY <1>0, <1>15 DEF WriteThrows, Places
<1>16. CASE Fetch \/ Admit
  BY <1>0, <1>16 DEF Fetch, Admit, Places
<1>18. CASE Open
  BY <1>0, <1>18 DEF Open, Places, FeedStart, Hubs, TypeOK, Subscribed
<1>19. CASE Refetch \/ Abort
  BY <1>0, <1>19 DEF Refetch, Abort, Places, Subscribed, OnItsWay, DeleteTold
<1>17. CASE UNCHANGED vars
  BY <1>0, <1>17 DEF vars, Places, Subscribed, OnItsWay, DeleteTold
<1> QED BY <1>1, <1>2, <1>3, <1>7, <1>8, <1>10, <1>12, <1>13, <1>14, <1>15, <1>16, <1>17, <1>18,
           <1>19 DEF Next, NotifyAny

LEMMA ShapeNext ==
  ASSUME Shape, [Next]_vars
  PROVE  Shape'
BY ShapeTypes, PlacesNext DEF Shape

-----------------------------------------------------------------------------
(* News over a hub that is notified                                        *)

LEMMA Deployed == [Next]_vars => UNCHANGED deployment
BY DEF Next, vars, Write, Delete, Commits, NotifyAny, Notify, PollBaseline, PollWakes, PollReads,
       PollFails, PollAnswer, LegUp, LegDown, Pump, LegEnds, LoopRuns, Heartbeat, FrameTaken,
       WriteThrows, Fetch, Admit, Open, Refetch, Abort

\* What was missed stays missed.
LEMMA GapsGrow == [Next]_vars /\ gaps' = {} => gaps = {}
BY DEF Next, vars, Write, Delete, NotifyAny, Notify, Unheard, Missed, PollBaseline, PollWakes,
       PollReads, PollFails, PollAnswer, LegUp, LegDown, Pump, LegEnds, LoopRuns, Heartbeat,
       FrameTaken, WriteThrows, Fetch, Admit, Open, Refetch, Abort

\* The client shows the record and nothing on its way could change that.
AtRest ==
    Watching => known = Current /\ (push => \A e \in OnItsWay : ~(e.ver > known))

\* A write or a delete of the record puts its event last.
LEMMA Announces ==
  ASSUME Shape, Write \/ Delete, hub # "polling"
  PROVE  /\ UNCHANGED <<deployment, client, endpoint, leg>>
         /\ inflight' \in Seq(Events)
         /\ Write =>
              /\ row'.live = TRUE /\ row'.ver = row.ver + 1
              /\ inflight' = Append(inflight, Updated(row.ver + 1))
              /\ LastIn(inflight', Updated(row.ver + 1))
              /\ OnItsWay' = OnItsWay \cup {Updated(row.ver + 1)}
              /\ Updated(row.ver + 1) \in Events /\ Updated(row.ver + 1).ver = row.ver + 1
         /\ Delete =>
              /\ row'.live = FALSE
              /\ inflight' = Append(inflight, Deleted)
              /\ DeleteTold'
<1>0. TypeOK /\ Rows /\ Commits
  BY DEF Shape, Write, Delete
<1>1. UNCHANGED <<deployment, client, endpoint, leg>>
  BY <1>0 DEF Commits
<1>2. row.ver + 1 \in Versions
  BY <1>0, BoundsAssumption DEF TypeOK, Rows, Commits, Versions
<1>3. CASE Write
  <2>1. /\ Updated(row.ver + 1) \in Events /\ IsUp(Updated(row.ver + 1))
        /\ Updated(row.ver + 1).ver = row.ver + 1
    BY <1>2, EventTypes
  <2>2. Emit(Updated(row.ver + 1)) /\ row' = [live |-> TRUE, ver |-> row.ver + 1]
    BY <1>3 DEF Write
  <2>3. /\ inflight' \in Seq(Events) /\ inflight' = Append(inflight, Updated(row.ver + 1))
        /\ ToSet(inflight') = ToSet(inflight) \cup {Updated(row.ver + 1)}
        /\ LastIn(inflight', Updated(row.ver + 1))
    BY <1>0, <2>1, <2>2, Emitted
  <2>4. OnItsWay' = OnItsWay \cup {Updated(row.ver + 1)}
    BY <1>1, <2>3 DEF OnItsWay, endpoint, leg
  <2>5. ~Delete
    BY <2>2 DEF Delete
  <2> QED BY <1>1, <2>1, <2>2, <2>3, <2>4, <2>5
<1>4. CASE Delete
  <2>1. Emit(Deleted) /\ row'.live = FALSE
    BY <1>4 DEF Delete
  <2>2. /\ inflight' \in Seq(Events) /\ inflight' = Append(inflight, Deleted)
        /\ ToSet(inflight') = ToSet(inflight) \cup {Deleted}
    BY <1>0, <2>1, EventTypes, Emitted
  <2>3. ~Write
    BY <2>1 DEF Write
  <2>4. DeleteTold'
    BY <2>2, EventTypes DEF OnItsWay, DeleteTold
  <2> QED BY <1>1, <2>1, <2>2, <2>3, <2>4
<1> QED BY <1>3, <1>4

\* An event that is handed on in its turn keeps its place, and the one of its
\* type that it replaces is older.
LEMMA Delivered ==
  ASSUME Shape, hub # "polling",
         NEW e \in Events,
         UNCHANGED row,
         \/ /\ inflight # <<>> /\ e = Head(inflight) /\ inflight' = Tail(inflight)
            /\ MemoryNotify(e) \/ DurableNotify(e)
         \/ Pump /\ e = Head(pipe)
  PROVE  /\ OnItsWay' \subseteq OnItsWay
         /\ DeleteTold => DeleteTold'
         /\ Fresh => Fresh'
<1>0. TypeOK /\ Paired(queue) /\ Places
  BY DEF Shape
<1>q. inflight \in Seq(Events) /\ pipe \in Seq(Events) /\ queue \in Seq(Events)
  BY <1>0 DEF TypeOK
<1> DEFINE u == Updated(row.ver)
<1>u. u \in Events /\ IsUp(u) 
  BY <1>0, EventTypes DEF TypeOK
<1>t. /\ u.type = "updated" /\ (IsUp(e) => e.type = "updated")
      /\ \A x : IsDelete(x) /\ x.type = e.type => IsDelete(e)
      /\ IsUp(u) /\ u.type = e.type => IsUp(e)
  BY <1>u DEF IsUp, IsDelete
<1>f. Fresh <=> \/ LastIn(inflight, u)
                \/ LastIn(pipe, u) /\ NoneIn(inflight)
                \/ u \in ToSet(queue) /\ NoneIn(pipe) /\ NoneIn(inflight)
                \/ frame = u
  BY DEF Fresh
<1>g. Fresh' <=> \/ LastIn(inflight', u)
                 \/ LastIn(pipe', u) /\ NoneIn(inflight')
                 \/ u \in ToSet(queue') /\ NoneIn(pipe') /\ NoneIn(inflight')
                 \/ frame' = u
  BY DEF Fresh
<1> HIDE DEF u
<1>n. NoneIn(<<>>) /\ ~LastIn(<<>>, u)
  BY <1>0, <1>u, EventsInOrder
<1>1. CASE inflight # <<>> /\ e = Head(inflight) /\ inflight' = Tail(inflight)
  <2>1. /\ ToSet(inflight) = ToSet(inflight') \cup {e}
        /\ NoneIn(inflight) => NoneIn(inflight') /\ ~IsUp(e)
        /\ LastIn(inflight, u) => LastIn(inflight', u) \/ (e = u /\ NoneIn(inflight'))
    BY <1>1, <1>q, <1>u, TailFacts
  <2>2. CASE MemoryNotify(e)
    <3>1. /\ ToSet(queue') = {x \in ToSet(queue) : x.type # e.type} \cup {e}
          /\ frame' = frame /\ pipe' = <<>> /\ pipe = <<>>
      BY <1>0, <2>2, Queued DEF MemoryNotify, leg, Places
    <3>2. ToSet(pipe') = ToSet(pipe)
      BY <3>1
    <3> QED BY <1>t, <1>u, <1>f, <1>g, <1>n, <2>1, <3>1, <3>2 DEF OnItsWay, DeleteTold
  <2>3. CASE DurableNotify(e)
    <3>1. pipe' = Append(pipe, e) /\ UNCHANGED <<queue, frame>>
      BY <2>3 DEF DurableNotify, FanOut, endpoint
    <3>2. /\ ToSet(pipe') = ToSet(pipe) \cup {e}
          /\ IsUp(e) => LastIn(pipe', e)
          /\ ~IsUp(e) => (NoneIn(pipe) => NoneIn(pipe')) /\ (LastIn(pipe, u) => LastIn(pipe', u))
      BY <1>q, <1>u, <3>1, AppendFacts
    <3> QED BY <1>u, <1>f, <1>g, <2>1, <3>1, <3>2 DEF OnItsWay, DeleteTold
  <2>4. CASE Pump /\ e = Head(pipe)
    <3>1. inflight' = inflight
      BY <2>4 DEF Pump, store
    <3>2. Len(Tail(inflight)) = Len(inflight) - 1 /\ Len(inflight) \in Nat
      BY <1>1, <1>q, TailFacts
    <3> QED BY <1>1, <3>1, <3>2
  <2> QED BY <1>1, <2>2, <2>3, <2>4
<1>2. CASE Pump /\ e = Head(pipe)
  <2>1. pipe # <<>> /\ OnEvent(e) /\ pipe' = Tail(pipe) /\ inflight' = inflight
    BY <1>2 DEF Pump, store
  <2>2. /\ ToSet(pipe) = ToSet(pipe') \cup {e}
        /\ NoneIn(pipe) => NoneIn(pipe') /\ ~IsUp(e)
        /\ LastIn(pipe, u) => LastIn(pipe', u) \/ (e = u /\ NoneIn(pipe'))
    BY <1>2, <1>q, <1>u, <2>1, TailFacts
  <2>3. /\ ToSet(queue') = {x \in ToSet(queue) : x.type # e.type} \cup {e}
        /\ frame' = frame
    BY <1>0, <2>1, Queued
  <2>4. ToSet(inflight') = ToSet(inflight)
    BY <2>1
  <2> QED BY <1>t, <1>u, <1>f, <1>g, <2>1, <2>2, <2>3, <2>4 DEF OnItsWay, DeleteTold
<1> QED BY <1>1, <1>2

\* Of the steps that neither write the record nor begin to watch it, each passes
\* its events on, is without news for the client, or takes a frame.
LEMMA Carries ==
  ASSUME Shape, [Next]_vars, hub # "polling", Watching', gaps' = {}, ~Write, ~Delete, ~Fetch
  PROVE  /\ Watching /\ gaps = {} /\ UNCHANGED <<deployment, row>>
         /\ OnItsWay' \subseteq OnItsWay \cup {NoEvent}
         /\ \/ /\ known' = known /\ (DeleteTold => DeleteTold') /\ (Fresh => Fresh')
               /\ refetch' = refetch
            \/ AtRest /\ known' = known
            \/ Refetch
            \/ FrameTaken /\ frame.type # "deleted"
<1> USE DEF deployment, store, client, endpoint, leg
<1>0. TypeOK /\ Paired(queue) /\ Places /\ gaps = {}
  BY GapsGrow DEF Shape
<1> DEFINE Passed == known' = known /\ refetch' = refetch /\ (DeleteTold => DeleteTold') /\ (Fresh => Fresh')
<1>same. ASSUME UNCHANGED <<row, inflight, pipe, queue, frame>>
         PROVE  OnItsWay' = OnItsWay /\ (DeleteTold => DeleteTold') /\ (Fresh => Fresh')
  BY <1>same DEF OnItsWay, DeleteTold, Fresh
<1>p. feed \notin {"baseline", "sleep", "reading", "answered"}
  BY <1>0 DEF Places
<1>1. ASSUME NEW i \in DOMAIN inflight, Notify(i)
      PROVE  /\ Watching /\ UNCHANGED <<deployment, row>>
             /\ OnItsWay' \subseteq OnItsWay
             /\ Passed \/ (AtRest /\ known' = known)
  <2> DEFINE e == inflight[i]
  <2>1. /\ e \in Events /\ ToSet(inflight) = ToSet(inflight') \cup {e}
        /\ i > 1 \/ (inflight # <<>> /\ e = Head(inflight) /\ inflight' = Tail(inflight))
    BY <1>0, <1>1, Notified
  <2>2. UNCHANGED <<deployment, row, client>> /\ Watching
    BY <1>1 DEF Notify, Watching, Opening
  <2>3. CASE (MemoryNotify(e) \/ DurableNotify(e)) /\ gaps' = IF i > 1 THEN gaps \cup {"reordered"} ELSE gaps
    <3>1. ~(i > 1)
      BY <2>3
    <3> HIDE DEF e
    <3>2. OnItsWay' \subseteq OnItsWay /\ (DeleteTold => DeleteTold') /\ (Fresh => Fresh')
      BY <2>1, <2>2, <2>3, <3>1, Delivered
    <3> QED BY <2>2, <3>2
  <2>4. CASE Unheard(i)
    <3>1. UNCHANGED <<endpoint, leg>>
      BY <2>4 DEF Unheard
    <3>2. OnItsWay' \subseteq OnItsWay
      BY <2>1, <3>1 DEF OnItsWay
    <3>3. Missed("early") \/ Missed("lost")
      BY <2>4 DEF Unheard
    <3>4. AtRest
      BY <1>0, <3>3, Noted DEF AtRest
    <3> QED BY <2>2, <3>2, <3>4
  <2> QED BY <1>1, <2>3, <2>4 DEF Notify
<1>2. CASE PollBaseline \/ PollWakes \/ PollReads \/ PollFails \/ PollAnswer
  BY <1>p, <1>2 DEF PollBaseline, PollWakes, PollReads, PollFails, PollAnswer
<1>3. CASE LegUp \/ Heartbeat
  BY <1>3, <1>same DEF LegUp, Heartbeat, Watching, Opening
<1>4. CASE LegDown
  <2>1. /\ UNCHANGED <<deployment, store, client, endpoint>> /\ pipe' = <<>> /\ Watching
    BY <1>4 DEF LegDown, Watching, Opening
  <2>2. CASE pipe = <<>>
    BY <1>0, <1>same, <2>1, <2>2
  <2>3. CASE Missed("lost")
    <3>1. AtRest
      BY <1>0, <2>3, Noted DEF AtRest
    <3>2. OnItsWay' \subseteq OnItsWay
      BY <1>0, <2>1, EventsInOrder DEF OnItsWay
    <3> QED BY <1>0, <2>1, <3>1, <3>2
  <2> QED BY <1>4, <2>2, <2>3 DEF LegDown
<1>5. CASE Pump
  <2>1. Head(pipe) \in Events /\ UNCHANGED <<deployment, store, client>> /\ Watching
    BY <1>0, <1>5, Taken DEF Pump, TypeOK, Watching, Opening
  <2>2. OnItsWay' \subseteq OnItsWay /\ (DeleteTold => DeleteTold') /\ (Fresh => Fresh')
    BY <1>5, <2>1, Delivered
  <2> QED BY <1>0, <2>1, <2>2
<1>6. CASE LegEnds
  BY <1>0, <1>6 DEF LegEnds, Watching, Opening, Places, Subscribed
<1>7. CASE LoopRuns
  <2>1. /\ UNCHANGED <<deployment, store, client, leg>> /\ loop = "ready" /\ Watching
        /\ stage = "open"
    BY <1>0, <1>7 DEF LoopRuns, Watching, Opening, Places
  <2>2. CASE queue # <<>> /\ frame' = Head(queue) /\ queue' = Tail(queue)
    <3>1. frame' \in Events /\ ToSet(queue) = ToSet(queue') \cup {frame'} /\ frame = NoEvent
      BY <1>0, <2>1, <2>2, Taken DEF TypeOK, Places
    <3>2. OnItsWay = OnItsWay' \cup {NoEvent}
      BY <2>1, <3>1 DEF OnItsWay
    <3>3. DeleteTold => DeleteTold'
      BY <3>2, EventTypes DEF DeleteTold
    <3>4. Updated(row.ver) # NoEvent
      BY EventTypes DEF Updated, NoEvent
    <3>5. Fresh => Fresh'
      BY <2>1, <3>1, <3>4 DEF Fresh
    <3> QED BY <1>0, <2>1, <3>2, <3>3, <3>5
  <2>3. CASE UNCHANGED <<queue, frame>>
    BY <1>0, <1>same, <2>1, <2>3
  <2> QED BY <1>7, <2>1, <2>2, <2>3 DEF LoopRuns
<1>8. CASE FrameTaken
  <2>1. /\ UNCHANGED <<deployment, store, queue, leg>> /\ frame' = NoEvent /\ frame.type # "deleted"
        /\ Watching
    BY <1>8 DEF FrameTaken, Watching, Opening
  <2>2. OnItsWay' \subseteq OnItsWay \cup {NoEvent}
    BY <2>1 DEF OnItsWay
  <2> QED BY <1>0, <1>8, <2>1, <2>2
<1>9. CASE WriteThrows \/ Abort
  BY <1>9 DEF WriteThrows, Abort, Watching, Opening
<1>10. CASE Admit \/ Open
  BY <1>10, <1>same DEF Admit, Open, Watching, Opening
<1>11. CASE Refetch
  BY <1>11, <1>same DEF Refetch, Watching, Opening
<1>12. CASE UNCHANGED vars
  BY <1>12, <1>same DEF vars, Watching, Opening
<1> QED BY <1>0, <1>1, <1>2, <1>3, <1>4, <1>5, <1>6, <1>7, <1>8, <1>9, <1>10, <1>11, <1>12
        DEF Next, NotifyAny

\* The writers' events stay in the order of their commits unless a gap is noted.
LEMMA InOrder ==
  ASSUME Shape, [Next]_vars, push, gaps' = {}, ~Write, ~Delete
  PROVE  inflight' = inflight \/ (inflight # <<>> /\ inflight' = Tail(inflight))
<1>0. TypeOK
  BY DEF Shape
<1>1. ASSUME NEW i \in DOMAIN inflight, Notify(i)
      PROVE  inflight # <<>> /\ inflight' = Tail(inflight)
  <2>1. ~(i > 1)
    BY <1>1 DEF Notify, Unheard
  <2> QED BY <1>0, <1>1, <2>1, Notified
<1> QED BY <1>1 DEF Next, NotifyAny, vars, store, PollBaseline, PollWakes, PollReads, PollFails,
        PollAnswer, LegUp, LegDown, Pump, LegEnds, LoopRuns, Heartbeat, FrameTaken, WriteThrows,
        Fetch, Admit, Open, Refetch, Abort

\* Only writes and deletes move the record.
LEMMA RowStays == [Next]_vars /\ ~Write /\ ~Delete => UNCHANGED row
BY DEF Next, vars, store, NotifyAny, Notify, PollBaseline, PollWakes, PollReads, PollFails,
       PollAnswer, LegUp, LegDown, Pump, LegEnds, LoopRuns, Heartbeat, FrameTaken, WriteThrows,
       Fetch, Admit, Open, Refetch, Abort

LEMMA RestartsNext ==
  ASSUME Shape, RestartsTold, [Next]_vars
  PROVE  RestartsTold'
<1> SUFFICES ASSUME push', gaps' = {}
             PROVE  /\ Healed(inflight', Current')
                    /\ Watching' => \A e \in OnItsWay' : e.ver > Current' => DeleteTold'
  BY DEF RestartsTold
<1>0. /\ TypeOK /\ Places /\ Rows /\ push /\ gaps = {} /\ hub # "polling"
      /\ inflight \in Seq(Events) /\ Current \in Nat /\ row.ver \in Nat
      /\ Healed(inflight, Current)
      /\ Watching => \A e \in OnItsWay : e.ver > Current => DeleteTold
  BY Deployed, GapsGrow, EventTypes DEF Shape, deployment, Places, TypeOK, Current, RestartsTold
<1>a. NoEvent.ver = 0
  BY DEF NoEvent
<1>1. CASE Write
  <2>1. /\ row'.live = TRUE /\ row'.ver = row.ver + 1 /\ UNCHANGED <<deployment, client>>
        /\ inflight' = Append(inflight, Updated(row.ver + 1))
        /\ OnItsWay' = OnItsWay \cup {Updated(row.ver + 1)}
        /\ Updated(row.ver + 1) \in Events /\ Updated(row.ver + 1).ver = row.ver + 1
    BY <1>0, <1>1, Announces
  <2>2. Current' = row.ver + 1 /\ row.ver + 1 \in Nat /\ row.ver + 1 >= Current
    BY <1>0, <2>1 DEF Current
  <2>3. Healed(inflight', Current')
    BY <1>0, <2>1, <2>2, HealedAppend
  <2>4. ASSUME Watching', NEW e \in OnItsWay', e.ver > Current' PROVE DeleteTold'
    <3>1. Watching
      BY <2>1, <2>4 DEF client, Watching, Opening
    <3>2. e \in OnItsWay
      BY <1>0, <2>1, <2>2, <2>4
    <3>3. e.ver \in Nat
      BY <1>0, <1>a, <3>2, EventTypes, EventsInOrder DEF OnItsWay, TypeOK
    <3>4. DeleteTold
      BY <1>0, <2>2, <2>4, <3>1, <3>2, <3>3
    <3> QED BY <2>1, <3>4 DEF DeleteTold
  <2> QED BY <2>3, <2>4
<1>2. CASE Delete
  <2>1. inflight' = Append(inflight, Deleted) /\ DeleteTold' /\ Current' = 0
    BY <1>0, <1>2, Announces DEF Current
  <2> QED BY <1>0, <2>1, HealedAppend, EventTypes
<1>3. CASE Fetch
  <2>1. /\ Current' = Current /\ inflight' = inflight
        /\ OnItsWay' = ToSet(inflight) \cup {NoEvent}
    BY <1>0, <1>3, EventsInOrder DEF Fetch, Current, store, endpoint, leg, OnItsWay, Places
  <2>2. ASSUME NEW e \in OnItsWay', e.ver > Current' PROVE DeleteTold'
    <3>1. e \in ToSet(inflight)
      BY <1>0, <1>a, <2>1, <2>2
    <3>2. PICK i \in DOMAIN inflight : inflight[i] = e
      BY <3>1 DEF ToSet
    <3>3. e \in Events /\ (IsUp(e) \/ IsDelete(e))
      BY <1>0, <3>1, EventTypes, EventsInOrder
    <3>4. CASE IsUp(e)
      <4>1. PICK j \in DOMAIN inflight : IsDelete(inflight[j])
        BY <1>0, <2>1, <2>2, <3>2, <3>4 DEF Healed
      <4>2. inflight[j] \in OnItsWay'
        BY <1>0, <2>1, EventsInOrder
      <4> QED BY <4>1, <4>2 DEF DeleteTold
    <3>5. CASE IsDelete(e)
      BY <2>2, <3>5 DEF DeleteTold
    <3> QED BY <3>3, <3>4, <3>5
  <2> QED BY <1>0, <2>1, <2>2
<1>4. CASE ~Write /\ ~Delete /\ ~Fetch
  <2>1. UNCHANGED row /\ Current' = Current
    BY <1>4, RowStays DEF Current
  <2>2. Healed(inflight', Current')
    BY <1>0, <1>4, <2>1, InOrder, TailFacts
  <2>3. ASSUME Watching', NEW e \in OnItsWay', e.ver > Current' PROVE DeleteTold'
    <3>1. /\ Watching /\ OnItsWay' \subseteq OnItsWay \cup {NoEvent}
          /\ \/ DeleteTold => DeleteTold'
             \/ AtRest
             \/ Refetch
             \/ FrameTaken /\ frame.type # "deleted"
      BY <1>0, <1>4, <2>3, Carries
    <3>2. e \in OnItsWay
      BY <1>0, <1>a, <2>1, <2>3, <3>1
    <3>3. DeleteTold
      BY <1>0, <2>1, <2>3, <3>1, <3>2
    <3>4. CASE DeleteTold => DeleteTold'
      BY <3>3, <3>4
    <3>5. CASE AtRest
      BY <1>0, <2>1, <2>3, <3>1, <3>2, <3>5 DEF AtRest
    <3>6. CASE Refetch
      BY <3>3, <3>6 DEF Refetch, store, endpoint, leg, OnItsWay, DeleteTold
    <3>7. CASE FrameTaken /\ frame.type # "deleted"
      BY <3>3, <3>7 DEF FrameTaken, store, leg, OnItsWay, DeleteTold, IsDelete
    <3> QED BY <3>1, <3>4, <3>5, <3>6, <3>7
  <2> QED BY <2>2, <2>3
<1> QED BY <1>1, <1>2, <1>3, <1>4

LEMMA AnnouncedNext ==
  ASSUME Shape, RestartsTold, Announced, [Next]_vars
  PROVE  Announced'
<1> SUFFICES ASSUME hub' # "polling", Watching', gaps' = {}
             PROVE  \/ known' = Current'
                    \/ refetch'
                    \/ DeleteTold'
                    \/ row'.live /\ known' < row'.ver /\ Fresh'
  BY DEF Announced
<1>0. /\ TypeOK /\ Places /\ Rows /\ gaps = {} /\ hub # "polling"
      /\ row.ver \in Nat /\ known \in Nat /\ row.live \in BOOLEAN /\ push \in BOOLEAN
      /\ refetch \in BOOLEAN
  BY Deployed, GapsGrow, EventTypes DEF Shape, deployment, TypeOK
<1>k. Watching => \/ known = Current
                  \/ refetch
                  \/ DeleteTold
                  \/ row.live /\ known < row.ver /\ Fresh
  BY <1>0 DEF Announced
<1>1. CASE Write
  <2>1. /\ row'.live = TRUE /\ row'.ver = row.ver + 1 /\ UNCHANGED <<deployment, client>>
        /\ LastIn(inflight', Updated(row.ver + 1))
        /\ OnItsWay' = OnItsWay \cup {Updated(row.ver + 1)}
    BY <1>0, <1>1, Announces
  <2>2. Watching /\ known' = known /\ refetch' = refetch
    BY <2>1 DEF client, Watching, Opening
  <2>3. Fresh'
    BY <2>1 DEF Fresh
  <2>4. DeleteTold => DeleteTold'
    BY <2>1 DEF DeleteTold
  <2>5. known = Current \/ (row.live /\ known < row.ver) => known < row.ver + 1
    BY <1>0 DEF Current
  <2> QED BY <1>k, <2>1, <2>2, <2>3, <2>4, <2>5
<1>2. CASE Delete
  BY <1>0, <1>2, Announces
<1>3. CASE Fetch
  BY <1>3 DEF Fetch, Current, store
<1>4. CASE Refetch
  BY <1>4 DEF Refetch, Current, store
<1>5. CASE FrameTaken /\ frame.type # "deleted"
  <2>1. /\ Apply(frame) /\ UNCHANGED <<deployment, store, queue, leg, stage>> /\ Watching
        /\ frame # NoEvent /\ frame \in Events /\ frame' = NoEvent
    BY <1>0, <1>5 DEF FrameTaken, Watching, Opening, Places, TypeOK
  <2>2. frame = Updated(frame.ver) /\ frame.ver \in Nat
    BY <1>5, <2>1, EventTypes DEF IsDelete
  <2>3. DeleteTold => DeleteTold'
    BY <1>5, <2>1 DEF store, leg, OnItsWay, DeleteTold, IsDelete
  <2>4. Current' = Current /\ row' = row
    BY <2>1 DEF store, Current
  <2>5. Fresh => Fresh' \/ frame.ver = row.ver
    <3>1. frame = Updated(row.ver) => frame.ver = row.ver
      BY DEF Updated
    <3> QED BY <2>1, <2>4, <3>1 DEF Fresh, store, leg
  <2>6. CASE push
    <3>1. known' = (IF frame.ver > known THEN frame.ver ELSE known) /\ refetch' = refetch
      BY <2>1, <2>6 DEF Apply
    <3>2. frame.ver > Current => DeleteTold
      BY <1>0, <2>1, <2>6 DEF RestartsTold, OnItsWay
    <3>3. row.live => Current = row.ver
      BY DEF Current
    <3>4. Current \in Nat
      BY <1>0 DEF Current
    <3>5. CASE frame.ver > known
      BY <1>0, <1>k, <2>1, <2>2, <2>3, <2>4, <2>5, <3>1, <3>2, <3>3, <3>4, <3>5
    <3>6. CASE ~(frame.ver > known)
      BY <1>0, <1>k, <2>1, <2>2, <2>3, <2>4, <2>5, <3>1, <3>3, <3>4, <3>6
    <3> QED BY <3>5, <3>6
  <2>7. CASE ~push
    <3>1. known' = known /\ (refetch' <=> refetch \/ frame.ver > known)
      BY <1>0, <2>1, <2>7 DEF Apply
    <3> QED BY <1>0, <1>k, <2>1, <2>2, <2>3, <2>4, <2>5, <3>1
  <2> QED BY <1>0, <2>6, <2>7
<1>6. CASE ~Write /\ ~Delete /\ ~Fetch /\ ~Refetch /\ ~(FrameTaken /\ frame.type # "deleted")
  <2>1. /\ Watching /\ UNCHANGED row /\ known' = known
        /\ \/ (DeleteTold => DeleteTold') /\ (Fresh => Fresh') /\ refetch' = refetch
           \/ AtRest
    BY <1>0, <1>6, Carries
  <2>2. Current' = Current
    BY <2>1 DEF Current
  <2> QED BY <1>k, <2>1, <2>2 DEF AtRest
<1> QED BY <1>1, <1>2, <1>3, <1>4, <1>5, <1>6

-----------------------------------------------------------------------------
(* News over a poller                                                      *)

\* The last version announced is known, about to be fetched or on its way.
LastTold ==
    last # 0 /\ last = Current =>
       \/ known >= last
       \/ refetch
       \/ DeleteTold
       \/ frame = Updated(last) \/ Updated(last) \in ToSet(queue)

LEMMA PollsNext ==
  ASSUME Shape, Polls, [Next]_vars
  PROVE  Polls'
<1> USE DEF deployment, store, client, endpoint, leg
<1> SUFFICES ASSUME hub' = "polling", Watching', gaps' = {}
             PROVE  /\ row'.live \/ soft' =>
                          known' <= row'.ver /\ last' <= row'.ver /\ polled' <= row'.ver
                    /\ feed' \in {"baseline", "none"} => last' = 0
                    /\ feed' = "answered" /\ polled' # 0 => polled' >= last'
                    /\ LastTold'
  BY DEF Polls, LastTold
<1>0. /\ TypeOK /\ Places /\ Rows /\ gaps = {} /\ hub = "polling" /\ soft' = soft /\ ~push
      /\ Paired(queue) /\ inflight = <<>> /\ pipe = <<>>
      /\ feed \notin {"down", "up"}
      /\ row.ver \in Nat /\ known \in Nat /\ last \in Nat /\ polled \in Nat
      /\ row.live \in BOOLEAN /\ refetch \in BOOLEAN /\ soft \in BOOLEAN
  BY Deployed, GapsGrow, EventTypes DEF Shape, TypeOK, Places
<1>k. Watching => /\ row.live \/ soft => known <= row.ver /\ last <= row.ver /\ polled <= row.ver
                  /\ feed \in {"baseline", "none"} => last = 0
                  /\ feed = "answered" /\ polled # 0 => polled >= last
                  /\ LastTold
  BY <1>0 DEF Polls, LastTold
<1>c. /\ Current \in Nat /\ (Current # 0 => row.live /\ Current = row.ver)
      /\ row.live \/ soft => Current <= row.ver
  BY <1>0 DEF Current
<1>1. CASE Write
  <2>1. /\ row'.live = TRUE /\ row'.ver = row.ver + 1 /\ UNCHANGED <<known, last, polled, feed>>
        /\ Watching /\ (soft \/ row.live)
    BY <1>0, <1>1 DEF Write, Commits, Watching, Opening
  <2>2. Current' = row.ver + 1 /\ last # row.ver + 1
    BY <1>0, <1>k, <2>1 DEF Current
  <2> QED BY <1>0, <1>k, <2>1, <2>2 DEF LastTold
<1>2. CASE Delete
  <2>1. /\ row'.live = FALSE /\ row'.ver = (IF soft THEN row.ver + 1 ELSE 0)
        /\ UNCHANGED <<known, last, polled, feed>> /\ Watching
    BY <1>2 DEF Delete, Commits, Watching, Opening
  <2>2. Current' = 0
    BY <2>1 DEF Current
  <2> QED BY <1>0, <1>k, <2>1, <2>2 DEF LastTold
<1>r. ~Write /\ ~Delete => row' = row /\ Current' = Current
  BY RowStays DEF Current
<1>3. CASE NotifyAny \/ LegUp \/ LegDown \/ Pump \/ LegEnds
  BY <1>0, <1>3 DEF NotifyAny, LegUp, LegDown, Pump, LegEnds
<1>same. ASSUME UNCHANGED <<known, refetch, last, inflight, pipe, queue, frame>>, Current' = Current
         PROVE  LastTold => LastTold'
  BY <1>same DEF LastTold, DeleteTold, OnItsWay
<1>4. CASE PollBaseline
  <2>1. UNCHANGED <<row, known, polled>> /\ feed' = "sleep" /\ Watching /\ Current' = Current
    BY <1>4 DEF PollBaseline, Watching, Opening, Current
  <2>2. CASE last' = Current /\ Missed("early")
    <3>1. known = Current
      BY <1>0, <2>1, <2>2, Noted
    <3> QED BY <1>0, <1>k, <1>c, <2>1, <2>2, <3>1 DEF LastTold
  <2>3. CASE last' = 0
    BY <1>0, <1>k, <2>1, <2>3 DEF LastTold
  <2> QED BY <1>4, <2>2, <2>3 DEF PollBaseline
<1>5. CASE PollWakes \/ PollFails
  <2>1. /\ UNCHANGED <<row, known, polled, last>> /\ feed' \in {"sleep", "reading", "ended"} /\ Watching
        /\ UNCHANGED <<known, refetch, last, inflight, pipe, queue, frame>> /\ Current' = Current
    BY <1>5 DEF PollWakes, PollFails, Watching, Opening, Current
  <2> QED BY <1>0, <1>k, <1>same, <2>1
<1>6. CASE PollReads
  <2>1. /\ UNCHANGED <<row, known, last>> /\ feed' = "answered" /\ Watching /\ polled' = Current
        /\ UNCHANGED <<known, refetch, last, inflight, pipe, queue, frame>> /\ Current' = Current
    BY <1>6 DEF PollReads, Watching, Opening, Current
  <2> QED BY <1>0, <1>k, <1>c, <1>same, <2>1
<1>7. CASE PollAnswer
  <2>1. /\ UNCHANGED <<row, known, refetch, inflight, pipe>> /\ feed' \in {"sleep", "ended"}
        /\ polled' = 0 /\ Watching /\ Current' = Current /\ feed = "answered"
    BY <1>7 DEF PollAnswer, Watching, Opening, Current
  <2>2. CASE last' = polled /\ OnEvent(IF polled = 0 THEN Deleted ELSE Updated(polled))
    <3>1. CASE polled = 0
      BY <1>0, <1>k, <2>1, <2>2, <3>1 DEF LastTold
    <3>2. CASE polled # 0
      <4>1. Updated(polled) \in Events /\ OnEvent(Updated(polled))
        BY <1>0, <2>2, <3>2, EventTypes DEF TypeOK
      <4>2. Updated(polled) \in ToSet(queue')
        BY <1>0, <4>1, Queued
      <4>3. LastTold'
        BY <2>2, <4>2 DEF LastTold
      <4> QED BY <1>0, <1>k, <2>1, <2>2, <4>3
    <3> QED BY <3>1, <3>2
  <2>3. CASE UNCHANGED <<queue, frame, last>>
    BY <1>0, <1>k, <1>same, <2>1, <2>3
  <2> QED BY <1>7, <2>2, <2>3 DEF PollAnswer
<1>8. CASE LoopRuns
  <2>1. /\ UNCHANGED <<row, known, refetch, last, polled, feed, inflight, pipe>> /\ loop = "ready"
        /\ Watching /\ stage = "open" /\ Current' = Current
    BY <1>0, <1>8 DEF LoopRuns, Watching, Opening, Places, Current
  <2>2. CASE queue # <<>> /\ frame' = Head(queue) /\ queue' = Tail(queue)
    <3>1. ToSet(queue) = ToSet(queue') \cup {frame'} /\ frame = NoEvent
      BY <1>0, <2>1, <2>2, Taken DEF TypeOK, Places
    <3>2. OnItsWay = OnItsWay' \cup {NoEvent}
      BY <2>1, <3>1 DEF OnItsWay
    <3>3. DeleteTold => DeleteTold'
      BY <3>2, EventTypes DEF DeleteTold
    <3>4. Updated(last) # NoEvent
      BY DEF Updated, NoEvent
    <3>5. LastTold'
      BY <1>k, <2>1, <3>1, <3>3, <3>4 DEF LastTold
    <3> QED BY <1>0, <1>k, <2>1, <3>5
  <2>3. CASE UNCHANGED <<queue, frame>>
    BY <1>0, <1>k, <1>same, <2>1, <2>3
  <2> QED BY <1>8, <2>2, <2>3 DEF LoopRuns
<1>9. CASE FrameTaken
  <2>1. /\ UNCHANGED <<row, known, last, polled, feed, inflight, pipe, queue>> /\ frame' = NoEvent
        /\ frame.type # "deleted" /\ Watching /\ Current' = Current
        /\ (refetch' <=> refetch \/ frame.ver > known)
    BY <1>0, <1>9 DEF FrameTaken, Apply, Watching, Opening, Current
  <2>2. DeleteTold => DeleteTold'
    BY <2>1 DEF OnItsWay, DeleteTold, IsDelete
  <2>3. frame = Updated(last) => frame.ver = last
    BY DEF Updated
  <2>4. LastTold'
    BY <1>0, <1>k, <2>1, <2>2, <2>3 DEF LastTold
  <2> QED BY <1>0, <1>k, <2>1, <2>4
<1>10. CASE Fetch
  <2>1. last' = 0 /\ polled' = 0 /\ row' = row /\ known' = Current
    BY <1>0, <1>10 DEF Fetch, Places
  <2> QED BY <1>0, <1>c, <2>1 DEF LastTold
<1>11. CASE Admit \/ Open
  <2>1. last' = 0 /\ polled' = 0 /\ row' = row /\ known' = known /\ Watching
    BY <1>0, <1>11 DEF Admit, Open, Places, Watching, Opening
  <2> QED BY <1>0, <1>k, <2>1 DEF LastTold
<1>12. CASE Refetch
  <2>1. /\ known' = Current /\ UNCHANGED <<row, last, polled, feed>> /\ Watching
        /\ Current' = Current
    BY <1>12 DEF Refetch, Watching, Opening, Current
  <2> QED BY <1>0, <1>k, <1>c, <2>1 DEF LastTold
<1>13. CASE WriteThrows \/ Abort
  BY <1>13 DEF WriteThrows, Abort, Watching, Opening
<1>14. CASE Heartbeat \/ UNCHANGED vars
  <2>1. /\ UNCHANGED <<row, known, polled, last, feed>> /\ Watching
        /\ UNCHANGED <<known, refetch, last, inflight, pipe, queue, frame>> /\ Current' = Current
    BY <1>14 DEF Heartbeat, vars, Watching, Opening, Current
  <2> QED BY <1>0, <1>k, <1>same, <2>1
<1> QED BY <1>1, <1>2, <1>3, <1>4, <1>5, <1>6, <1>7, <1>8, <1>9, <1>10, <1>11, <1>12, <1>13, <1>14
        DEF Next

-----------------------------------------------------------------------------
(* Theorems                                                                *)

LEMMA InitInv == Init => Inv
<1> SUFFICES ASSUME Init PROVE Inv
  OBVIOUS
<1>1. Shape
  BY InitShape
<1>2. Announced /\ RestartsTold /\ Polls
  BY DEF Init, Announced, RestartsTold, Polls, Watching, Opening, Healed
<1> QED BY <1>1, <1>2 DEF Inv

LEMMA NextInv == Inv /\ [Next]_vars => Inv'
BY ShapeNext, AnnouncedNext, RestartsNext, PollsNext DEF Inv

\* The inductive invariant holds throughout.
THEOREM Invariance == Spec => []Inv
BY InitInv, NextInv, PTL DEF Spec

\* The record, the endpoint's queue, the hubs' bookkeeping and the client keep
\* their types, and the queue its cap.
THEOREM TypeCorrect == Spec => []TypeOK
<1>1. Inv => TypeOK
  BY DEF Inv, Shape
<1> QED BY <1>1, Invariance, PTL

\* A connected client that shows an old version has a frame with the new one, a
\* poll or a refetch coming: coalescing in createBoundedEventQueue, the loop of
\* liveEventStream and the poller's lastVersion drop nothing that still matters.
THEOREM NewsKeepsComing == Spec => []NewsIsOnItsWay
<1>1. Inv => NewsIsOnItsWay
  <2> SUFFICES ASSUME Inv, stage = "open", gaps = {}, ~PollUnaware, known # Current
               PROVE  refetch \/ PollWouldTell \/ \E e \in OnItsWay : WouldTell(e)
    BY DEF NewsIsOnItsWay
  <2>0. /\ TypeOK /\ Places /\ Watching /\ row.ver \in Nat /\ known \in Nat /\ last \in Nat
        /\ DeleteTold => \E e \in OnItsWay : WouldTell(e)
    BY EventTypes DEF Inv, Shape, Watching, TypeOK, DeleteTold, IsDelete, WouldTell
  <2>1. CASE hub # "polling"
    <3>1. Fresh => Updated(row.ver) \in OnItsWay
      BY DEF Fresh, LastIn, OnItsWay, ToSet
    <3>2. Updated(row.ver).ver = row.ver
      BY DEF Updated
    <3> QED BY <2>0, <2>1, <3>1, <3>2 DEF Inv, Announced, WouldTell
  <2>2. CASE hub = "polling"
    <3>1. \/ feed \in {"sleep", "reading", "answered"}
          \/ DeleteTold
      BY <2>0, <2>2 DEF Places, PollUnaware
    <3>2. CASE last # Current
      BY <2>0, <3>1, <3>2 DEF PollWouldTell
    <3>3. CASE last = Current
      <4>1. last # 0 /\ row.live /\ Current = row.ver /\ known <= row.ver
        BY <2>0, <2>2, <3>3 DEF Inv, Polls, PollUnaware, Current
      <4>2. Updated(last).ver = last /\ known < last
        BY <2>0, <3>3, <4>1 DEF Updated
      <4>3. \/ refetch
            \/ DeleteTold
            \/ frame = Updated(last) \/ Updated(last) \in ToSet(queue)
        BY <2>0, <2>2, <3>3, <4>1, <4>2 DEF Inv, Polls
      <4> QED BY <2>0, <4>2, <4>3 DEF OnItsWay, WouldTell
    <3> QED BY <3>2, <3>3
  <2> QED BY <2>1, <2>2
<1> QED BY <1>1, Invariance, PTL
=============================================================================
