------------------------ MODULE BrowserLogin_proofs ------------------------
(***************************************************************************)
(* Proofs about BrowserLogin for any number of tabs, calls and login       *)
(* transactions and any bound on the sessions and on the lost answers.     *)
(*                                                                         *)
(* The argument: a call moves alone, and what it becomes is one of three   *)
(* shapes (Moves, Ends, Starts).  A call that nothing disturbed and whose  *)
(* answers all came in knows the session (Steady): that makes a refresh    *)
(* truthful and a stale token heal.  While sign-ins and logouts take turns *)
(* each knows what it leaves in the store (InTurn).  Only this browser's   *)
(* transactions leave cookies (OwnLogins), and a write that may be sent    *)
(* again has not been carried out (NotYet).                                *)
(***************************************************************************)
EXTENDS BrowserLogin, TLAPS

LEMMA IdleIsACall == Idle \in Call
BY LoginAssumption DEF Idle, Call, Tokens

\* The sessions that are named have been minted.
Named ==
    /\ jar \in 0..minted
    /\ \A c \in Calls : call[c].sid \in 0..minted /\ call[c].new \in 0..minted

\* The longer stages belong to one kind of call each.
Staged ==
    \A c \in Calls :
        /\ call[c].at = "rotate" => call[c].kind = "complete"
        /\ call[c].at \in {"refresh", "refreshSent", "refreshAnswered", "retry"}
              => call[c].kind = "write"

\* Only this browser's transactions leave a cookie here, and only those are
\* taken to a session.
OwnLogins ==
    /\ txJar \cap Foreign = {}
    /\ \A c \in Calls : call[c].bound => call[c].tx \notin Foreign
    /\ \A s \in Sids : origin[s] \notin Foreign

\* A write that may still be sent was not carried out.
ToSend(q) ==
    \/ q.at \in {"idle", "sent", "refresh", "refreshSent", "refreshAnswered", "retry"}
    \/ q.at = "answered" /\ q.reply = "csrfFailed"

NotYet ==
    \A c \in Calls :
        executed[c] \in {0, 1} /\ (ToSend(call[c]) => executed[c] = 0)

\* What a call that nothing disturbed knows of the session.
SteadyCall(q) ==
    /\ q.at = "sent" => q.sid = jar /\ (q.retried => q.token = jar)
    /\ q.at = "answered" /\ q.reply = "csrfFailed" => jar \in live /\ ~q.retried
    /\ q.at \in {"refresh", "refreshSent", "refreshAnswered"} => jar \in live
    /\ q.at = "refreshSent" => q.sid = jar
    /\ q.at = "refreshAnswered" => q.new = jar
    /\ q.at = "retry" => token[q.tab] = jar
    /\ q.at = "answered" /\ q.kind = "refresh" => q.new = (IF jar \in live THEN jar ELSE None)
    /\ q.at = "done" /\ q.kind = "write" => q.reply # "csrfFailed"

Steady == \A c \in Calls : c \notin disturbed /\ c \notin lost => SteadyCall(call[c])

\* One login or logout at a time: where each leaves the store.
Alone(q) ==
    /\ q.kind \in Changes /\ q.at \in {"sent", "rotate"} => q.sid = jar
    /\ q.kind = "complete" /\ q.at = "rotate" => live \subseteq {jar, q.new}
    /\ q.kind = "complete" /\ q.at = "answered"
          => live \subseteq {IF q.reply = "ok" THEN q.new ELSE jar}
    /\ q.kind = "logout" /\ q.at = "answered" /\ q.reply = "ok" => live = {}

InTurn ==
    ~overlapped /\ lost = {} =>
        /\ \A c, d \in Calls :
              Busy(c) /\ Busy(d) /\ call[c].kind \in Changes /\ call[d].kind \in Changes
                  => c = d
        /\ \A c \in Calls : Alone(call[c])
        /\ \/ \E c \in Calls :
                 call[c].kind = "complete" /\ call[c].at \in {"rotate", "answered"}
           \/ live \subseteq {jar}

IInv == TypeOK /\ Named /\ Staged /\ OwnLogins /\ NotYet /\ Steady /\ InTurn

-----------------------------------------------------------------------------
\* What a step does to the calls.  Only call c moves.
Only(c) ==
    /\ call' \in [Calls -> Call]
    /\ \A d \in Calls : d # c => call'[d] = call[d]

\* It goes on with these fields, the others being as they were.
Moves(c, at, sid, tok, ret, reply, new) ==
    LET q == call[c]  p == call'[c]
    IN  /\ Only(c)
        /\ p.kind = q.kind /\ p.tab = q.tab /\ p.tx = q.tx /\ p.bound = q.bound
        /\ p.at = at /\ p.sid = sid /\ p.token = tok /\ p.retried = ret
        /\ p.reply = reply /\ p.new = new

\* It returns.
Ends(c) ==
    LET q == call[c]  p == call'[c]
    IN  /\ Only(c)
        /\ p.kind = q.kind /\ p.at = "done" /\ p.sid = q.sid /\ p.reply = q.reply
        /\ p.bound = FALSE /\ p.new = None

\* It begins.
Starts(c, t, kind) ==
    LET p == call'[c]
    IN  /\ Only(c)
        /\ p.kind = kind /\ p.tab = t /\ p.at = "sent" /\ p.sid = jar /\ p.token = token[t]
        /\ p.bound = (p.tx \in txJar) /\ p.retried = FALSE /\ p.reply = "none" /\ p.new = None

LEMMA SetIs ==
    ASSUME TypeOK, NEW c \in Calls, NEW p \in Call, Set(c, p)
    PROVE  Only(c) /\ call'[c] = p
BY DEF TypeOK, Only, Set

LEMMA AnswerIs ==
    ASSUME TypeOK, NEW c \in Calls,
           NEW reply \in {"none", "ok", "unauthorized", "csrfFailed"}, NEW new \in Tokens,
           Answer(c, reply, new)
    PROVE  Moves(c, "answered", call[c].sid, call[c].token, call[c].retried, reply, new)
<1> DEFINE p == [call[c] EXCEPT !.at = "answered", !.reply = reply, !.new = new]
<1>1. call[c] \in Call
  BY DEF TypeOK
<1>2. p \in Call
  BY <1>1 DEF Call
<1>3. Only(c) /\ call'[c] = p
  BY <1>2, SetIs DEF Answer
<1> QED
  BY <1>1, <1>3 DEF Moves, Call

LEMMA ReturnIs ==
    ASSUME TypeOK, NEW c \in Calls, Return(c)
    PROVE  Ends(c)
<1> DEFINE p == [Idle EXCEPT !.kind = call[c].kind, !.at = "done", !.sid = call[c].sid,
                    !.reply = call[c].reply]
<1>1. call[c] \in Call
  BY DEF TypeOK
<1>2. p \in Call
  BY <1>1, IdleIsACall DEF Call
<1>3. Only(c) /\ call'[c] = p
  BY <1>2, SetIs DEF Return
<1> QED
  BY <1>1, <1>3 DEF Ends, Call, Idle

LEMMA BeginIs ==
    ASSUME TypeOK, NEW c \in Calls, NEW t \in Tabs, NEW kind \in Kinds, Begin(c, t, kind)
    PROVE  Starts(c, t, kind)
<1> DEFINE p(b) == [Idle EXCEPT !.kind = kind, !.tab = t, !.at = "sent",
                       !.sid = jar, !.token = token[t], !.tx = landed[t], !.bound = b]
<1>1. /\ jar \in Tokens /\ token[t] \in Tokens /\ landed[t] \in Txs \cup {"none"}
      /\ kind \in Kinds \cup {"none"}
  BY DEF TypeOK
<1>2. p(landed[t] \in txJar) \in Call
  <2>1. p(TRUE) \in Call
    BY <1>1, IdleIsACall DEF Call
  <2>2. p(FALSE) \in Call
    BY <1>1, IdleIsACall DEF Call
  <2>3. CASE landed[t] \in txJar
    <3>1. (landed[t] \in txJar) = TRUE
      BY <2>3
    <3> QED
      BY <2>1, <3>1, Zenon
  <2>4. CASE landed[t] \notin txJar
    <3>1. (landed[t] \in txJar) = FALSE
      BY <2>4
    <3> QED
      BY <2>2, <3>1, Zenon
  <2> QED
    BY <2>3, <2>4
<1>3. Only(c) /\ call'[c] = p(landed[t] \in txJar)
  BY <1>2, SetIs DEF Begin
<1> QED
  BY <1>3 DEF Starts, Idle

LEMMA WriteAnsweredIs ==
    ASSUME TypeOK, NEW c \in Calls, WriteAnswered(c)
    PROVE  \/ /\ Retriable(call[c])
              /\ Moves(c, "refresh", call[c].sid, call[c].token, call[c].retried,
                       call[c].reply, call[c].new)
           \/ ~Retriable(call[c]) /\ Ends(c)
<1> DEFINE p == [call[c] EXCEPT !.at = "refresh"]
<1>1. call[c] \in Call
  BY DEF TypeOK
<1>2. p \in Call
  BY <1>1 DEF Call
<1>3. Retriable(call[c]) => Only(c) /\ call'[c] = p
  BY <1>2, SetIs DEF WriteAnswered
<1>4. ~Retriable(call[c]) => Ends(c)
  BY ReturnIs DEF WriteAnswered
<1> QED
  BY <1>1, <1>3, <1>4 DEF Moves, Call

LEMMA WriteRefreshIs ==
    ASSUME TypeOK, NEW c \in Calls, WriteRefresh(c)
    PROVE  Moves(c, "refreshSent", jar, call[c].token, call[c].retried,
                 call[c].reply, call[c].new)
<1> DEFINE p == [call[c] EXCEPT !.at = "refreshSent", !.sid = jar]
<1>1. call[c] \in Call
  BY DEF TypeOK
<1>2. p \in Call
  BY <1>1 DEF Call, TypeOK
<1>3. Only(c) /\ call'[c] = p
  BY <1>2, SetIs DEF WriteRefresh
<1> QED
  BY <1>1, <1>3 DEF Moves, Call

LEMMA WriteRefreshedIs ==
    ASSUME TypeOK, NEW c \in Calls, WriteRefreshed(c)
    PROVE  \/ call[c].new = None /\ Ends(c)
           \/ /\ call[c].new # None
              /\ Moves(c, "retry", call[c].sid, call[c].token, call[c].retried,
                       call[c].reply, call[c].new)
<1> DEFINE p == [call[c] EXCEPT !.at = "retry"]
<1>1. call[c] \in Call
  BY DEF TypeOK
<1>2. p \in Call
  BY <1>1 DEF Call
<1>3. call[c].new # None => Only(c) /\ call'[c] = p
  BY <1>2, SetIs DEF WriteRefreshed
<1>4. call[c].new = None => Ends(c)
  BY ReturnIs DEF WriteRefreshed
<1> QED
  BY <1>1, <1>3, <1>4 DEF Moves, Call

LEMMA WriteAgainIs ==
    ASSUME TypeOK, NEW c \in Calls, WriteAgain(c)
    PROVE  Moves(c, "sent", jar, token[call[c].tab], TRUE, "none", call[c].new)
<1> DEFINE p == [call[c] EXCEPT !.at = "sent", !.sid = jar, !.token = RetryToken(call[c]),
                    !.retried = TRUE, !.reply = "none"]
<1>1. call[c] \in Call
  BY DEF TypeOK
<1>2. p \in Call
  BY <1>1 DEF Call, TypeOK, RetryToken
<1>3. Only(c) /\ call'[c] = p
  BY <1>2, SetIs DEF WriteAgain
<1> QED
  BY <1>1, <1>3 DEF Moves, Call, RetryToken

LEMMA CompleteIs ==
    ASSUME TypeOK, NEW c \in Calls, Complete(c)
    PROVE  \/ /\ call[c].sid # None
              /\ Moves(c, "rotate", call[c].sid, call[c].token, call[c].retried,
                       call[c].reply, minted + 1)
           \/ /\ call[c].sid = None
              /\ Moves(c, "answered", call[c].sid, call[c].token, call[c].retried,
                       "ok", minted + 1)
<1> DEFINE p == [call[c] EXCEPT !.at = "rotate", !.new = minted + 1]
<1>1. call[c] \in Call /\ minted + 1 \in Tokens
  BY DEF TypeOK, Complete, Tokens
<1>2. p \in Call
  BY <1>1 DEF Call
<1>3. Replaced(call[c]) => Only(c) /\ call'[c] = p
  BY <1>2, SetIs DEF Complete
<1>4. ~Replaced(call[c]) =>
         Moves(c, "answered", call[c].sid, call[c].token, call[c].retried, "ok", minted + 1)
  BY <1>1, AnswerIs DEF Complete
<1> QED
  BY <1>1, <1>3, <1>4 DEF Moves, Call, Replaced

LEMMA RefreshIs ==
    ASSUME TypeOK, NEW c \in Calls, Refresh(c)
    PROVE  LET new == IF call[c].sid \in live THEN call[c].sid ELSE None
           IN  \/ /\ call[c].at = "sent" /\ call[c].kind = "refresh"
                  /\ Moves(c, "answered", call[c].sid, call[c].token, call[c].retried,
                           IF new = None THEN "unauthorized" ELSE "ok", new)
               \/ /\ call[c].at = "refreshSent"
                  /\ Moves(c, "refreshAnswered", call[c].sid, call[c].token,
                           call[c].retried, call[c].reply, new)
<1> DEFINE new == IF call[c].sid \in live THEN call[c].sid ELSE None
           p == [call[c] EXCEPT !.at = "refreshAnswered", !.new = new]
<1>1. call[c] \in Call /\ new \in Tokens
  BY DEF TypeOK, Call, Tokens
<1>2. p \in Call
  BY <1>1 DEF Call
<1>3. CASE call[c].at = "refreshSent"
  <2>1. Only(c) /\ call'[c] = p
    BY <1>2, <1>3, SetIs DEF Refresh
  <2> QED
    BY <1>1, <1>3, <2>1 DEF Moves, Call
<1>4. CASE call[c].at # "refreshSent"
  BY <1>1, <1>4, AnswerIs DEF Refresh
<1> QED
  BY <1>3, <1>4

LEMMA LoseIs ==
    ASSUME TypeOK, NEW c \in Calls, Lose(c)
    PROVE  \/ /\ call[c].at \in {"sent", "rotate", "answered"}
              /\ Moves(c, "answered", call[c].sid, call[c].token, call[c].retried,
                       "none", None)
           \/ /\ call[c].at \in {"refreshSent", "refreshAnswered"}
              /\ Moves(c, "refreshAnswered", call[c].sid, call[c].token,
                       call[c].retried, call[c].reply, None)
<1> DEFINE p == [call[c] EXCEPT !.at = "refreshAnswered", !.new = None]
<1>1. call[c] \in Call /\ None \in Tokens
  BY DEF TypeOK, Tokens
<1>2. p \in Call
  BY <1>1 DEF Call
<1>3. CASE call[c].at \in {"refreshSent", "refreshAnswered"}
  <2>1. Only(c) /\ call'[c] = p
    BY <1>2, <1>3, SetIs DEF Lose
  <2> QED
    BY <1>1, <1>3, <2>1 DEF Moves, Call
<1>4. CASE call[c].at \notin {"refreshSent", "refreshAnswered"}
  BY <1>1, <1>4, AnswerIs DEF Lose
<1> QED
  BY <1>3, <1>4

LEMMA InitInv == Init => IInv
<1> SUFFICES ASSUME Init PROVE IInv
  OBVIOUS
<1> USE LoginAssumption DEF Init, None
<1>1. \A c \in Calls : call[c] \in Call /\ call[c] = Idle
  BY IdleIsACall
<1>2. TypeOK /\ Named
  <2>1. \A c \in Calls : call[c].sid = 0 /\ call[c].new = 0
    BY <1>1 DEF Idle
  <2>2. call \in [Calls -> Call]
    BY <1>1
  <2>3. code \in [Txs -> {"none", "issued", "used"}]
    OBVIOUS
  <2>4. origin \in [Sids -> Txs \cup {"none"}] /\ executed \in [Calls -> Nat]
    OBVIOUS
  <2>5. /\ status \in [Tabs -> {"unknown", "authenticated", "anonymous"}]
        /\ token \in [Tabs -> Tokens] /\ landed \in [Tabs -> Txs \cup {"none"}]
    BY DEF Tokens
  <2>6. /\ jar \in Tokens /\ txJar \subseteq Txs /\ live \subseteq 1..minted
        /\ minted \in 0..MaxSessions
        /\ disturbed \subseteq Calls /\ lost \subseteq Calls
    BY DEF Tokens
  <2>7. overlapped \in BOOLEAN
    OBVIOUS
  <2>8. TypeOK
    BY <2>2, <2>3, <2>4, <2>5, <2>6, <2>7, Zenon DEF TypeOK
  <2> QED
    BY <2>1, <2>8 DEF Named
<1>3. Staged /\ OwnLogins
  BY <1>1 DEF Staged, OwnLogins, Idle, Sids
<1>4. NotYet /\ Steady
  BY <1>1 DEF NotYet, ToSend, Steady, SteadyCall, Idle
<1>5. InTurn
  BY <1>1 DEF InTurn, Alone, Idle, Busy, Changes
<1> QED
  BY <1>2, <1>3, <1>4, <1>5 DEF IInv

LEMMA AnsweredIs ==
    ASSUME TypeOK, NEW c \in Calls
    PROVE  /\ CompleteAnswered(c) \/ RefreshAnswered(c) \/ LogoutAnswered(c) => Ends(c)
           /\ Rotate(c) => Moves(c, "answered", call[c].sid, call[c].token, call[c].retried,
                 "ok", call[c].new)
           /\ CompleteRefused(c) =>
                 Moves(c, "answered", call[c].sid, call[c].token, call[c].retried,
                       "unauthorized", None)
           /\ CsrfRefused(c) =>
                 Moves(c, "answered", call[c].sid, call[c].token, call[c].retried,
                       "csrfFailed", None)
           /\ Logout(c) => Moves(c, "answered", call[c].sid, call[c].token, call[c].retried,
                 "ok", None)
           /\ Write(c) => Moves(c, "answered", call[c].sid, call[c].token, call[c].retried,
                 IF call[c].sid \in live THEN "ok" ELSE "unauthorized", None)
<1> None \in Tokens /\ call[c].new \in Tokens
  BY DEF TypeOK, Call, Tokens
<1>1. CompleteAnswered(c) \/ RefreshAnswered(c) \/ LogoutAnswered(c) => Ends(c)
  BY ReturnIs DEF CompleteAnswered, RefreshAnswered, LogoutAnswered
<1>2. Rotate(c) => Moves(c, "answered", call[c].sid, call[c].token, call[c].retried,
               "ok", call[c].new)
  BY AnswerIs DEF Rotate
<1>3. CompleteRefused(c) =>
         Moves(c, "answered", call[c].sid, call[c].token, call[c].retried,
               "unauthorized", None)
  BY AnswerIs DEF CompleteRefused
<1>4. CsrfRefused(c) => Moves(c, "answered", call[c].sid, call[c].token, call[c].retried,
               "csrfFailed", None)
  BY AnswerIs DEF CsrfRefused
<1>5. Logout(c) => Moves(c, "answered", call[c].sid, call[c].token, call[c].retried,
               "ok", None)
  BY AnswerIs DEF Logout
<1>6. Write(c) => Moves(c, "answered", call[c].sid, call[c].token, call[c].retried,
               IF call[c].sid \in live THEN "ok" ELSE "unauthorized", None)
  BY AnswerIs DEF Write
<1> QED
  BY <1>1, <1>2, <1>3, <1>4, <1>5, <1>6

-----------------------------------------------------------------------------
\* TypeOK in three parts: the browser's half,
TabTyped ==
    /\ status \in [Tabs -> {"unknown", "authenticated", "anonymous"}]
    /\ token \in [Tabs -> Tokens] /\ landed \in [Tabs -> Txs \cup {"none"}]
    /\ jar \in Tokens /\ txJar \subseteq Txs

\* the server's,
ServerTyped ==
    /\ code \in [Txs -> {"none", "issued", "used"}]
    /\ live \subseteq 1..minted /\ minted \in 0..MaxSessions
    /\ executed \in [Calls -> Nat]
    /\ origin \in [Sids -> Txs \cup {"none"}]

\* the calls and the history.
RestTyped ==
    /\ call \in [Calls -> Call]
    /\ disturbed \subseteq Calls /\ lost \subseteq Calls /\ overlapped \in BOOLEAN

\* What the other calls know of the session stays so, or they are disturbed.
Calm(c) ==
    \A d \in Calls \ {c} : d \notin disturbed' /\ d \notin lost' =>
        /\ d \notin disturbed /\ d \notin lost
        /\ Busy(d) => /\ jar' = jar /\ (jar \in live' <=> jar \in live)
                      /\ token'[call[d].tab] \in {jar, token[call[d].tab]}

LEMMA OthersSteady ==
    ASSUME TypeOK, Steady, NEW c \in Calls, Only(c), Calm(c)
    PROVE  \A d \in Calls \ {c} :
              d \notin disturbed' /\ d \notin lost' => SteadyCall(call[d])'
BY DEF Steady, SteadyCall, Only, Calm, Busy

\* A call that does not change the session leaves those that do alone.
LEMMA Bystander ==
    ASSUME InTurn, NEW c \in Calls, Only(c), UNCHANGED <<jar, live, lost>>,
           overlapped => overlapped',
           ~Busy(c) \/ call[c].kind \notin Changes, call'[c].kind \notin Changes
    PROVE  InTurn'
BY DEF InTurn, Alone, Only, Busy, Changes

\* One that does is the only one.
LEMMA OnesTurn ==
    ASSUME InTurn, NEW c \in Calls, Only(c), UNCHANGED <<overlapped, lost>>,
           Busy(c), call[c].kind \in Changes, call'[c].kind = call[c].kind,
           ~overlapped /\ lost = {} =>
               /\ Alone(call[c])'
               /\ call'[c].at \notin {"rotate", "answered"} => live' \subseteq {jar'}
               /\ call'[c].kind = "logout" => live' \subseteq {jar'}
    PROVE  InTurn'
<1> SUFFICES ASSUME ~overlapped, lost = {} PROVE InTurn'
  BY DEF InTurn
<1>1. \A d \in Calls : d # c => ~Busy(d) \/ call[d].kind \notin Changes
  BY DEF InTurn
<1>2. \A d \in Calls : d # c => call'[d] = call[d] /\ (Busy(d)' <=> Busy(d))
  BY DEF Only, Busy
<1>3. \A d \in Calls : d # c => Alone(call[d])'
  BY <1>1, <1>2 DEF Alone, Busy, Changes
<1>4. Alone(call[c])'
  OBVIOUS
<1>5. \A d, e \in Calls :
         Busy(d)' /\ Busy(e)' /\ call'[d].kind \in Changes /\ call'[e].kind \in Changes => d = e
  BY <1>1, <1>2
<1>6. \/ \E d \in Calls :
            call'[d].kind = "complete" /\ call'[d].at \in {"rotate", "answered"}
      \/ live' \subseteq {jar'}
  BY DEF Changes
<1> QED
  BY <1>3, <1>4, <1>5, <1>6 DEF InTurn, Changes

-----------------------------------------------------------------------------
LEMMA NextInv == IInv /\ [Next]_vars => IInv'
<1> SUFFICES ASSUME IInv, [Next]_vars PROVE IInv'
  OBVIOUS
<1> USE LoginAssumption DEF vars, tabVars, serverVars, history
<1>1. TypeOK /\ Named /\ Staged /\ OwnLogins /\ NotYet /\ Steady /\ InTurn
  BY DEF IInv
<1>2. ASSUME (TabTyped /\ ServerTyped)', RestTyped', Named', Staged', OwnLogins', NotYet',
             Steady', InTurn'
      PROVE  IInv'
  BY <1>2 DEF IInv, TypeOK, TabTyped, ServerTyped, RestTyped
<1>3. /\ jar \in 0..minted /\ minted \in Nat /\ live \subseteq 1..minted /\ None \notin live
      /\ token \in [Tabs -> Tokens] /\ lost \subseteq Calls
      /\ call \in [Calls -> Call] /\ \A c \in Calls : call[c].tab \in Tabs
  BY <1>1 DEF TypeOK, Call, Named, None
<1>4. \A c \in Calls : ~overlapped /\ lost = {} /\ Busy(c) /\ call[c].kind \in Changes =>
            /\ Alone(call[c])
            /\ call[c].kind = "logout" \/ call[c].at = "sent" => live \subseteq {jar}
  BY <1>1 DEF InTurn, Busy, Changes
<1> DEFINE Own(c) == c \notin disturbed' /\ c \notin lost' => SteadyCall(call[c])'
<1>5. ASSUME NEW c \in Calls, Only(c), Calm(c), Own(c) PROVE Steady'
  BY <1>1, <1>5, OthersSteady DEF Steady
<1>6. ASSUME NEW t \in Tabs, NEW tx \in Txs, Login(t, tx) PROVE IInv'
  <2>1. (TabTyped /\ ServerTyped)'
    BY <1>1, <1>3, <1>6
       DEF Login, Load, TypeOK, Call, Only, TabTyped, ServerTyped, Sids, Tokens, None
  <2>2. RestTyped'
    BY <1>1, <1>3, <1>6 DEF Login, Load, TypeOK, Call, Only, RestTyped
  <2>3. Named'
    BY <1>1, <1>3, <1>6 DEF Login, Load, Only, Named, None
  <2>4. Staged'
    BY <1>1, <1>3, <1>6 DEF Login, Load, Only, Staged
  <2>5. OwnLogins'
    BY <1>1, <1>3, <1>6 DEF Login, Load, TypeOK, Call, Only, OwnLogins
  <2>6. NotYet'
    BY <1>1, <1>3, <1>6 DEF Login, Load, Only, NotYet, ToSend
  <2>7. Steady'
    BY <1>1, <1>3, <1>6 DEF Login, Load, Quiet, Steady, SteadyCall, Busy
  <2>8. InTurn'
    BY <1>1, <1>6 DEF Login, InTurn, Alone, Busy
  <2> QED
    BY <1>2, <2>1, <2>2, <2>3, <2>4, <2>5, <2>6, <2>7, <2>8
<1>7. ASSUME NEW t \in Tabs, NEW tx \in Txs, Visit(t, tx) PROVE IInv'
  <2>1. (TabTyped /\ ServerTyped)'
    BY <1>1, <1>3, <1>7
       DEF Visit, Load, TypeOK, Call, Only, TabTyped, ServerTyped, Sids, Tokens, None
  <2>2. RestTyped'
    BY <1>1, <1>3, <1>7 DEF Visit, Load, TypeOK, Call, Only, RestTyped
  <2>3. Named'
    BY <1>1, <1>3, <1>7 DEF Visit, Load, Only, Named, None
  <2>4. Staged'
    BY <1>1, <1>3, <1>7 DEF Visit, Load, Only, Staged
  <2>5. OwnLogins'
    BY <1>1, <1>3, <1>7 DEF Visit, Load, TypeOK, Call, Only, OwnLogins
  <2>6. NotYet'
    BY <1>1, <1>3, <1>7 DEF Visit, Load, Only, NotYet, ToSend
  <2>7. Steady'
    BY <1>1, <1>3, <1>7 DEF Visit, Load, Quiet, Steady, SteadyCall, Busy
  <2>8. InTurn'
    BY <1>1, <1>7 DEF Visit, InTurn, Alone, Busy
  <2> QED
    BY <1>2, <2>1, <2>2, <2>3, <2>4, <2>5, <2>6, <2>7, <2>8
<1>8. ASSUME NEW t \in Tabs, Reload(t) PROVE IInv'
  <2>1. (TabTyped /\ ServerTyped)'
    BY <1>1, <1>3, <1>8
       DEF Reload, Load, TypeOK, Call, Only, TabTyped, ServerTyped, Sids, Tokens, None
  <2>2. RestTyped'
    BY <1>1, <1>3, <1>8 DEF Reload, Load, TypeOK, Call, Only, RestTyped
  <2>3. Named'
    BY <1>1, <1>3, <1>8 DEF Reload, Load, Only, Named, None
  <2>4. Staged'
    BY <1>1, <1>3, <1>8 DEF Reload, Load, Only, Staged
  <2>5. OwnLogins'
    BY <1>1, <1>3, <1>8 DEF Reload, Load, TypeOK, Call, Only, OwnLogins
  <2>6. NotYet'
    BY <1>1, <1>3, <1>8 DEF Reload, Load, Only, NotYet, ToSend
  <2>7. Steady'
    BY <1>1, <1>3, <1>8 DEF Reload, Load, Quiet, Steady, SteadyCall, Busy
  <2>8. InTurn'
    BY <1>1, <1>8 DEF Reload, InTurn, Alone, Busy
  <2> QED
    BY <1>2, <2>1, <2>2, <2>3, <2>4, <2>5, <2>6, <2>7, <2>8
<1>9. ASSUME NEW c \in Calls, NEW t \in Tabs, NEW kind \in Kinds, Begin(c, t, kind)
       PROVE  IInv'
  <2>1. Starts(c, t, kind)
    BY <1>1, <1>9, BeginIs, Zenon
  <2>2. (TabTyped /\ ServerTyped)'
    BY <1>1, <1>3, <1>9, <2>1
       DEF Begin, Starts, TypeOK, Call, Only, TabTyped, ServerTyped, Sids, Tokens, None
  <2>3. RestTyped'
    BY <1>1, <1>3, <1>9, <2>1 DEF Begin, Starts, TypeOK, Call, Only, RestTyped
  <2>4. Named'
    <3>1. UNCHANGED <<jar, minted>>
      BY <1>9 DEF Begin
    <3> QED
      BY <1>1, <1>3, <2>1, <3>1 DEF Starts, Only, Named, None
  <2>5. Staged'
    BY <1>1, <1>3, <1>9, <2>1 DEF Begin, Starts, Only, Staged
  <2>6. OwnLogins'
    BY <1>1, <1>3, <1>9, <2>1 DEF Begin, Starts, TypeOK, Call, Only, OwnLogins
  <2>7. NotYet'
    BY <1>1, <1>3, <1>9, <2>1 DEF Begin, Starts, Only, NotYet, ToSend
  <2>8. Steady'
    <3>1. Only(c) /\ Calm(c)
      BY <1>9, <2>1 DEF Begin, Starts, Calm
    <3>2. Own(c)
      BY <1>9, <2>1 DEF Begin, Starts, SteadyCall
    <3> QED
      BY <1>5, <3>1, <3>2
  <2>9. InTurn'
    <3>1. /\ call[c].at = "idle" /\ UNCHANGED <<jar, live, lost>>
          /\ overlapped' = (overlapped \/
                (kind \in Changes /\ \E d \in Calls : Busy(d) /\ call[d].kind \in Changes))
      BY <1>9 DEF Begin
    <3>2. CASE kind \notin Changes
      BY <1>1, <2>1, <3>1, <3>2, Bystander DEF Starts, Busy
    <3>3. CASE kind \in Changes
      BY <1>1, <2>1, <3>1, <3>3 DEF Starts, Only, InTurn, Alone, Busy, Changes
    <3> QED
      BY <3>2, <3>3
  <2> QED
    BY <1>2, <2>2, <2>3, <2>4, <2>5, <2>6, <2>7, <2>8, <2>9
<1>10. ASSUME NEW c \in Calls, CompleteAnswered(c) PROVE IInv'
  <2>1. Ends(c)
    BY <1>1, <1>10, AnsweredIs, Zenon
  <2>2. (TabTyped /\ ServerTyped)'
    BY <1>1, <1>3, <1>10, <2>1
       DEF CompleteAnswered, SetSession, Ends, Disturb, TypeOK, Call, Only, TabTyped,
           ServerTyped, Sids, Tokens, None
  <2>3. RestTyped'
    BY <1>1, <1>3, <1>10, <2>1
       DEF CompleteAnswered, SetSession, Ends, Disturb, TypeOK, Call, Only, RestTyped
  <2>4. Named'
    BY <1>1, <1>3, <1>10, <2>1
       DEF CompleteAnswered, SetSession, Ends, Disturb, Only, Named, None
  <2>5. Staged'
    BY <1>1, <1>3, <1>10, <2>1
       DEF CompleteAnswered, SetSession, Ends, Disturb, Only, Staged
  <2>6. OwnLogins'
    BY <1>1, <1>3, <1>10, <2>1
       DEF CompleteAnswered, SetSession, Ends, Disturb, TypeOK, Call, Only, OwnLogins
  <2>7. NotYet'
    BY <1>1, <1>3, <1>10, <2>1
       DEF CompleteAnswered, SetSession, Ends, Disturb, Only, NotYet, ToSend
  <2>8. Steady'
    <3>1. call[c].kind = "complete"
      BY <1>1, <1>10 DEF CompleteAnswered
    <3>2. Only(c)
      BY <2>1 DEF Ends
    <3>3. Calm(c)
      BY <1>3, <1>10 DEF CompleteAnswered, SetSession, Disturb, Calm, None, Busy
    <3>4. Own(c)
      BY <1>1, <1>3, <2>1, <3>1 DEF Ends, Retriable, Steady, SteadyCall, Staged, None
    <3> QED
      BY <1>5, <3>2, <3>3, <3>4
  <2>9. InTurn'
    <3>1. /\ call[c].kind = "complete" /\ call[c].at = "answered"
          /\ jar' = (IF call[c].reply = "ok" THEN call[c].new ELSE jar)
          /\ UNCHANGED <<live, overlapped, lost>>
      BY <1>1, <1>10 DEF CompleteAnswered
    <3>2. Busy(c) /\ call[c].kind \in Changes
      BY <3>1 DEF Busy, Changes
    <3>3. ~overlapped /\ lost = {} =>
            /\ Alone(call[c])'
            /\ call'[c].at \notin {"rotate", "answered"} => live' \subseteq {jar'}
            /\ call'[c].kind = "logout" => live' \subseteq {jar'}
      BY <1>3, <1>4, <2>1, <3>1, <3>2 DEF Ends, Alone, Changes
    <3> QED
      BY <1>1, <2>1, <3>1, <3>2, <3>3, OnesTurn DEF Ends
  <2> QED
    BY <1>2, <2>2, <2>3, <2>4, <2>5, <2>6, <2>7, <2>8, <2>9
<1>11. ASSUME NEW c \in Calls, RefreshAnswered(c) PROVE IInv'
  <2>1. Ends(c)
    BY <1>1, <1>11, AnsweredIs, Zenon
  <2>2. (TabTyped /\ ServerTyped)'
    BY <1>1, <1>3, <1>11, <2>1
       DEF RefreshAnswered, SetSession, Ends, Disturb, TypeOK, Call, Only, TabTyped,
           ServerTyped, Sids, Tokens, None
  <2>3. RestTyped'
    BY <1>1, <1>3, <1>11, <2>1
       DEF RefreshAnswered, SetSession, Ends, Disturb, TypeOK, Call, Only, RestTyped
  <2>4. Named'
    BY <1>1, <1>3, <1>11, <2>1
       DEF RefreshAnswered, SetSession, Ends, Disturb, Only, Named, None
  <2>5. Staged'
    BY <1>1, <1>3, <1>11, <2>1
       DEF RefreshAnswered, SetSession, Ends, Disturb, Only, Staged
  <2>6. OwnLogins'
    BY <1>1, <1>3, <1>11, <2>1
       DEF RefreshAnswered, SetSession, Ends, Disturb, TypeOK, Call, Only, OwnLogins
  <2>7. NotYet'
    BY <1>1, <1>3, <1>11, <2>1
       DEF RefreshAnswered, SetSession, Ends, Disturb, Only, NotYet, ToSend
  <2>8. Steady'
    <3>1. call[c].kind = "refresh"
      BY <1>1, <1>11 DEF RefreshAnswered
    <3>2. Only(c)
      BY <2>1 DEF Ends
    <3>3. Calm(c)
      BY <1>3, <1>11 DEF RefreshAnswered, SetSession, Disturb, Calm, None, Busy
    <3>4. Own(c)
      BY <1>1, <1>3, <2>1, <3>1 DEF Ends, Retriable, Steady, SteadyCall, Staged, None
    <3> QED
      BY <1>5, <3>2, <3>3, <3>4
  <2>9. InTurn'
    <3>1. call[c].kind \notin Changes /\ UNCHANGED <<jar, live, overlapped, lost>>
      BY <1>1, <1>11 DEF RefreshAnswered, Staged, Changes
    <3> QED
      BY <1>1, <2>1, <3>1, Bystander DEF Ends
  <2> QED
    BY <1>2, <2>2, <2>3, <2>4, <2>5, <2>6, <2>7, <2>8, <2>9
<1>12. ASSUME NEW c \in Calls, LogoutAnswered(c) PROVE IInv'
  <2>1. Ends(c)
    BY <1>1, <1>12, AnsweredIs, Zenon
  <2>2. (TabTyped /\ ServerTyped)'
    BY <1>1, <1>3, <1>12, <2>1
       DEF LogoutAnswered, SetSession, Ends, Disturb, TypeOK, Call, Only, TabTyped,
           ServerTyped, Sids, Tokens, None
  <2>3. RestTyped'
    BY <1>1, <1>3, <1>12, <2>1
       DEF LogoutAnswered, SetSession, Ends, Disturb, TypeOK, Call, Only, RestTyped
  <2>4. Named'
    BY <1>1, <1>3, <1>12, <2>1
       DEF LogoutAnswered, SetSession, Ends, Disturb, Only, Named, None
  <2>5. Staged'
    BY <1>1, <1>3, <1>12, <2>1 DEF LogoutAnswered, SetSession, Ends, Disturb, Only, Staged
  <2>6. OwnLogins'
    BY <1>1, <1>3, <1>12, <2>1
       DEF LogoutAnswered, SetSession, Ends, Disturb, TypeOK, Call, Only, OwnLogins
  <2>7. NotYet'
    BY <1>1, <1>3, <1>12, <2>1
       DEF LogoutAnswered, SetSession, Ends, Disturb, Only, NotYet, ToSend
  <2>8. Steady'
    <3>1. call[c].kind = "logout"
      BY <1>1, <1>12 DEF LogoutAnswered
    <3>2. Only(c)
      BY <2>1 DEF Ends
    <3>3. Calm(c)
      BY <1>3, <1>12 DEF LogoutAnswered, SetSession, Disturb, Calm, None, Busy
    <3>4. Own(c)
      BY <1>1, <1>3, <2>1, <3>1 DEF Ends, Retriable, Steady, SteadyCall, Staged, None
    <3> QED
      BY <1>5, <3>2, <3>3, <3>4
  <2>9. InTurn'
    <3>1. /\ call[c].kind = "logout" /\ call[c].at = "answered"
          /\ jar' = (IF call[c].reply = "ok" THEN None ELSE jar)
          /\ UNCHANGED <<live, overlapped, lost>>
      BY <1>1, <1>12 DEF LogoutAnswered
    <3>2. Busy(c) /\ call[c].kind \in Changes
      BY <3>1 DEF Busy, Changes
    <3>3. ~overlapped /\ lost = {} =>
            /\ Alone(call[c])'
            /\ call'[c].at \notin {"rotate", "answered"} => live' \subseteq {jar'}
            /\ call'[c].kind = "logout" => live' \subseteq {jar'}
      BY <1>3, <1>4, <2>1, <3>1, <3>2 DEF Ends, Alone, Changes
    <3> QED
      BY <1>1, <2>1, <3>1, <3>2, <3>3, OnesTurn DEF Ends
  <2> QED
    BY <1>2, <2>2, <2>3, <2>4, <2>5, <2>6, <2>7, <2>8, <2>9
<1>13. ASSUME NEW c \in Calls, WriteAnswered(c) PROVE IInv'
  <2>1. \/ /\ Retriable(call[c])
           /\ Moves(c, "refresh", call[c].sid, call[c].token, call[c].retried,
                    call[c].reply, call[c].new)
        \/ ~Retriable(call[c]) /\ Ends(c)
    BY <1>1, <1>13, WriteAnsweredIs, Zenon
  <2>2. (TabTyped /\ ServerTyped)'
    BY <1>1, <1>3, <1>13, <2>1
       DEF WriteAnswered, Retriable, Moves, Ends, TypeOK, Call, Only, TabTyped,
           ServerTyped, Sids, Tokens, None
  <2>3. RestTyped'
    BY <1>1, <1>3, <1>13, <2>1
       DEF WriteAnswered, Retriable, Moves, Ends, TypeOK, Call, Only, RestTyped
  <2>4. Named'
    <3>1. UNCHANGED <<jar, minted>>
      BY <1>13 DEF WriteAnswered
    <3> QED
      BY <1>1, <1>3, <2>1, <3>1 DEF Moves, Ends, Only, Named, None
  <2>5. Staged'
    BY <1>1, <1>3, <1>13, <2>1 DEF WriteAnswered, Retriable, Moves, Ends, Only, Staged
  <2>6. OwnLogins'
    BY <1>1, <1>3, <1>13, <2>1
       DEF WriteAnswered, Retriable, Moves, Ends, TypeOK, Call, Only, OwnLogins
  <2>7. NotYet'
    BY <1>1, <1>3, <1>13, <2>1
       DEF WriteAnswered, Retriable, Moves, Ends, Only, NotYet, ToSend
  <2>8. Steady'
    <3>1. /\ call[c].kind = "write" /\ call[c].at = "answered"
          /\ UNCHANGED <<jar, live, token, disturbed, lost>>
      BY <1>1, <1>13 DEF WriteAnswered
    <3>2. Only(c)
      BY <2>1 DEF Moves, Ends
    <3>3. Calm(c)
      BY <1>3, <1>13 DEF WriteAnswered, Calm, None, Busy
    <3>4. Own(c)
      BY <1>1, <1>3, <2>1, <3>1
         DEF Moves, Ends, Retriable, Steady, SteadyCall, Staged, None
    <3> QED
      BY <1>5, <3>2, <3>3, <3>4
  <2>9. InTurn'
    <3>1. call[c].kind \notin Changes /\ UNCHANGED <<jar, live, overlapped, lost>>
      BY <1>1, <1>13 DEF WriteAnswered, Staged, Changes
    <3> QED
      BY <1>1, <2>1, <3>1, Bystander DEF Moves, Ends
  <2> QED
    BY <1>2, <2>2, <2>3, <2>4, <2>5, <2>6, <2>7, <2>8, <2>9
<1>14. ASSUME NEW c \in Calls, WriteRefresh(c) PROVE IInv'
  <2>1. Moves(c, "refreshSent", jar, call[c].token, call[c].retried,
              call[c].reply, call[c].new)
    BY <1>1, <1>14, WriteRefreshIs, Zenon
  <2>2. (TabTyped /\ ServerTyped)'
    BY <1>1, <1>3, <1>14, <2>1
       DEF WriteRefresh, Moves, TypeOK, Call, Only, TabTyped, ServerTyped, Sids, Tokens,
           None
  <2>3. RestTyped'
    BY <1>1, <1>3, <1>14, <2>1 DEF WriteRefresh, Moves, TypeOK, Call, Only, RestTyped
  <2>4. Named'
    BY <1>1, <1>3, <1>14, <2>1 DEF WriteRefresh, Moves, Only, Named, None
  <2>5. Staged'
    BY <1>1, <1>3, <1>14, <2>1 DEF WriteRefresh, Moves, Only, Staged
  <2>6. OwnLogins'
    BY <1>1, <1>3, <1>14, <2>1 DEF WriteRefresh, Moves, TypeOK, Call, Only, OwnLogins
  <2>7. NotYet'
    BY <1>1, <1>3, <1>14, <2>1 DEF WriteRefresh, Moves, Only, NotYet, ToSend
  <2>8. Steady'
    <3>1. call[c].at = "refresh" /\ UNCHANGED <<jar, live, token, disturbed, lost>>
      BY <1>1, <1>14 DEF WriteRefresh
    <3>2. Only(c)
      BY <2>1 DEF Moves
    <3>3. Calm(c)
      BY <1>3, <1>14 DEF WriteRefresh, Calm, None, Busy
    <3>4. Own(c)
      BY <1>1, <1>3, <2>1, <3>1 DEF Moves, Retriable, Steady, SteadyCall, Staged, None
    <3> QED
      BY <1>5, <3>2, <3>3, <3>4
  <2>9. InTurn'
    <3>1. call[c].kind \notin Changes /\ UNCHANGED <<jar, live, overlapped, lost>>
      BY <1>1, <1>14 DEF WriteRefresh, Staged, Changes
    <3> QED
      BY <1>1, <2>1, <3>1, Bystander DEF Moves
  <2> QED
    BY <1>2, <2>2, <2>3, <2>4, <2>5, <2>6, <2>7, <2>8, <2>9
<1>15. ASSUME NEW c \in Calls, WriteRefreshed(c) PROVE IInv'
  <2>1. \/ call[c].new = None /\ Ends(c)
        \/ /\ call[c].new # None
           /\ Moves(c, "retry", call[c].sid, call[c].token, call[c].retried,
                    call[c].reply, call[c].new)
    BY <1>1, <1>15, WriteRefreshedIs, Zenon
  <2>2. (TabTyped /\ ServerTyped)'
    BY <1>1, <1>3, <1>15, <2>1
       DEF WriteRefreshed, SetSession, Moves, Ends, Disturb, TypeOK, Call, Only, TabTyped,
           ServerTyped, Sids, Tokens, None
  <2>3. RestTyped'
    BY <1>1, <1>3, <1>15, <2>1
       DEF WriteRefreshed, SetSession, Moves, Ends, Disturb, TypeOK, Call, Only, RestTyped
  <2>4. Named'
    BY <1>1, <1>3, <1>15, <2>1
       DEF WriteRefreshed, SetSession, Moves, Ends, Disturb, Only, Named, None
  <2>5. Staged'
    BY <1>1, <1>3, <1>15, <2>1
       DEF WriteRefreshed, SetSession, Moves, Ends, Disturb, Only, Staged
  <2>6. OwnLogins'
    BY <1>1, <1>3, <1>15, <2>1
       DEF WriteRefreshed, SetSession, Moves, Ends, Disturb, TypeOK, Call, Only, OwnLogins
  <2>7. NotYet'
    BY <1>1, <1>3, <1>15, <2>1
       DEF WriteRefreshed, SetSession, Moves, Ends, Disturb, Only, NotYet, ToSend
  <2>8. Steady'
    <3>1. /\ call[c].at = "refreshAnswered" /\ UNCHANGED <<jar, live, lost>>
          /\ token' = [token EXCEPT ![call[c].tab] = call[c].new]
          /\ c \notin disturbed' => c \notin disturbed
      BY <1>1, <1>15 DEF WriteRefreshed, Disturb, SetSession
    <3>2. Only(c)
      BY <2>1 DEF Moves, Ends
    <3>3. Calm(c)
      BY <1>3, <1>15 DEF WriteRefreshed, SetSession, Disturb, Calm, None, Busy
    <3>4. Own(c)
      BY <1>1, <1>3, <2>1, <3>1
         DEF Moves, Ends, Retriable, Steady, SteadyCall, Staged, None
    <3> QED
      BY <1>5, <3>2, <3>3, <3>4
  <2>9. InTurn'
    <3>1. call[c].kind \notin Changes /\ UNCHANGED <<jar, live, overlapped, lost>>
      BY <1>1, <1>15 DEF WriteRefreshed, Staged, Changes
    <3> QED
      BY <1>1, <2>1, <3>1, Bystander DEF Moves, Ends
  <2> QED
    BY <1>2, <2>2, <2>3, <2>4, <2>5, <2>6, <2>7, <2>8, <2>9
<1>16. ASSUME NEW c \in Calls, WriteAgain(c) PROVE IInv'
  <2>1. Moves(c, "sent", jar, token[call[c].tab], TRUE, "none", call[c].new)
    BY <1>1, <1>16, WriteAgainIs, Zenon
  <2>2. (TabTyped /\ ServerTyped)'
    BY <1>1, <1>3, <1>16, <2>1
       DEF WriteAgain, Moves, TypeOK, Call, Only, TabTyped, ServerTyped, Sids, Tokens,
           None
  <2>3. RestTyped'
    BY <1>1, <1>3, <1>16, <2>1 DEF WriteAgain, Moves, TypeOK, Call, Only, RestTyped
  <2>4. Named'
    BY <1>1, <1>3, <1>16, <2>1 DEF WriteAgain, Moves, Only, Named, None
  <2>5. Staged'
    BY <1>1, <1>3, <1>16, <2>1 DEF WriteAgain, Moves, Only, Staged
  <2>6. OwnLogins'
    BY <1>1, <1>3, <1>16, <2>1 DEF WriteAgain, Moves, TypeOK, Call, Only, OwnLogins
  <2>7. NotYet'
    BY <1>1, <1>3, <1>16, <2>1 DEF WriteAgain, Moves, Only, NotYet, ToSend
  <2>8. Steady'
    <3>1. call[c].at = "retry" /\ UNCHANGED <<jar, live, token, disturbed, lost>>
      BY <1>1, <1>16 DEF WriteAgain
    <3>2. Only(c)
      BY <2>1 DEF Moves
    <3>3. Calm(c)
      BY <1>3, <1>16 DEF WriteAgain, Calm, None, Busy
    <3>4. Own(c)
      BY <1>1, <1>3, <2>1, <3>1 DEF Moves, Retriable, Steady, SteadyCall, Staged, None
    <3> QED
      BY <1>5, <3>2, <3>3, <3>4
  <2>9. InTurn'
    <3>1. call[c].kind \notin Changes /\ UNCHANGED <<jar, live, overlapped, lost>>
      BY <1>1, <1>16 DEF WriteAgain, Staged, Changes
    <3> QED
      BY <1>1, <2>1, <3>1, Bystander DEF Moves
  <2> QED
    BY <1>2, <2>2, <2>3, <2>4, <2>5, <2>6, <2>7, <2>8, <2>9
<1>17. ASSUME NEW c \in Calls, Complete(c) PROVE IInv'
  <2>1. \/ /\ call[c].sid # None
           /\ Moves(c, "rotate", call[c].sid, call[c].token, call[c].retried,
                    call[c].reply, minted + 1)
        \/ /\ call[c].sid = None
           /\ Moves(c, "answered", call[c].sid, call[c].token, call[c].retried,
                    "ok", minted + 1)
    BY <1>1, <1>17, CompleteIs, Zenon
  <2>2. (TabTyped /\ ServerTyped)'
    <3>1. /\ minted' = minted + 1 /\ minted + 1 \in Sids
          /\ live' = live \cup {minted + 1}
          /\ origin' = [origin EXCEPT ![minted + 1] = call[c].tx]
          /\ code' = [code EXCEPT ![call[c].tx] = "used"]
          /\ UNCHANGED <<tabVars, jar, txJar, executed>>
      BY <1>17 DEF Complete
    <3>2. TabTyped'
      BY <1>1, <3>1 DEF TypeOK, TabTyped
    <3>3. live' \subseteq 1..minted' /\ minted' \in 0..MaxSessions
      BY <1>1, <3>1 DEF TypeOK, Sids
    <3>4. call[c].tx \in Txs \cup {"none"}
      BY <1>3 DEF Call
    <3>5. origin' \in [Sids -> Txs \cup {"none"}]
      BY <1>1, <3>1, <3>4 DEF TypeOK
    <3>6. code' \in [Txs -> {"none", "issued", "used"}] /\ executed' \in [Calls -> Nat]
      BY <1>1, <3>1 DEF TypeOK
    <3> QED
      BY <3>2, <3>3, <3>5, <3>6 DEF ServerTyped
  <2>3. RestTyped'
    BY <1>1, <1>3, <1>17, <2>1
       DEF Complete, TakesCode, Begun, Moves, TypeOK, Call, Only, RestTyped
  <2>4. Named'
    <3>1. minted' = minted + 1 /\ UNCHANGED jar
      BY <1>17 DEF Complete
    <3> QED
      BY <1>1, <1>3, <2>1, <3>1 DEF Moves, Only, Named, None
  <2>5. Staged'
    <3>1. call[c].kind = "complete"
      BY <1>17 DEF Complete
    <3> QED
      BY <1>1, <1>3, <2>1, <3>1 DEF Moves, Only, Staged
  <2>6. OwnLogins'
    <3>1. /\ call[c].bound /\ UNCHANGED txJar
          /\ origin' = [origin EXCEPT ![minted + 1] = call[c].tx]
      BY <1>17 DEF Complete, TakesCode, Begun
    <3> QED
      BY <1>1, <1>3, <2>1, <3>1 DEF Moves, TypeOK, Call, Only, OwnLogins
  <2>7. NotYet'
    <3>1. call[c].at = "sent" /\ UNCHANGED executed
      BY <1>17 DEF Complete
    <3> QED
      BY <1>1, <1>3, <2>1, <3>1 DEF Moves, Only, NotYet, ToSend
  <2>8. Steady'
    <3>1. call[c].kind = "complete"
      BY <1>1, <1>17 DEF Complete
    <3>2. Only(c)
      BY <2>1 DEF Moves
    <3>3. Calm(c)
      BY <1>3, <1>17 DEF Complete, Calm, None, Busy
    <3>4. Own(c)
      BY <1>1, <1>3, <2>1, <3>1 DEF Moves, Retriable, Steady, SteadyCall, Staged, None
    <3> QED
      BY <1>5, <3>2, <3>3, <3>4
  <2>9. InTurn'
    <3>1. /\ call[c].kind = "complete" /\ call[c].at = "sent"
          /\ live' = live \cup {minted + 1} /\ UNCHANGED <<jar, overlapped, lost>>
      BY <1>1, <1>17 DEF Complete
    <3>2. Busy(c) /\ call[c].kind \in Changes
      BY <3>1 DEF Busy, Changes
    <3>3. ~overlapped /\ lost = {} =>
            /\ Alone(call[c])'
            /\ call'[c].at \notin {"rotate", "answered"} => live' \subseteq {jar'}
            /\ call'[c].kind = "logout" => live' \subseteq {jar'}
      BY <1>3, <1>4, <2>1, <3>1, <3>2 DEF Moves, Alone, Changes
    <3> QED
      BY <1>1, <2>1, <3>1, <3>2, <3>3, OnesTurn DEF Moves
  <2> QED
    BY <1>2, <2>2, <2>3, <2>4, <2>5, <2>6, <2>7, <2>8, <2>9
<1>18. ASSUME NEW c \in Calls, Rotate(c) PROVE IInv'
  <2>1. Moves(c, "answered", call[c].sid, call[c].token, call[c].retried,
               "ok", call[c].new)
    BY <1>1, <1>18, AnsweredIs, Zenon
  <2>2. (TabTyped /\ ServerTyped)'
    BY <1>1, <1>3, <1>18, <2>1
       DEF Rotate, Moves, Disturb, TypeOK, Call, Only, TabTyped, ServerTyped, Sids,
           Tokens, None
  <2>3. RestTyped'
    BY <1>1, <1>3, <1>18, <2>1 DEF Rotate, Moves, Disturb, TypeOK, Call, Only, RestTyped
  <2>4. Named'
    BY <1>1, <1>3, <1>18, <2>1 DEF Rotate, Moves, Disturb, Only, Named, None
  <2>5. Staged'
    BY <1>1, <1>3, <1>18, <2>1 DEF Rotate, Moves, Disturb, Only, Staged
  <2>6. OwnLogins'
    BY <1>1, <1>3, <1>18, <2>1 DEF Rotate, Moves, Disturb, TypeOK, Call, Only, OwnLogins
  <2>7. NotYet'
    BY <1>1, <1>3, <1>18, <2>1 DEF Rotate, Moves, Disturb, Only, NotYet, ToSend
  <2>8. Steady'
    <3>1. call[c].kind = "complete"
      BY <1>1, <1>18 DEF Rotate, Staged
    <3>2. Only(c)
      BY <2>1 DEF Moves
    <3>3. Calm(c)
      BY <1>3, <1>18 DEF Rotate, Disturb, Calm, None, Busy
    <3>4. Own(c)
      BY <1>1, <1>3, <2>1, <3>1 DEF Moves, Retriable, Steady, SteadyCall, Staged, None
    <3> QED
      BY <1>5, <3>2, <3>3, <3>4
  <2>9. InTurn'
    <3>1. /\ call[c].kind = "complete" /\ call[c].at = "rotate"
          /\ live' = live \ {call[c].sid} /\ UNCHANGED <<jar, overlapped, lost>>
      BY <1>1, <1>18 DEF Rotate, Staged
    <3>2. Busy(c) /\ call[c].kind \in Changes
      BY <3>1 DEF Busy, Changes
    <3>3. ~overlapped /\ lost = {} =>
            /\ Alone(call[c])'
            /\ call'[c].at \notin {"rotate", "answered"} => live' \subseteq {jar'}
            /\ call'[c].kind = "logout" => live' \subseteq {jar'}
      BY <1>3, <1>4, <2>1, <3>1, <3>2 DEF Moves, Alone, Changes
    <3> QED
      BY <1>1, <2>1, <3>1, <3>2, <3>3, OnesTurn DEF Moves
  <2> QED
    BY <1>2, <2>2, <2>3, <2>4, <2>5, <2>6, <2>7, <2>8, <2>9
<1>19. ASSUME NEW c \in Calls, CompleteRefused(c) PROVE IInv'
  <2>1. Moves(c, "answered", call[c].sid, call[c].token, call[c].retried,
               "unauthorized", None)
    BY <1>1, <1>19, AnsweredIs, Zenon
  <2>2. (TabTyped /\ ServerTyped)'
    BY <1>1, <1>3, <1>19, <2>1
       DEF CompleteRefused, Moves, TypeOK, Call, Only, TabTyped, ServerTyped, Sids,
           Tokens, None
  <2>3. RestTyped'
    BY <1>1, <1>3, <1>19, <2>1 DEF CompleteRefused, Moves, TypeOK, Call, Only, RestTyped
  <2>4. Named'
    <3>1. UNCHANGED <<jar, minted>>
      BY <1>19 DEF CompleteRefused
    <3> QED
      BY <1>1, <1>3, <2>1, <3>1 DEF Moves, Only, Named, None
  <2>5. Staged'
    BY <1>1, <1>3, <1>19, <2>1 DEF CompleteRefused, Moves, Only, Staged
  <2>6. OwnLogins'
    BY <1>1, <1>3, <1>19, <2>1 DEF CompleteRefused, Moves, TypeOK, Call, Only, OwnLogins
  <2>7. NotYet'
    BY <1>1, <1>3, <1>19, <2>1 DEF CompleteRefused, Moves, Only, NotYet, ToSend
  <2>8. Steady'
    <3>1. call[c].kind = "complete"
      BY <1>1, <1>19 DEF CompleteRefused
    <3>2. Only(c)
      BY <2>1 DEF Moves
    <3>3. Calm(c)
      BY <1>3, <1>19 DEF CompleteRefused, Calm, None, Busy
    <3>4. Own(c)
      BY <1>1, <1>3, <2>1, <3>1 DEF Moves, Retriable, Steady, SteadyCall, Staged, None
    <3> QED
      BY <1>5, <3>2, <3>3, <3>4
  <2>9. InTurn'
    <3>1. /\ call[c].kind = "complete" /\ call[c].at = "sent"
          /\ UNCHANGED <<jar, live, overlapped, lost>>
      BY <1>1, <1>19 DEF CompleteRefused
    <3>2. Busy(c) /\ call[c].kind \in Changes
      BY <3>1 DEF Busy, Changes
    <3>3. ~overlapped /\ lost = {} =>
            /\ Alone(call[c])'
            /\ call'[c].at \notin {"rotate", "answered"} => live' \subseteq {jar'}
            /\ call'[c].kind = "logout" => live' \subseteq {jar'}
      BY <1>3, <1>4, <2>1, <3>1, <3>2 DEF Moves, Alone, Changes
    <3> QED
      BY <1>1, <2>1, <3>1, <3>2, <3>3, OnesTurn DEF Moves
  <2> QED
    BY <1>2, <2>2, <2>3, <2>4, <2>5, <2>6, <2>7, <2>8, <2>9
<1>20. ASSUME NEW c \in Calls, Refresh(c) PROVE IInv'
  <2>1. LET new == IF call[c].sid \in live THEN call[c].sid ELSE None
        IN  \/ /\ call[c].at = "sent" /\ call[c].kind = "refresh"
               /\ Moves(c, "answered", call[c].sid, call[c].token, call[c].retried,
                        IF new = None THEN "unauthorized" ELSE "ok", new)
            \/ /\ call[c].at = "refreshSent"
               /\ Moves(c, "refreshAnswered", call[c].sid, call[c].token,
                        call[c].retried, call[c].reply, new)
    BY <1>1, <1>20, RefreshIs, Zenon
  <2>2. (TabTyped /\ ServerTyped)'
    BY <1>1, <1>3, <1>20, <2>1
       DEF Refresh, Moves, TypeOK, Call, Only, TabTyped, ServerTyped, Sids, Tokens, None
  <2>3. RestTyped'
    BY <1>1, <1>3, <1>20, <2>1 DEF Refresh, Moves, TypeOK, Call, Only, RestTyped
  <2>4. Named'
    <3>1. UNCHANGED <<jar, minted>>
      BY <1>20 DEF Refresh
    <3> QED
      BY <1>1, <1>3, <2>1, <3>1 DEF Moves, Only, Named, None
  <2>5. Staged'
    BY <1>1, <1>3, <1>20, <2>1 DEF Refresh, Moves, Only, Staged
  <2>6. OwnLogins'
    BY <1>1, <1>3, <1>20, <2>1 DEF Refresh, Moves, TypeOK, Call, Only, OwnLogins
  <2>7. NotYet'
    BY <1>1, <1>3, <1>20, <2>1 DEF Refresh, Moves, Only, NotYet, ToSend
  <2>8. Steady'
    <3>1. UNCHANGED <<jar, live, token, disturbed, lost>>
      BY <1>1, <1>20 DEF Refresh
    <3>2. Only(c)
      BY <2>1 DEF Moves
    <3>3. Calm(c)
      BY <1>3, <1>20 DEF Refresh, Calm, None, Busy
    <3>4. Own(c)
      BY <1>1, <1>3, <2>1, <3>1 DEF Moves, Retriable, Steady, SteadyCall, Staged, None
    <3> QED
      BY <1>5, <3>2, <3>3, <3>4
  <2>9. InTurn'
    <3>1. call[c].kind \notin Changes /\ UNCHANGED <<jar, live, overlapped, lost>>
      BY <1>1, <1>20 DEF Refresh, Staged, Changes
    <3> QED
      BY <1>1, <2>1, <3>1, Bystander DEF Moves
  <2> QED
    BY <1>2, <2>2, <2>3, <2>4, <2>5, <2>6, <2>7, <2>8, <2>9
<1>21. ASSUME NEW c \in Calls, CsrfRefused(c) PROVE IInv'
  <2>1. Moves(c, "answered", call[c].sid, call[c].token, call[c].retried,
               "csrfFailed", None)
    BY <1>1, <1>21, AnsweredIs, Zenon
  <2>2. (TabTyped /\ ServerTyped)'
    BY <1>1, <1>3, <1>21, <2>1
       DEF CsrfRefused, Moves, TypeOK, Call, Only, TabTyped, ServerTyped, Sids, Tokens,
           None
  <2>3. RestTyped'
    BY <1>1, <1>3, <1>21, <2>1 DEF CsrfRefused, Moves, TypeOK, Call, Only, RestTyped
  <2>4. Named'
    <3>1. UNCHANGED <<jar, minted>>
      BY <1>21 DEF CsrfRefused
    <3> QED
      BY <1>1, <1>3, <2>1, <3>1 DEF Moves, Only, Named, None
  <2>5. Staged'
    BY <1>1, <1>3, <1>21, <2>1 DEF CsrfRefused, Moves, Only, Staged
  <2>6. OwnLogins'
    BY <1>1, <1>3, <1>21, <2>1 DEF CsrfRefused, Moves, TypeOK, Call, Only, OwnLogins
  <2>7. NotYet'
    <3>1. call[c].at = "sent" /\ UNCHANGED executed
      BY <1>21 DEF CsrfRefused
    <3> QED
      BY <1>1, <1>3, <2>1, <3>1 DEF Moves, Only, NotYet, ToSend
  <2>8. Steady'
    <3>1. /\ call[c].at = "sent" /\ call[c].sid \in live /\ call[c].token # call[c].sid
          /\ call[c].kind # "refresh" /\ UNCHANGED <<jar, live, token, disturbed, lost>>
      BY <1>1, <1>21 DEF CsrfRefused
    <3>2. Only(c)
      BY <2>1 DEF Moves
    <3>3. Calm(c)
      BY <1>3, <1>21 DEF CsrfRefused, Calm, None, Busy
    <3>4. Own(c)
      BY <1>1, <1>3, <2>1, <3>1 DEF Moves, Retriable, Steady, SteadyCall, Staged, None
    <3> QED
      BY <1>5, <3>2, <3>3, <3>4
  <2>9. InTurn'
    <3>1. /\ call[c].at = "sent" /\ call[c].kind \in {"logout", "write"}
          /\ UNCHANGED <<jar, live, overlapped, lost>>
      BY <1>21 DEF CsrfRefused
    <3>2. CASE call[c].kind = "write"
      BY <1>1, <2>1, <3>1, <3>2, Bystander DEF Moves, Changes
    <3>3. CASE call[c].kind = "logout"
      BY <1>1, <1>4, <2>1, <3>1, <3>3, OnesTurn DEF Moves, Changes, Busy, Alone
    <3> QED
      BY <3>1, <3>2, <3>3
  <2> QED
    BY <1>2, <2>2, <2>3, <2>4, <2>5, <2>6, <2>7, <2>8, <2>9
<1>22. ASSUME NEW c \in Calls, Logout(c) PROVE IInv'
  <2>1. Moves(c, "answered", call[c].sid, call[c].token, call[c].retried,
               "ok", None)
    BY <1>1, <1>22, AnsweredIs, Zenon
  <2>2. (TabTyped /\ ServerTyped)'
    BY <1>1, <1>3, <1>22, <2>1
       DEF Logout, Moves, Disturb, TypeOK, Call, Only, TabTyped, ServerTyped, Sids,
           Tokens, None
  <2>3. RestTyped'
    BY <1>1, <1>3, <1>22, <2>1 DEF Logout, Moves, Disturb, TypeOK, Call, Only, RestTyped
  <2>4. Named'
    <3>1. UNCHANGED <<jar, minted>>
      BY <1>22 DEF Logout
    <3> QED
      BY <1>1, <1>3, <2>1, <3>1 DEF Moves, Only, Named, None
  <2>5. Staged'
    BY <1>1, <1>3, <1>22, <2>1 DEF Logout, Moves, Disturb, Only, Staged
  <2>6. OwnLogins'
    BY <1>1, <1>3, <1>22, <2>1 DEF Logout, Moves, Disturb, TypeOK, Call, Only, OwnLogins
  <2>7. NotYet'
    BY <1>1, <1>3, <1>22, <2>1 DEF Logout, Moves, Disturb, Only, NotYet, ToSend
  <2>8. Steady'
    <3>1. call[c].kind = "logout"
      BY <1>1, <1>22 DEF Logout
    <3>2. Only(c)
      BY <2>1 DEF Moves
    <3>3. Calm(c)
      BY <1>3, <1>22 DEF Logout, Disturb, Calm, None, Busy
    <3>4. Own(c)
      BY <1>1, <1>3, <2>1, <3>1 DEF Moves, Retriable, Steady, SteadyCall, Staged, None
    <3> QED
      BY <1>5, <3>2, <3>3, <3>4
  <2>9. InTurn'
    <3>1. /\ call[c].kind = "logout" /\ call[c].at = "sent"
          /\ live' = live \ {call[c].sid} /\ UNCHANGED <<jar, overlapped, lost>>
      BY <1>1, <1>22 DEF Logout
    <3>2. Busy(c) /\ call[c].kind \in Changes
      BY <3>1 DEF Busy, Changes
    <3>3. ~overlapped /\ lost = {} =>
            /\ Alone(call[c])'
            /\ call'[c].at \notin {"rotate", "answered"} => live' \subseteq {jar'}
            /\ call'[c].kind = "logout" => live' \subseteq {jar'}
      BY <1>3, <1>4, <2>1, <3>1, <3>2 DEF Moves, Alone, Changes
    <3> QED
      BY <1>1, <2>1, <3>1, <3>2, <3>3, OnesTurn DEF Moves
  <2> QED
    BY <1>2, <2>2, <2>3, <2>4, <2>5, <2>6, <2>7, <2>8, <2>9
<1>23. ASSUME NEW c \in Calls, Write(c) PROVE IInv'
  <2>1. Moves(c, "answered", call[c].sid, call[c].token, call[c].retried,
               IF call[c].sid \in live THEN "ok" ELSE "unauthorized", None)
    BY <1>1, <1>23, AnsweredIs, Zenon
  <2>2. (TabTyped /\ ServerTyped)'
    BY <1>1, <1>3, <1>23, <2>1
       DEF Write, Moves, TypeOK, Call, Only, TabTyped, ServerTyped, Sids, Tokens, None
  <2>3. RestTyped'
    BY <1>1, <1>3, <1>23, <2>1 DEF Write, Moves, TypeOK, Call, Only, RestTyped
  <2>4. Named'
    <3>1. UNCHANGED <<jar, minted>>
      BY <1>23 DEF Write
    <3> QED
      BY <1>1, <1>3, <2>1, <3>1 DEF Moves, Only, Named, None
  <2>5. Staged'
    BY <1>1, <1>3, <1>23, <2>1 DEF Write, Moves, Only, Staged
  <2>6. OwnLogins'
    BY <1>1, <1>3, <1>23, <2>1 DEF Write, Moves, TypeOK, Call, Only, OwnLogins
  <2>7. NotYet'
    <3>1. /\ call[c].at = "sent"
          /\ executed' = [executed EXCEPT ![c] = @ + (IF call[c].sid \in live THEN 1 ELSE 0)]
      BY <1>23 DEF Write
    <3> QED
      BY <1>1, <1>3, <2>1, <3>1 DEF Moves, Only, NotYet, ToSend
  <2>8. Steady'
    <3>1. call[c].kind = "write"
      BY <1>1, <1>23 DEF Write
    <3>2. Only(c)
      BY <2>1 DEF Moves
    <3>3. Calm(c)
      BY <1>3, <1>23 DEF Write, Calm, None, Busy
    <3>4. Own(c)
      BY <1>1, <1>3, <2>1, <3>1 DEF Moves, Retriable, Steady, SteadyCall, Staged, None
    <3> QED
      BY <1>5, <3>2, <3>3, <3>4
  <2>9. InTurn'
    <3>1. call[c].kind \notin Changes /\ UNCHANGED <<jar, live, overlapped, lost>>
      BY <1>1, <1>23 DEF Write, Staged, Changes
    <3> QED
      BY <1>1, <2>1, <3>1, Bystander DEF Moves
  <2> QED
    BY <1>2, <2>2, <2>3, <2>4, <2>5, <2>6, <2>7, <2>8, <2>9
<1>24. ASSUME NEW c \in Calls, Lose(c) PROVE IInv'
  <2>1. \/ /\ call[c].at \in {"sent", "rotate", "answered"}
           /\ Moves(c, "answered", call[c].sid, call[c].token, call[c].retried,
                    "none", None)
        \/ /\ call[c].at \in {"refreshSent", "refreshAnswered"}
           /\ Moves(c, "refreshAnswered", call[c].sid, call[c].token,
                    call[c].retried, call[c].reply, None)
    BY <1>1, <1>24, LoseIs, Zenon
  <2>2. (TabTyped /\ ServerTyped)'
    BY <1>1, <1>3, <1>24, <2>1
       DEF Lose, Moves, TypeOK, Call, Only, TabTyped, ServerTyped, Sids, Tokens, None
  <2>3. RestTyped'
    BY <1>1, <1>3, <1>24, <2>1 DEF Lose, Moves, TypeOK, Call, Only, RestTyped
  <2>4. Named'
    <3>1. UNCHANGED <<jar, minted>>
      BY <1>24 DEF Lose
    <3> QED
      BY <1>1, <1>3, <2>1, <3>1 DEF Moves, Only, Named, None
  <2>5. Staged'
    BY <1>1, <1>3, <1>24, <2>1 DEF Lose, Moves, Only, Staged
  <2>6. OwnLogins'
    BY <1>1, <1>3, <1>24, <2>1 DEF Lose, Moves, TypeOK, Call, Only, OwnLogins
  <2>7. NotYet'
    BY <1>1, <1>3, <1>24, <2>1 DEF Lose, Moves, Only, NotYet, ToSend
  <2>8. Steady'
    <3>1. c \in lost'
      BY <1>1, <1>24 DEF Lose
    <3>2. Only(c)
      BY <2>1 DEF Moves
    <3>3. Calm(c)
      BY <1>3, <1>24 DEF Lose, Calm, None, Busy
    <3>4. Own(c)
      BY <1>1, <1>3, <2>1, <3>1 DEF Moves, Retriable, Steady, SteadyCall, Staged, None
    <3> QED
      BY <1>5, <3>2, <3>3, <3>4
  <2>9. InTurn'
    BY <1>1, <1>3, <1>24 DEF Lose, InTurn
  <2> QED
    BY <1>2, <2>2, <2>3, <2>4, <2>5, <2>6, <2>7, <2>8, <2>9
<1>25. CASE UNCHANGED vars
  BY <1>1, <1>25
     DEF IInv, TypeOK, Named, Staged, OwnLogins, NotYet, ToSend, Steady, SteadyCall,
         InTurn, Alone, Busy
<1> QED
  BY <1>6, <1>7, <1>8, <1>9, <1>10, <1>11, <1>12, <1>13, <1>14, <1>15, <1>16, <1>17,
     <1>18, <1>19, <1>20, <1>21, <1>22, <1>23, <1>24, <1>25
     DEF Next, Navigate, Browser, Server

\* The conjunction is an invariant of the browser and its server.
THEOREM Invariance == Spec => []IInv
BY InitInv, NextInv, PTL DEF Spec

\* Every variable keeps its type.
THEOREM TypeCorrect == Spec => []TypeOK
<1>1. IInv => TypeOK
  BY DEF IInv
<1> QED
  BY <1>1, Invariance, PTL

\* No session in the jar or in a tab came of another browser's login, whoever
\* opened which callback URL where.
THEOREM LoginsAreOwn == Spec => []NoForeignLogin
<1>1. IInv => NoForeignLogin
  <2> SUFFICES ASSUME IInv, NEW s \in {jar} \cup {token[t] : t \in Tabs}, s # None
               PROVE  origin[s] \notin Foreign
    BY DEF NoForeignLogin
  <2>1. s \in Sids
    BY DEF IInv, TypeOK, Tokens
  <2> QED
    BY <2>1 DEF IInv, OwnLogins
<1> QED
  BY <1>1, Invariance, PTL

\* The retry never carries a write out twice.
THEOREM WritesHappenOnce == Spec => []WriteOnce
<1>1. IInv => WriteOnce
  BY DEF IInv, NotYet, WriteOnce
<1> QED
  BY <1>1, Invariance, PTL

\* A write that nothing disturbed does not end refused for its token.
THEOREM StaleTokensHeal == Spec => []HealsStaleToken
<1>1. IInv => HealsStaleToken
  BY DEF IInv, Steady, SteadyCall, HealsStaleToken
<1> QED
  BY <1>1, Invariance, PTL

\* When sign-ins and logouts take turns, no session is left behind in the
\* store.
THEOREM NoneIsOrphaned == Spec => []NoOrphanSession
<1>1. IInv => NoOrphanSession
  <2> SUFFICES ASSUME IInv, ~overlapped, lost = {}, NEW s \in live, s # jar
               PROVE  \E c \in Calls :
                         Busy(c) /\ call[c].kind = "complete" /\ call[c].new = s
    BY DEF NoOrphanSession
  <2>1. PICK c \in Calls :
           call[c].kind = "complete" /\ call[c].at \in {"rotate", "answered"}
    BY DEF IInv, InTurn
  <2>2. Alone(call[c])
    BY DEF IInv, InTurn
  <2>3. call[c].new = s
    BY <2>1, <2>2 DEF Alone
  <2> QED
    BY <2>1, <2>3 DEF Busy
<1> QED
  BY <1>1, Invariance, PTL

\* A refresh that nothing disturbed leaves its tab with the session's token.
THEOREM RefreshesTellTruth == Spec => RefreshTellsTruth
<1>1. IInv /\ [Next]_vars =>
         [\A c \in Calls :
             RefreshAnswered(c) \/ WriteRefreshed(c) =>
                 \/ c \in disturbed \cup lost
                 \/ token'[call[c].tab] = (IF jar \in live THEN jar ELSE None)]_vars
  <2> SUFFICES ASSUME IInv, NEW c \in Calls, RefreshAnswered(c) \/ WriteRefreshed(c),
                      c \notin disturbed, c \notin lost
               PROVE  token'[call[c].tab] = (IF jar \in live THEN jar ELSE None)
    OBVIOUS
  <2>1. /\ \/ call[c].at = "answered" /\ call[c].kind = "refresh"
           \/ call[c].at = "refreshAnswered"
        /\ token' = [token EXCEPT ![call[c].tab] = call[c].new]
    BY DEF RefreshAnswered, WriteRefreshed, SetSession
  <2>2. SteadyCall(call[c])
    BY DEF IInv, Steady
  <2>3. call[c].tab \in Tabs /\ token \in [Tabs -> Tokens]
    BY DEF IInv, TypeOK, Call
  <2> QED
    BY <2>1, <2>2, <2>3 DEF SteadyCall
<1> QED
  BY <1>1, Invariance, PTL DEF Spec, RefreshTellsTruth

=============================================================================
