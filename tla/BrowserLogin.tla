---------------------------- MODULE BrowserLogin ----------------------------
(***************************************************************************)
(* A browser with several tabs of one single-page application, its cookie  *)
(* jar, and the server's login routes: client-web's BrowserSession and     *)
(* credentialed fetch against security-core's auth/routes.                 *)
(*                                                                         *)
(* The tabs share the jar and nothing else.  Each keeps its own status and *)
(* CSRF token, and learns of the others' logins and logouts only from the  *)
(* answers it gets.  An answer changes the jar when it arrives, and any    *)
(* answer may be lost after the server has acted.                          *)
(***************************************************************************)
EXTENDS Integers, FiniteSets

CONSTANTS
    Tabs,
    Calls,         \* asynchronous functions of BrowserSession and fetch at work
    Txs,           \* login transactions: a state, a nonce and a verifier each
    Foreign,       \* those another browser began
    MaxSessions,   \* bound: sessions minted
    MaxLost        \* bound: calls that are lost

ASSUME LoginAssumption ==
    /\ Tabs # {}
    /\ Foreign \subseteq Txs /\ "none" \notin Txs
    /\ MaxSessions \in Nat /\ MaxLost \in Nat

Sids == 1..MaxSessions   \* a session's id; its CSRF token goes by the same number
None == 0
Tokens == Sids \cup {None}

VARIABLES
    status, token,  \* each tab's BrowserSession
    landed,         \* the transaction in a tab's callback URL, "none" after the scrub
    jar,            \* the session cookie
    txJar,          \* the transaction cookies
    code,           \* the provider's: each transaction's code, "none", "issued" or "used"
    live,           \* the session store: the sessions in it
    minted,         \* sessions issued so far
    call,           \* the calls at work
    executed,       \* history: how often each call's write was carried out
    origin,         \* history: the transaction each session came of
    disturbed,      \* history: calls during which another changed the session,
                    \*   or left a tab with another token than the session's
    overlapped,     \* history: a login or logout met another
    lost            \* history: calls an answer was lost of, or that failed half-way

tabVars == <<status, token, landed>>
serverVars == <<live, minted, code, origin>>
history == <<disturbed, overlapped, lost>>
vars == <<tabVars, jar, txJar, serverVars, call, executed, history>>

Kinds == {"complete", "refresh", "logout", "write"}

\* A call: its tab and kind, where it is, the session cookie and token its
\* request carried, the transaction of the URL and whether that one's cookie
\* went along, the answer ("none" when it was lost) and the answer's session.
Call ==
    [kind : Kinds \cup {"none"}, tab : Tabs,
     at : {"idle", "sent", "rotate", "answered", "refresh", "refreshSent",
           "refreshAnswered", "retry", "done"},
     sid : Tokens, token : Tokens, tx : Txs \cup {"none"}, bound : BOOLEAN,
     retried : BOOLEAN,
     reply : {"none", "ok", "unauthorized", "csrfFailed"}, new : Tokens]

Idle == [kind |-> "none", tab |-> CHOOSE t \in Tabs : TRUE, at |-> "idle",
         sid |-> None, token |-> None,
         tx |-> "none", bound |-> FALSE, retried |-> FALSE,
         reply |-> "none", new |-> None]

Init ==
    /\ status = [t \in Tabs |-> "unknown"]
    /\ token = [t \in Tabs |-> None]
    /\ landed = [t \in Tabs |-> "none"]
    /\ jar = None /\ txJar = {}
    /\ code = [tx \in Txs |-> IF tx \in Foreign THEN "issued" ELSE "none"]
    /\ live = {} /\ minted = 0
    /\ call = [c \in Calls |-> Idle]
    /\ executed = [c \in Calls |-> 0]
    /\ origin = [s \in Sids |-> "none"]
    /\ disturbed = {} /\ lost = {} /\ overlapped = FALSE

Set(c, fields) == call' = [call EXCEPT ![c] = fields]
\* It returns; of its request the session it named is remembered.
Return(c) ==
    Set(c, [Idle EXCEPT !.kind = call[c].kind, !.at = "done", !.sid = call[c].sid,
               !.reply = call[c].reply])
Busy(c) == call[c].at \notin {"idle", "done"}
Changes == {"complete", "logout"}

\* The calls at work while c changes who is signed in, or what a tab knows of it.
Disturb(c) == disturbed' = disturbed \cup {d \in Calls \ {c} : Busy(d)}

-----------------------------------------------------------------------------
\* Navigations.  A tab leaves its page when none of its calls is at work.

Quiet(t) == \A c \in Calls : call[c].tab = t => ~Busy(c)

Load(t, tx) ==
    /\ Quiet(t)
    /\ status' = [status EXCEPT ![t] = "unknown"]
    /\ token' = [token EXCEPT ![t] = None]
    /\ landed' = [landed EXCEPT ![t] = tx]

\* login(): to loginHandler, which leaves a transaction cookie, to the
\* provider, and back to the callback page with a code.
Login(t, tx) ==
    /\ tx \notin Foreign /\ code[tx] = "none"
    /\ txJar' = txJar \cup {tx}
    /\ code' = [code EXCEPT ![tx] = "issued"]
    /\ Load(t, tx)
    /\ UNCHANGED <<jar, live, minted, origin, call, executed, history>>

\* A callback URL opened in a browser that did not begin it.
Visit(t, tx) ==
    /\ tx \in Foreign /\ landed[t] # tx
    /\ Load(t, tx)
    /\ UNCHANGED <<jar, txJar, serverVars, call, executed, history>>

Reload(t) ==
    /\ status[t] # "unknown"
    /\ Load(t, landed[t])
    /\ UNCHANGED <<jar, txJar, serverVars, call, executed, history>>

-----------------------------------------------------------------------------
\* The browser's half of a call.

\* The request leaves with the cookies of the jar and the tab's token.
Begin(c, t, kind) ==
    /\ call[c].at = "idle"
    /\ kind = "complete" => landed[t] # "none"
    /\ Set(c, [Idle EXCEPT !.kind = kind, !.tab = t, !.at = "sent",
                  !.sid = jar, !.token = token[t],
                  !.tx = landed[t], !.bound = landed[t] \in txJar])
    /\ overlapped' = (overlapped \/
          (kind \in Changes /\ \E d \in Calls : Busy(d) /\ call[d].kind \in Changes))
    /\ UNCHANGED <<tabVars, jar, txJar, serverVars, executed, disturbed, lost>>

\* Faulty variant for sensitivity runs: the token outlives its session.
SetSessionKept(t, sid) ==
    /\ status' = [status EXCEPT ![t] = IF sid = None THEN "anonymous" ELSE "authenticated"]
    /\ token' = [token EXCEPT ![t] = IF sid = None THEN @ ELSE sid]

\* set(): status and token change together.
SetSession(t, sid) ==
    /\ status' = [status EXCEPT ![t] = IF sid = None THEN "anonymous" ELSE "authenticated"]
    /\ token' = [token EXCEPT ![t] = sid]

\* completeLogin: a 200 carries the cookie, the token and the way back; any
\* answer clears the transaction's cookie.  No answer leaves the jar alone.
CompleteAnswered(c) ==
    LET q == call[c]
        ok == q.reply = "ok"
    IN  /\ q.kind = "complete" /\ q.at = "answered"
        /\ jar' = IF ok THEN q.new ELSE jar
        /\ txJar' = IF q.reply = "none" THEN txJar ELSE txJar \ {q.tx}
        /\ SetSession(q.tab, q.new)
        /\ landed' = [landed EXCEPT ![q.tab] = IF ok THEN "none" ELSE @]
        /\ Return(c)
        /\ Disturb(c)
        /\ UNCHANGED <<serverVars, executed, overlapped, lost>>

RefreshAnswered(c) ==
    LET q == call[c]
    IN  /\ q.kind = "refresh" /\ q.at = "answered"
        /\ SetSession(q.tab, q.new)
        /\ Return(c)
        /\ IF q.new # jar THEN Disturb(c) ELSE UNCHANGED disturbed
        /\ UNCHANGED <<landed, jar, txJar, serverVars, executed, overlapped, lost>>

\* logout drops to anonymous whatever the answer; a 204 clears the cookie.
LogoutAnswered(c) ==
    LET q == call[c]
    IN  /\ q.kind = "logout" /\ q.at = "answered"
        /\ jar' = IF q.reply = "ok" THEN None ELSE jar
        /\ SetSession(q.tab, None)
        /\ Return(c)
        /\ Disturb(c)
        /\ UNCHANGED <<landed, txJar, serverVars, executed, overlapped, lost>>


\* Faulty variant for sensitivity runs: a write without an answer is sent again too.
RetriableUnanswered(q) == q.reply \in {"csrfFailed", "none"} /\ ~q.retried

\* The credentialed fetch: a write refused for its token refreshes and is
\* sent once more.  A write nobody answered is not sent again.
Retriable(q) == q.reply = "csrfFailed" /\ ~q.retried

WriteAnswered(c) ==
    LET q == call[c]
    IN  /\ q.kind = "write" /\ q.at = "answered"
        /\ IF Retriable(q) THEN Set(c, [q EXCEPT !.at = "refresh"]) ELSE Return(c)
        /\ UNCHANGED <<tabVars, jar, txJar, serverVars, executed, history>>

WriteRefresh(c) ==
    /\ call[c].at = "refresh"
    /\ Set(c, [call[c] EXCEPT !.at = "refreshSent", !.sid = jar])
    /\ UNCHANGED <<tabVars, jar, txJar, serverVars, executed, history>>

WriteRefreshed(c) ==
    LET q == call[c]
    IN  /\ q.at = "refreshAnswered"
        /\ SetSession(q.tab, q.new)
        /\ IF q.new = None THEN Return(c) ELSE Set(c, [q EXCEPT !.at = "retry"])
        /\ IF q.new # jar THEN Disturb(c) ELSE UNCHANGED disturbed
        /\ UNCHANGED <<landed, jar, txJar, serverVars, executed, overlapped, lost>>

\* Faulty variant for sensitivity runs: the header of the first attempt stays.
RetryTokenKept(q) == q.token

\* The token sent the second time is the tab's by then.
RetryToken(q) == token[q.tab]

WriteAgain(c) ==
    LET q == call[c]
    IN  /\ q.at = "retry"
        /\ Set(c, [q EXCEPT !.at = "sent", !.sid = jar, !.token = RetryToken(q),
                      !.retried = TRUE, !.reply = "none"])
        /\ UNCHANGED <<tabVars, jar, txJar, serverVars, executed, history>>

-----------------------------------------------------------------------------
\* The server's half.

Answer(c, reply, new) ==
    Set(c, [call[c] EXCEPT !.at = "answered", !.reply = reply, !.new = new])

\* Faulty variant for sensitivity runs: the state in the URL is enough.
BegunAnywhere(q) == q.tx # "none"

\* callbackHandler: the transaction is the one this browser began, which its
\* cookie shows, and the provider takes each code once.
Begun(q) == q.bound

TakesCode(q) == Begun(q) /\ code[q.tx] = "issued"

\* Faulty variant for sensitivity runs: the session of before stays.
ReplacedNever(q) == FALSE

\* rotateSession deletes the session the request came with.
Replaced(q) == q.sid # None

Complete(c) ==
    LET q == call[c]  n == minted + 1
    IN  /\ q.kind = "complete" /\ q.at = "sent"
        /\ TakesCode(q) /\ n \in Sids
        /\ minted' = n
        /\ live' = live \cup {n}
        /\ origin' = [origin EXCEPT ![n] = q.tx]
        /\ code' = [code EXCEPT ![q.tx] = "used"]
        /\ IF Replaced(q)
             THEN Set(c, [q EXCEPT !.at = "rotate", !.new = n])
             ELSE Answer(c, "ok", n)
        /\ UNCHANGED <<tabVars, jar, txJar, executed, history>>

Rotate(c) ==
    /\ call[c].at = "rotate"
    /\ live' = live \ {call[c].sid}
    /\ Answer(c, "ok", call[c].new)
    /\ Disturb(c)
    /\ UNCHANGED <<tabVars, jar, txJar, minted, code, origin, executed, overlapped, lost>>

CompleteRefused(c) ==
    /\ call[c].kind = "complete" /\ call[c].at = "sent"
    /\ ~TakesCode(call[c])
    /\ Answer(c, "unauthorized", None)
    /\ UNCHANGED <<tabVars, jar, txJar, serverVars, executed, history>>

\* csrfTokenHandler behind authenticate.
Refresh(c) ==
    LET q == call[c]  new == IF q.sid \in live THEN q.sid ELSE None
    IN  /\ \/ /\ q.kind = "refresh" /\ q.at = "sent"
              /\ Answer(c, IF new = None THEN "unauthorized" ELSE "ok", new)
           \/ /\ q.at = "refreshSent"
              /\ Set(c, [q EXCEPT !.at = "refreshAnswered", !.new = new])
        /\ UNCHANGED <<tabVars, jar, txJar, serverVars, executed, history>>

\* csrf: with a live session, the token must be the session's.  The
\* application is same-site or on the allowlist, so its provenance passes.
CsrfRefused(c) ==
    LET q == call[c]
    IN  /\ q.kind \in {"logout", "write"} /\ q.at = "sent"
        /\ q.sid \in live /\ q.token # q.sid
        /\ Answer(c, "csrfFailed", None)
        /\ UNCHANGED <<tabVars, jar, txJar, serverVars, executed, history>>

\* logoutHandler; authenticate answers the same for a session gone already.
Logout(c) ==
    LET q == call[c]
    IN  /\ q.kind = "logout" /\ q.at = "sent"
        /\ q.sid \in live => q.token = q.sid
        /\ live' = live \ {q.sid}
        /\ Answer(c, "ok", None)
        /\ IF q.sid \in live THEN Disturb(c) ELSE UNCHANGED disturbed
        /\ UNCHANGED <<tabVars, jar, txJar, minted, code, origin, executed, overlapped, lost>>

Write(c) ==
    LET q == call[c]
    IN  /\ q.kind = "write" /\ q.at = "sent"
        /\ q.sid \in live => q.token = q.sid
        /\ executed' = [executed EXCEPT ![c] = @ + (IF q.sid \in live THEN 1 ELSE 0)]
        /\ Answer(c, IF q.sid \in live THEN "ok" ELSE "unauthorized", None)
        /\ UNCHANGED <<tabVars, jar, txJar, serverVars, history>>

\* The network loses a request, or the answer to it; or the deletion a
\* rotation ends with fails, and both sessions stay.
Lose(c) ==
    LET q == call[c]
    IN  /\ Cardinality(lost) < MaxLost
        /\ lost' = lost \cup {c}
        /\ \/ /\ q.at \in {"sent", "rotate"} \/ (q.at = "answered" /\ q.reply # "none")
              /\ Answer(c, "none", None)
           \/ /\ q.at = "refreshSent" \/ (q.at = "refreshAnswered" /\ q.new # None)
              /\ Set(c, [q EXCEPT !.at = "refreshAnswered", !.new = None])
        /\ UNCHANGED <<tabVars, jar, txJar, serverVars, executed, disturbed, overlapped>>

-----------------------------------------------------------------------------
Navigate ==
    \E t \in Tabs : Reload(t) \/ \E tx \in Txs : Login(t, tx) \/ Visit(t, tx)

Browser(c) ==
    \/ \E t \in Tabs, kind \in Kinds : Begin(c, t, kind)
    \/ CompleteAnswered(c) \/ RefreshAnswered(c) \/ LogoutAnswered(c)
    \/ WriteAnswered(c) \/ WriteRefresh(c) \/ WriteRefreshed(c) \/ WriteAgain(c)

Server(c) ==
    \/ Complete(c) \/ Rotate(c) \/ CompleteRefused(c) \/ Refresh(c)
    \/ CsrfRefused(c) \/ Logout(c) \/ Write(c)

Next == Navigate \/ \E c \in Calls : Browser(c) \/ Server(c) \/ Lose(c)

Spec == Init /\ [][Next]_vars

-----------------------------------------------------------------------------
TypeOK ==
    /\ status \in [Tabs -> {"unknown", "authenticated", "anonymous"}]
    /\ token \in [Tabs -> Tokens] /\ landed \in [Tabs -> Txs \cup {"none"}]
    /\ jar \in Tokens /\ txJar \subseteq Txs
    /\ code \in [Txs -> {"none", "issued", "used"}]
    /\ live \subseteq 1..minted /\ minted \in 0..MaxSessions
    /\ call \in [Calls -> Call] /\ executed \in [Calls -> Nat]
    /\ origin \in [Sids -> Txs \cup {"none"}]
    /\ disturbed \subseteq Calls /\ lost \subseteq Calls /\ overlapped \in BOOLEAN

\* Whoever sends this browser to a callback URL of theirs does not sign it in
\* as themselves: every session in the jar or in a tab came of a login begun
\* here.  (routes.ts: the state bound to the transaction cookie.)
NoForeignLogin ==
    \A s \in {jar} \cup {token[t] : t \in Tabs} : s # None => origin[s] \notin Foreign

\* The transparent retry of a write never carries it out twice, whatever
\* answers are lost and whatever the other tabs do between the attempts.
WriteOnce == \A c \in Calls : executed[c] <= 1

\* A token gone stale in a tab heals: a write ends refused for its token only
\* if the session changed under way, an answer about another session came in
\* between, or its own was lost.
HealsStaleToken ==
    \A c \in Calls :
        call[c].kind = "write" /\ call[c].at = "done" /\ call[c].reply = "csrfFailed"
            => c \in disturbed \cup lost

\* A sign-in replaces the session of before it: unless logins or logouts
\* overlap or an answer is lost, no session stays usable that the browser
\* has no cookie of, or a sign-in at work that will bring it.
NoOrphanSession ==
    ~overlapped /\ lost = {} =>
        \A s \in live :
            s = jar \/ \E c \in Calls : Busy(c) /\ call[c].kind = "complete" /\ call[c].new = s

\* A refresh during which the session did not change leaves the tab with that
\* session's token, or signed out if there is no such session.
RefreshTellsTruth ==
    [][\A c \in Calls :
          RefreshAnswered(c) \/ WriteRefreshed(c) =>
              \/ c \in disturbed \cup lost
              \/ token'[call[c].tab] = (IF jar \in live THEN jar ELSE None)]_vars

\* What the client's README says of logout(): "revoke the session + clear the
\* cookie".  A logout that was answered has ended the session it named.
LogoutEndsSession ==
    \A c \in Calls :
        call[c].kind = "logout" /\ call[c].at = "done" /\ c \notin lost
            => call[c].sid \notin live
=============================================================================
