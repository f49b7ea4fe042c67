------------------------------ MODULE McpServer ------------------------------
(***************************************************************************)
(* The MCP server over the generated operations (mcp-core): one client's   *)
(* JSON-RPC messages, as one POST or as lines on stdin, beside requests    *)
(* that reach the same routes over HTTP.                                   *)
(*                                                                         *)
(* A POST's bearer is resolved once, its whole batch is gated, and then    *)
(* its messages are dispatched in turn, each one awaited.  On stdin a line *)
(* may arrive in any number of chunks; the lines a chunk completes are     *)
(* handled, each awaited, before the next chunk is read.                   *)
(***************************************************************************)
EXTENDS CrudHandlers, SequencesExt

CONSTANTS
    MaxLine,    \* maxLineBytes
    Long        \* symbols of a long line; a short one has one

ASSUME LineAssumption == MaxLine \in Nat \ {0} /\ Long \in Nat \ {0}

VARIABLES
    transport,   \* "post" or "stdio"; fixed
    auth,        \* the POST handler has an auth configuration; fixed
    capped,      \* serveStdio has a maxLineBytes; fixed
    msgs,        \* the client's messages; fixed
    long,        \* which of them are long lines; fixed
    closed,      \* whether stdin ends with a newline; fixed
    claims,      \* what the bearer proves
    phase,       \* "reading", "serving", or how it ended
    fed,         \* symbols of stdin read so far
    from,        \* where the line buffer begins
    discarding,  \* the buffer is dropping the tail of a long line
    pending,     \* messages to handle, each whole or the rest of a line
    answers,     \* the messages answered, in order; a POST's are sent together
    errors,      \* parse errors written to stdout
    handled      \* history: the messages handled, in order

inputVars == <<transport, auth, capped, msgs, long, closed>>
lineVars == <<fed, from, discarding, errors>>
mcpVars == <<inputVars, claims, phase, lineVars, pending, answers, handled>>
vars == <<served, mcpVars>>

\* A message calls an operation ("tool" by name, "resource" its read or list
\* operation), is answered from what the server knows ("prompt" by filling in
\* a template), or is nothing to answer: a notification, and whatever is not
\* JSON-RPC 2.0.  A garbled line is no JSON.
Simple == {"ping", "prompt", "unknown", "notification", "junk"}
Message ==
    [type : {"tool", "resource"}, call : Calls] \cup [type : Simple \cup {"garbled"}]

Dispatched(m) == m.type \in {"tool", "resource"}
Answered(m) == m.type \notin {"notification", "junk", "garbled"}

\* What handling these throws, nothing catches: a tool call's is an answer.
Uncaught(m) == m.type \in {"resource", "prompt"}

\* A tool call names any operation; a resource is read or listed.
Sensible(m) ==
    Dispatched(m) =>
        /\ op[m.call] \in CrudOps
        /\ m.type = "resource" => op[m.call] \in {"read", "list"}

CalledBy(ms) == {m.call : m \in {ms[i] : i \in {j \in DOMAIN ms : Dispatched(ms[j])}}}

-----------------------------------------------------------------------------

\* A bearer stands in for an OAuth scheme only, and must carry the scopes.
BearerEligible(c) == scheme[c] # "sigv4Hmac"

\* Whether there is anyone to prove oneself to: the operation has a scheme, and
\* this transport checks it. On stdin the process itself is trusted.
NeedsPrincipal(c) == transport = "post" /\ auth /\ scheme[c] # "anonymous"

\* authGate: the operation may not be called with these claims.
Gated(c) ==
    /\ NeedsPrincipal(c)
    /\ ~BearerEligible(c) \/ claims # "scoped"

\* Only a gated operation has its caller's principal attached to the request.
PrincipalFor(c) == IF NeedsPrincipal(c) THEN claims ELSE "none"

\* Faulty variant for sensitivity runs: the scan of a batch knows tools only.
ScansTools(ms) ==
    \E i \in DOMAIN ms : ms[i].type = "tool" /\ Gated(ms[i].call)

\* precheckBatchAuth
SomeGated(ms) ==
    \E i \in DOMAIN ms : Dispatched(ms[i]) /\ Gated(ms[i].call)

End(p) ==
    /\ phase' = p
    /\ UNCHANGED <<served, inputVars, claims, lineVars, answers, handled>>

\* resolveBearer never throws: a bearer it cannot verify proves nothing.
ResolveBearer(p) ==
    /\ transport = "post" /\ phase = "reading" /\ claims = "unread"
    /\ claims' = IF auth THEN p ELSE "none"
    /\ UNCHANGED <<served, inputVars, phase, lineVars, pending, answers, handled>>

\* The body or the batch is over its limit, or no JSON.
RefusePost ==
    /\ transport = "post" /\ phase = "reading" /\ claims = "unread"
    /\ End("refused") /\ UNCHANGED pending

\* The whole batch is gated before any of it is dispatched.
GatePost ==
    /\ transport = "post" /\ phase = "reading" /\ claims # "unread"
    /\ IF SomeGated(msgs)
       THEN End("challenged") /\ UNCHANGED pending
       ELSE End("serving") /\ pending' = [i \in DOMAIN msgs |-> [msg |-> i, whole |-> TRUE]]

\* The last answer was the last message's: the response, or a 202.
FinishPost ==
    /\ transport = "post" /\ phase = "serving" /\ pending = <<>>
    /\ End("over") /\ UNCHANGED pending

-----------------------------------------------------------------------------

\* stdin is a row of symbols: each message's own and a newline after it.
Ends(i) == i + Cardinality((1 .. i) \ long) + Long * Cardinality((1 .. i) \cap long)
Input == IF closed THEN Ends(Len(msgs)) ELSE Ends(Len(msgs)) - 1

\* What the buffer makes of the text between b and the newline of line i.
Line(b, i) == [msg |-> i, whole |-> b = Ends(i - 1)]

\* The lines whose newline is among the symbols up to t.
Completed(t) == {i \in 1 .. Len(msgs) : fed < Ends(i) /\ Ends(i) <= t}

Least(S) == CHOOSE i \in S : \A j \in S : i <= j
Most(S) == CHOOSE i \in S : \A j \in S : j <= i

\* Faulty variant for sensitivity runs: the newline that ends a long line
\* does not end the discarding of it quietly: its tail is handed on.
TailToo(S) == S

\* A newline ends what is being discarded; every other line is handed on.
Kept(S) == IF discarding THEN S \ {Least(S)} ELSE S

LineOf(i, first) == Line(IF i = first THEN from ELSE Ends(i - 1), i)

\* push: a chunk of stdin, when the lines of the one before are handled.
Chunk(t) ==
    /\ transport = "stdio" /\ phase = "reading" /\ pending = <<>>
    /\ t \in fed + 1 .. Input
    /\ LET lines == Completed(t)
           base == IF lines = {} THEN from ELSE Ends(Most(lines))
           dropping == discarding /\ lines = {}
           over == capped /\ t - base > MaxLine
       IN  /\ pending' = IF lines = {} THEN <<>>
                         ELSE LET kept == Kept(lines)
                                  shift == IF kept = {} THEN 0 ELSE Least(kept) - 1
                              IN  [n \in 1 .. Cardinality(kept) |->
                                      LineOf(n + shift, Least(lines))]
           /\ from' = IF over THEN t ELSE base
           /\ discarding' = (dropping \/ over)
           /\ errors' = IF over /\ ~dropping THEN errors + 1 ELSE errors
    /\ fed' = t
    /\ UNCHANGED <<served, inputVars, claims, phase, answers, handled>>

\* flush: stdin has ended, and the last line may have had no newline.
EndOfInput ==
    /\ transport = "stdio" /\ phase = "reading" /\ pending = <<>> /\ fed = Input
    /\ phase' = "serving"
    /\ pending' = IF from < fed /\ ~discarding
                  THEN <<Line(from, Len(msgs))>> ELSE <<>>
    /\ from' = fed /\ discarding' = FALSE
    /\ UNCHANGED <<served, inputVars, claims, fed, errors, answers, handled>>

FinishStdio ==
    /\ transport = "stdio" /\ phase = "serving" /\ pending = <<>>
    /\ End("over") /\ UNCHANGED pending

-----------------------------------------------------------------------------

First == Head(pending)
Current == msgs[First.msg]

Settled(answered) ==
    /\ pending' = Tail(pending)
    /\ answers' = IF answered THEN Append(answers, First.msg) ELSE answers
    /\ handled' = Append(handled, First.msg)
    /\ UNCHANGED <<inputVars, claims, phase, lineVars>>

Whole == pending # <<>> /\ First.whole

\* The rest of a line, if the buffer dropped the beginning, would be no JSON.
HandleGarbled ==
    /\ pending # <<>> /\ (First.whole => Current.type = "garbled")
    /\ pending' = Tail(pending)
    /\ errors' = errors + 1
    /\ handled' = IF First.whole THEN Append(handled, First.msg) ELSE handled
    /\ UNCHANGED <<served, inputVars, claims, phase, fed, from, discarding, answers>>

\* handleMessage answers, or says nothing, by itself.
HandleSimple ==
    /\ Whole /\ Current.type \in Simple
    /\ Settled(Answered(Current))
    /\ UNCHANGED served

\* handleMessage throws: the POST fails as a whole, or serveStdio ends.
Escape ==
    /\ Uncaught(Current)
    /\ phase' = "failed" /\ pending' = <<>>
    /\ UNCHANGED <<served, inputVars, claims, lineVars, answers, handled>>

\* The arguments are nothing a template can be filled in from.
CannotRender == Whole /\ Current.type = "prompt" /\ Escape

\* The gate, again, for the one message: its challenge would end the POST.
\* callOperation: a request built for the operation goes through its route,
Dispatch ==
    /\ Whole /\ Dispatched(Current) /\ stage[Current.call] = "idle"
    /\ IF Gated(Current.call)
       THEN /\ phase' = "challenged" /\ pending' = <<>>
            /\ UNCHANGED <<served, inputVars, claims, lineVars, answers, handled>>
       ELSE Route(Current.call, PrincipalFor(Current.call)) /\ UNCHANGED mcpVars

\* or cannot be built from the arguments, which is an answer to a tool call,
CannotBuild ==
    /\ Whole /\ Dispatched(Current)
    /\ stage[Current.call] = "idle" /\ ~Gated(Current.call)
    /\ \/ Current.type = "tool" /\ Settled(TRUE) /\ UNCHANGED served
       \/ Escape

\* and its status, whatever it is, makes the answer, if it can be read back.
Respond ==
    /\ Whole /\ Dispatched(Current)
    /\ status[Current.call] # 0
    /\ \/ Settled(TRUE) /\ UNCHANGED served
       \/ Escape

Mcp ==
    \/ \E p \in Principals : ResolveBearer(p)
    \/ RefusePost \/ GatePost \/ FinishPost
    \/ \E t \in 1 .. Input : Chunk(t)
    \/ EndOfInput \/ FinishStdio
    \/ HandleGarbled \/ HandleSimple \/ CannotRender
    \/ Dispatch \/ CannotBuild \/ Respond

McpInit ==
    /\ RoutesInit
    /\ transport \in {"post", "stdio"}
    /\ auth \in BOOLEAN /\ capped \in BOOLEAN
    /\ msgs \in Seq(Message) /\ \A i \in DOMAIN msgs : Sensible(msgs[i])
    /\ \A i, j \in DOMAIN msgs :
          (i # j /\ Dispatched(msgs[i]) /\ Dispatched(msgs[j])) => msgs[i].call # msgs[j].call
    /\ long \in SUBSET DOMAIN msgs /\ closed \in BOOLEAN
    /\ msgs = <<>> => closed
    /\ claims = "unread" /\ phase = "reading"
    /\ fed = 0 /\ from = 0 /\ discarding = FALSE
    /\ pending = <<>> /\ answers = <<>> /\ errors = 0 /\ handled = <<>>

\* Requests of other clients, straight to the routes, behind a pipeline that
\* found them some principal.
Direct(c) ==
    /\ c \notin CalledBy(msgs)
    /\ \E p \in Principals : Route(c, p)
    /\ UNCHANGED mcpVars

McpNext ==
    \/ \E c \in Calls :
          \/ Direct(c)
          \/ (Handle(c) \/ LibraryCall(c)) /\ UNCHANGED mcpVars
    \/ Mcp

McpSpec == McpInit /\ [][McpNext]_vars

-----------------------------------------------------------------------------

McpTypeOK ==
    /\ RoutesTypeOK
    /\ transport \in {"post", "stdio"}
    /\ auth \in BOOLEAN /\ capped \in BOOLEAN /\ closed \in BOOLEAN
    /\ msgs \in Seq(Message) /\ long \subseteq DOMAIN msgs
    /\ claims \in {"unread"} \cup Principals
    /\ phase \in {"reading", "serving", "challenged", "refused", "failed", "over"}
    /\ fed \in Nat /\ from \in 0 .. fed /\ discarding \in BOOLEAN /\ errors \in Nat
    /\ pending \in Seq([msg : DOMAIN msgs, whole : BOOLEAN])
    /\ answers \in Seq(DOMAIN msgs) /\ handled \in Seq(DOMAIN msgs)

\* A POST answered with a challenge has run nothing, however late in its
\* batch the message stands that has no right to be there (MCP-CORE-02), and
\* nothing ever runs on a bearer that does not carry it.
ChallengedRanNothing ==
    \A c \in CalledBy(msgs) :
        stage[c] # "idle" => phase # "challenged" /\ ~Gated(c)

Increasing(s) == \A i, j \in DOMAIN s : i < j => s[i] < s[j]

\* The messages nothing handled.
Unhandled == {i \in DOMAIN msgs : \A n \in DOMAIN handled : handled[n] # i}

\* Message i was the end of it: all before it were handled, or were too long
\* to be kept, and nothing behind it was, or has run.
StoppedAt(i) ==
    /\ Uncaught(msgs[i])
    /\ \A n \in DOMAIN handled : handled[n] < i
    /\ \A j \in Unhandled : j < i => transport = "stdio" /\ j \in long
    /\ \A j \in DOMAIN msgs :
          j > i /\ Dispatched(msgs[j]) => stage[msgs[j].call] = "idle"

\* Every message is handled once, in the order sent, however stdin is cut
\* into chunks and whatever is dropped beside it; the answers are those of the
\* messages that have one, and tell what their operations did; a line too
\* long to be kept is a parse error, and it alone.  A POST or a session on
\* stdin ends early over a resource or a prompt only: a tool call that fails,
\* at whatever step, leaves those behind it their turn.
AnsweredInOrder ==
    /\ Increasing(handled)
    /\ Increasing(answers) /\ ToSet(answers) = {i \in ToSet(handled) : Answered(msgs[i])}
    /\ \A c \in Calls : AnsweredTruly(c)
    /\ (phase = "over" /\ transport = "post") => Unhandled = {}
    /\ (phase = "over" /\ transport = "stdio") =>
          LET garbled == {n \in DOMAIN handled : msgs[handled[n]].type = "garbled"}
          IN  /\ Unhandled \subseteq long
              /\ errors = Cardinality(Unhandled) + Cardinality(garbled)
    /\ phase = "failed" => \E i \in DOMAIN msgs : StoppedAt(i)
=============================================================================
