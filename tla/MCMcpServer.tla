---- MODULE MCMcpServer ----
(* McpServer on a small instance, in three parts. *)
EXTENDS McpServer

CONSTANTS One, Two, Other   \* the calls of the messages, and the one beside them

Tool(c) == [type |-> "tool", call |-> c]
Resource(c) == [type |-> "resource", call |-> c]
Plain(t) == [type |-> t]

Tools == <<Tool(One), Tool(Two)>>
Mixed == <<Plain("ping"), Tool(One), Resource(Two), Plain("junk")>>

Lines ==
    {<<Resource(Two), Plain("prompt"), Tool(One)>>,
     <<Plain("notification"), Plain("unknown"), Plain("garbled")>>}

Asked(o, p, q) == [c \in Calls |-> CASE c = One -> o [] c = Two -> p [] OTHER -> q]

\* The kinds in an order, so that a mix of three is chosen once.
Ranked == <<"create", "put", "update", "updateIf", "patch", "patchIf", "delete", "deleteIf">>

\* Hand-written code only: every mix of calls of the store.
Library ==
    /\ oc = FALSE /\ soft \in BOOLEAN /\ InitRow
    /\ op = [c \in Calls |-> "library"]
    /\ \E i, j, k \in DOMAIN Ranked :
          i <= j /\ j <= k /\ kind = Asked(Ranked[i], Ranked[j], Ranked[k])
    /\ isolated = FALSE /\ own = Calls
    /\ scheme = [c \in Calls |-> "anonymous"]
    /\ transport = "stdio" /\ msgs = <<>> /\ phase = "over"
    /\ auth = FALSE /\ capped = FALSE /\ long = {} /\ closed = TRUE

\* One POST: two operations, of every scheme, beside a third one.
Post ==
    /\ oc \in BOOLEAN /\ soft \in BOOLEAN /\ row \in {Absent, Live(1, {})}
    /\ \/ /\ msgs = Tools
          /\ \E o \in {"update", "create"}, p \in {"update", "put", "delete"} :
                op = Asked(o, p, "update")
          /\ scheme = Asked("oidc", "oidc", "anonymous")
          /\ isolated = FALSE /\ own = Calls
       \/ /\ msgs = Mixed
          /\ \E p \in {"read", "list"} : op = Asked("put", p, "delete")
          /\ \E s, t \in Schemes : scheme = Asked(s, t, "anonymous")
          /\ isolated \in BOOLEAN
          /\ own \in IF isolated THEN {Calls \ {c} : c \in Calls} ELSE {Calls}
    /\ kind = [c \in Calls |-> KindOf(op[c])]
    /\ transport = "post" /\ phase = "reading"
    /\ auth \in BOOLEAN /\ capped = FALSE /\ long = {} /\ closed = TRUE

\* Three lines on stdin, of any length.
Stdin ==
    /\ oc = FALSE /\ soft = FALSE /\ row = Absent
    /\ op = Asked("put", "read", "read")
    /\ kind = [c \in Calls |-> KindOf(op[c])]
    /\ isolated = FALSE /\ own = Calls
    /\ scheme = Asked("anonymous", "oidc", "anonymous")
    /\ transport = "stdio" /\ msgs \in Lines /\ phase = "reading"
    /\ auth = FALSE /\ capped \in BOOLEAN
    /\ long \in SUBSET DOMAIN msgs /\ closed \in BOOLEAN

MCInit ==
    /\ Library \/ Post \/ Stdin
    /\ stage = [c \in Calls |-> "idle"]
    /\ principal = [c \in Calls |-> "none"]
    /\ status = [c \in Calls |-> 0]
    /\ pc = [c \in Calls |-> "idle"]
    /\ held = [c \in Calls |-> NoEnvelope] /\ reply = [c \in Calls |-> NoEnvelope]
    /\ claims = "unread"
    /\ fed = 0 /\ from = 0 /\ discarding = FALSE
    /\ pending = <<>> /\ answers = <<>> /\ errors = 0 /\ handled = <<>>

\* The request beside a POST has the principal its scope needs, and nothing
\* goes on beside the lines.
AnyCaller ==
    /\ stage'[Other] # "idle" =>
          principal'[Other] = IF isolated THEN "scoped" ELSE "none"
    /\ transport = "stdio" => stage'[Other] = "idle"

MCSpec == MCInit /\ [][McpNext]_vars
=============================================================================
