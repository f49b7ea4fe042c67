---------------------------- MODULE CrudHandlers ----------------------------
(***************************************************************************)
(* The operations the code generator emits for a @persisted resource, and  *)
(* the route each is mounted on: validators, authorize, the handler, and   *)
(* the mapping of what it throws to a status.  They run over the store of  *)
(* DataStore.tla, beside hand-written code that calls that store itself.   *)
(*                                                                         *)
(* A handler awaits the store and the application's hooks, so an update,   *)
(* which reads the record and writes the body merged into it, is two       *)
(* steps.  Both happen in the caller's own scope: another owner's or       *)
(* tenant's record at the same id is another row, and not modelled.        *)
(***************************************************************************)
EXTENDS DataStore

VARIABLES
    oc,         \* @persisted(optimisticConcurrency), with a 409 modelled; fixed
    op,         \* the operation a call asks for; fixed
    isolated,   \* @persisted declares an owner or a tenant field; fixed
    own,        \* the calls whose caller is the record's owner or tenant; fixed
    scheme,     \* what each operation's caller must be; fixed
    stage,      \* of a call on its route
    principal,  \* whom the pipeline, or the MCP server, says the caller is
    status      \* the status a call was answered with, 0 before

declared == <<oc, op, isolated, own, scheme>>
routeVars == <<declared, stage, principal, status>>
served == <<callVars, routeVars>>

\* "library": hand-written code calls the store.
CrudOps == {"create", "put", "read", "update", "delete", "list"}
Operations == CrudOps \cup {"library"}

Schemes == {"anonymous", "oidc", "sigv4Hmac"}
Principals == {"none", "underscoped", "scoped"}
Stages == {"idle", "routed", "running", "merging", "over"}

Done == 200
Invalid == 400
Unauthorized == 401
Forbidden == 403
NotFound == 404
Conflict == 409
InternalError == 500

\* The store method behind an operation; the version of an update is the one
\* of the record the handler read, and a delete has none.
KindOf(o) ==
    CASE o = "update" -> IF oc THEN "updateIf" ELSE "update"
      [] o \in {"create", "put", "delete"} -> o
      [] OTHER -> "delete"

\* authorize(), emitted for every operation that has a scheme: the principal
\* holds what the operation requires.
Authorized(c) == scheme[c] = "anonymous" \/ principal[c] = "scoped"

Enter(c, s) ==
    /\ stage' = [stage EXCEPT ![c] = s]
    /\ UNCHANGED <<declared, principal, status>>

Answer(c, s) ==
    /\ stage' = [stage EXCEPT ![c] = "over"]
    /\ status' = [status EXCEPT ![c] = s]
    /\ UNCHANGED <<declared, principal>>

\* A request reaches its route, with the principal found for it.
Route(c, p) ==
    /\ op[c] \in CrudOps /\ stage[c] = "idle"
    /\ stage' = [stage EXCEPT ![c] = "routed"]
    /\ principal' = [principal EXCEPT ![c] = p]
    /\ UNCHANGED <<callVars, declared, status>>

\* The slot's middleware and the validators refuse a malformed input, and
\* authorize() a principal without the permission; only then the handler.
Validate(c) ==
    /\ stage[c] = "routed"
    /\ \/ Answer(c, Invalid)
       \/ /\ ~Authorized(c)
          /\ Answer(c, IF principal[c] = "none" THEN Unauthorized ELSE Forbidden)
       \/ Authorized(c) /\ Enter(c, "running")
    /\ UNCHANGED callVars

\* scopeFrom: the scope of the caller's principal is part of the row's key.
InScope(c) == isolated => c \in own

\* A resource with a scope has none for a caller without a principal.
NoPrincipal(c) == isolated /\ principal[c] = "none"

Running(c, o) ==
    op[c] = o /\ stage[c] = "running" /\ InScope(c) /\ ~NoPrincipal(c)

\* In another scope there is no such record: nothing to read, to update or to
\* delete, and what is stored is stored elsewhere.
ElsewhereItem(c) ==
    /\ stage[c] = "running" /\ ~InScope(c) /\ ~NoPrincipal(c)
    /\ Answer(c, IF op[c] \in {"read", "update", "delete"} THEN NotFound ELSE Done)
    /\ UNCHANGED callVars

\* The write took effect; the caller learns of it, unless the store's answer
\* is lost or what the handler does after it fails.
Concluded(c) == Answer(c, Done) \/ Answer(c, InternalError)

\* create: the id is a new UUID, so nothing was ever stored at it.
FreshId == row = Absent /\ \A d \in Calls : pc[d] # "ok"

CreateItem(c) ==
    /\ Running(c, "create") /\ FreshId
    /\ Create(c) /\ Concluded(c)

PutItem(c) ==
    /\ Running(c, "put")
    /\ Put(c) /\ Concluded(c)

\* read and list change nothing; a list answers with whatever page there is.
ReadItem(c) ==
    /\ Running(c, "read")
    /\ Answer(c, IF row.st = "live" THEN Done ELSE NotFound)
    /\ UNCHANGED callVars

ListItems(c) ==
    /\ Running(c, "list")
    /\ Answer(c, Done)
    /\ UNCHANGED callVars

\* update reads the record its body is merged into,
ReadExisting(c) ==
    /\ Running(c, "update")
    /\ IF row.st = "live"
       THEN /\ held' = [held EXCEPT ![c] = EnvelopeOf(row)]
            /\ pc' = [pc EXCEPT ![c] = IF kind[c] \in Guarded THEN "held" ELSE @]
            /\ Enter(c, "merging")
            /\ UNCHANGED <<soft, row, kind, reply>>
       ELSE Answer(c, NotFound) /\ UNCHANGED callVars

\* and writes it back over the version it read, or over whatever is there.
\* Without the modelled 409, and for a record gone in the meantime, what the
\* store throws is no error the router knows.
WriteBack(c) ==
    /\ op[c] = "update" /\ stage[c] = "merging"
    /\ \/ Update(c) /\ Concluded(c)
       \/ /\ Refuse(c)
          /\ Answer(c, IF pc'[c] = "conflict" /\ oc THEN Conflict ELSE InternalError)

DeleteItem(c) ==
    /\ Running(c, "delete")
    /\ \/ Delete(c) /\ Concluded(c)
       \/ /\ Refuse(c)
          /\ Answer(c, IF pc'[c] = "miss" THEN NotFound ELSE InternalError)

\* scopeFrom, a hook or the store fails before anything is written.
HandlerThrows(c) ==
    /\ stage[c] \in {"running", "merging"}
    /\ Answer(c, InternalError)
    /\ UNCHANGED callVars

\* Hand-written code calls the store.
LibraryCall(c) ==
    /\ op[c] = "library"
    /\ \/ Get(c) \/ Create(c) \/ Put(c) \/ Update(c) \/ Patch(c) \/ Delete(c)
       \/ Refuse(c)
    /\ UNCHANGED routeVars

Handle(c) ==
    \/ Validate(c) \/ ElsewhereItem(c)
    \/ CreateItem(c) \/ PutItem(c) \/ ReadItem(c) \/ ListItems(c)
    \/ ReadExisting(c) \/ WriteBack(c) \/ DeleteItem(c)
    \/ HandlerThrows(c)

RoutesInit ==
    /\ oc \in BOOLEAN
    /\ op \in [Calls -> Operations]
    /\ isolated \in BOOLEAN /\ own \in SUBSET Calls
    /\ scheme \in [Calls -> Schemes]
    /\ stage = [c \in Calls |-> "idle"]
    /\ principal = [c \in Calls |-> "none"]
    /\ status = [c \in Calls |-> 0]
    /\ CallsInit
    /\ \A c \in Calls : op[c] # "library" => kind[c] = KindOf(op[c])

\* Unlike DataStore's TypeOK: update's handler reads even where it is not
\* guarded.
CallsTypeOK ==
    /\ soft \in BOOLEAN /\ row \in Row
    /\ kind \in [Calls -> Kinds]
    /\ pc \in [Calls -> {"idle", "held"} \cup Outcomes]
    /\ held \in [Calls -> Envelope] /\ reply \in [Calls -> Envelope]

RoutesTypeOK ==
    /\ CallsTypeOK
    /\ oc \in BOOLEAN
    /\ op \in [Calls -> Operations]
    /\ isolated \in BOOLEAN /\ own \in SUBSET Calls
    /\ scheme \in [Calls -> Schemes]
    /\ stage \in [Calls -> Stages]
    /\ principal \in [Calls -> Principals]
    /\ status \in [Calls -> {0, Done, Invalid, Unauthorized, Forbidden, NotFound,
                             Conflict, InternalError}]

-----------------------------------------------------------------------------

\* What a caller was told is what happened: an operation answered with
\* success has taken effect, one refused has not, at whichever stage it was
\* refused (an internal error alone tells nothing), and a record is shown to
\* and changed for the owner's or the tenant's own callers only.
AnsweredTruly(c) ==
    /\ status[c] = Done =>
          op[c] \in {"read", "list"} \/ pc[c] = "ok" \/ (isolated /\ c \notin own)
    /\ status[c] \notin {0, Done, InternalError} => pc[c] # "ok"
    /\ (isolated /\ c \notin own /\ op[c] # "library") =>
          /\ pc[c] # "ok"
          /\ op[c] \in {"read", "update", "delete"} => status[c] # Done
=============================================================================
