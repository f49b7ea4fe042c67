---- MODULE MCPipeline ----
(* Pipeline on a small instance: one request of every kind beside plain ones,   *)
(* and plain ones under configurations that lack something.                     *)
EXTENDS Pipeline

CONSTANT Probe   \* the request that may be anything

Plain(url) ==
    [url |-> url, preflight |-> FALSE, https |-> TRUE, body |-> "fits", cookie |-> "live",
     crossSite |-> FALSE, token |-> TRUE, signature |-> "s1", slot |-> "all"]

\* What no stage would read is as in a plain request.
Relevant(q) ==
    LET plain == Plain(q.url)
        op == Resolved[q.url]
    IN  /\ (q.preflight \/ ~q.https) =>
              q = [plain EXCEPT !.preflight = q.preflight, !.https = q.https]
        /\ op # "signed" => q.signature = plain.signature
        /\ op \notin {"read", "write"} => q.slot = plain.slot
        /\ Signed(op) => q.cookie = plain.cookie
        /\ op \in {"read", "signed", "signedRead", "none"} \/ q.cookie # "live" =>
              q.token = plain.token /\ q.crossSite = plain.crossSite
        /\ op # "write" => q.body \in {"none", "fits", "unsized"}
        /\ q.url # <<"GET", "notes", "home">>

Write == CHOOSE url \in Urls : Resolved[url] = "write"

Asked(q) ==
    [r \in Requests |->
        IF r = Probe THEN q ELSE Plain(IF Signed(Resolved[q.url]) THEN q.url ELSE Write)]

Policy300 == [window |-> 300, replaySafe |-> {}, nonceFor |-> {}]

Complete ==
    [stores |-> Stores, signing |-> {Policy300}, allowReplay |-> FALSE,
     oidc |-> {[named |-> TRUE, audience |-> TRUE, stateSecret |-> 32, tolerance |-> {60}]},
     hsts |-> Year, idle |-> 1800, absolute |-> {43200},
     origins |-> {"bare"}, salt |-> 32, requireSalt |-> TRUE,
     limits |-> {[for |-> l, capacity |-> 10, refill |-> 1] : l \in Limiters}]

\* One thing missing or out of bounds, or two that go together.
Lacking ==
    {[Complete EXCEPT !.stores = @ \ {s}] : s \in Stores}
    \cup {[Complete EXCEPT !.stores = @ \ {"nonce"}, !.allowReplay = TRUE,
                           !.signing = {[Policy300 EXCEPT !.nonceFor = N]}] :
             N \in SUBSET {"signedRead"}}
    \cup {[Complete EXCEPT !.signing = {[Policy300 EXCEPT !.window = w]}] : w \in {-1, 0}}
    \cup {[Complete EXCEPT !.signing = {[Policy300 EXCEPT !.replaySafe = {"signed"},
                                                         !.nonceFor = {"signedRead"}]}]}
    \cup {[Complete EXCEPT !.limits = {l \in @ : l.for = kept}] : kept \in Limiters}
    \cup {[Complete EXCEPT !.limits = {[l EXCEPT !.capacity = 0] : l \in @}]}

MCInit ==
    /\ \/ /\ config = Complete
          /\ req \in {Asked(q) : q \in {p \in Request : Relevant(p)}}
       \/ /\ config \in Lacking
          /\ req \in {Asked(Plain(url)) : url \in Urls}
    /\ Start

MCSpec == MCInit /\ [][Next]_vars

\* The record matters while the probe's policies are at work, and changes
\* then only.
Judging == record' # record => at[Probe] = "policyAgain"
=============================================================================
