--------------------------- MODULE MCSignedRequests ---------------------------
(* SignedRequests on a small instance, in two parts: every nonce store with   *)
(* a key that is simply there, and every provider where no nonce is asked    *)
(* for.                                                                      *)
EXTENDS SignedRequests, TLC, FiniteSets

V == INSTANCE Configuration

\* The window is one a service may be started with.
ASSUME WindowAccepted ==
    V!WindowFits([signing |-> {[window |-> Window, replaySafe |-> {}, nonceFor |-> {}]}])

\* Clocks as far apart as they may be, or right.
Drifts == {d \in [Servers -> {-MaxDrift, MaxDrift}] : TRUE} \cup {[h \in Servers |-> 0]}

\* At most one copy differs, in one part, or in its header and its query.
Respelt == [AsSigned EXCEPT !["authorization"] = "respelled", !["query"] = "respelled"]
Copies == {Respelt} \cup
    {[AsSigned EXCEPT ![p] = t] : p \in {"authorization", "headers", "path", "body"},
                                  t \in {"signed", "changed"}}
              \cup {[AsSigned EXCEPT !["path"] = "respelled"]}

OneCopyDiffers ==
    /\ copy \in [Requests -> Copies]
    /\ \E r \in Requests : \A s \in Requests \ {r} : copy[s] = AsSigned

StoreVaries ==
    /\ provider = "env" /\ material
    /\ signedAt = 0 /\ drift \in Drifts
    /\ policy = "tracked" \/ (store = "none" /\ policy # "exempt")

ProviderVaries ==
    /\ copy = [r \in Requests |-> AsSigned]
    /\ store = "none" /\ policy = "exempt"
    /\ signedAt = 0 /\ drift = [h \in Servers |-> 0]

\* A key of the environment is there, and takes no time.
EnvIsThere ==
    provider = "env" /\ policy # "exempt" =>
       /\ material'
       /\ \A r \in Requests : lookup'[r] # "failed"
       /\ now' # now => \A r \in Requests : stage[r] # "arrived"

MCInit == OneCopyDiffers /\ Init /\ (StoreVaries \/ ProviderVaries)

MCSpec == MCInit /\ [][Next]_vars

Symmetry == Permutations(Requests) \cup Permutations(Servers)
=============================================================================
