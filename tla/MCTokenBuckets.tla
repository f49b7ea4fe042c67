---------------------------- MODULE MCTokenBuckets ----------------------------
(* TokenBuckets on a small instance. *)
EXTENDS TokenBuckets, TLC

V == INSTANCE Configuration

\* The bucket is one a service may be started with.
ASSUME BucketAccepted ==
    V!LimitsFit([limits |-> {[for |-> "perIp", capacity |-> Capacity, refill |-> Rate]}])

\* Clocks that are right, and clocks as far apart as they may be.
MCInit ==
    /\ BucketInit
    /\ \A c \in Callers : drift[c] # 0 =>
          \A d \in Callers \ {c} : drift[c] + drift[d] = 0 /\ drift[c] \in {-MaxDrift, MaxDrift}

MCSpec == MCInit /\ [][BucketNext]_bucketVars

\* A write comes at most a tick after its read.
Prompt == \A c \in Callers : call[c] = "writing" => now' <= readAt[c] + 1

\* Past a gap nothing is claimed.
Claimed == ~swapped /\ ~lagging

Symmetry == Permutations(Callers)
=============================================================================
