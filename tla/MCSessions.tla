----------------------------- MODULE MCSessions -----------------------------
EXTENDS Sessions, TLC

V == INSTANCE Configuration

\* The lifetimes are ones a service may be started with.
ASSUME TtlsAccepted == V!TtlsFit([idle |-> IdleTtl, absolute |-> {AbsoluteTtl}])

\* Session ids and requests are interchangeable.
Symmetry == Permutations(Sids) \cup Permutations(Requests)
=============================================================================
