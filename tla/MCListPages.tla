---- MODULE MCListPages ----
(* ListPages on a small instance. *)
EXTENDS ListPages

\* The filter's value and one other are all a filter tells apart, and without
\* a filter, one value.
MCInit ==
    /\ ListInit
    /\ config.want \in {AnyValue, "a"}
    /\ config.want = AnyValue => \A k \in Keys : rows[k] # "b"

\* Once the pagination is over nothing is left to observe; only Redis keeps
\* anything of an earlier write that a later one could upset.
Observed ==
    /\ phase \in {"idle", "reading"}
    /\ writes' = 2 => config.backend = "redis"

MCSpec == MCInit /\ [][ListNext]_listVars /\ WF_listVars(ReadStep)
=============================================================================
