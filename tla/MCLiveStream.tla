---------------------------- MODULE MCLiveStream ----------------------------
(* The live stream for TLC: record frames and a scoped resource one at a time,
   over a store with tombstones.                                              *)
EXTENDS LiveStream

MCInit == Init /\ (push => soft /\ ~scoped) /\ (scoped => soft)

MCSpec == MCInit /\ [][Next]_vars /\ Fairness
=============================================================================
