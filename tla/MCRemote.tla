------------------------------ MODULE MCRemote ------------------------------
(* Instances of Remote for TLC.                                            *)
EXTENDS Remote, TLC

CONSTANTS s, p, w1, w2, j1, j2, j3

(* The snapshot loop s uploads and flushes, the CPU collector p uploads.   *)
OneFlusher == {s}
TwoCallers == {s, p}
TwoWorkers == {w1, w2}
ThreeJobs == {j1, j2, j3}
TwoJobs == {j1, j2}

WorkersAndJobs == Permutations(TwoWorkers) \cup Permutations(Jobs)
=============================================================================
