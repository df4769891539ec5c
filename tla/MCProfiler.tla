----------------------------- MODULE MCProfiler -----------------------------
(* Instances of Profiler for TLC.                                          *)
EXTENDS Profiler, TLC

CONSTANTS h1, h2, u1, u2

OneHandler == {h1}
TwoHandlers == {h1, h2}
OneUser == {u1}
TwoUsers == {u1, u2}
NoUsers == {}
TheSetters == {Coll, Loop}
TheCollectors == {Cpu, Default}

AlikeHandlers == Permutations(Handlers)
=============================================================================
