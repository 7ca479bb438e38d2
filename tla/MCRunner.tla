------------------------------ MODULE MCRunner ------------------------------
(* Two requests and an image; no request has a name the runner looks at, so   *)
(* they may be exchanged.                                                     *)
EXTENDS RunnerBatch, TLC
Symmetric == Permutations(Reqs)
=============================================================================
