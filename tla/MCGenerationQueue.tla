-------------------------- MODULE MCGenerationQueue --------------------------
(* Instances of GenerationQueue for TLC.                                     *)
EXTENDS GenerationQueue, TLC

CONSTANTS j1, j2, p1, p2, w1, w2, c1, c2, none, noproc

(* One process with two worker threads.                                      *)
OneProcess == w1 :> p1 @@ w2 :> p1

(* Two processes with a worker thread each.                                  *)
TwoProcesses == w1 :> p1 @@ w2 :> p2

SymmetricCandidates == Permutations(Candidate)
=============================================================================
