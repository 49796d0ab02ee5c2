------------------------- MODULE MCCandidatePipeline -------------------------
(* Instances of CandidatePipeline for TLC.                                   *)
EXTENDS CandidatePipeline, TLC

CONSTANTS c1, c2

SymmetricCandidates == Permutations(Candidate)
=============================================================================
