---------------------------- MODULE MCSubmission ----------------------------
(* Two processes, one with two worker threads.                              *)
EXTENDS Submission, TLC

CONSTANTS k1, b1, p1, p2, w1, w2, w3

TwoAndOne == w1 :> p1 @@ w2 :> p1 @@ w3 :> p2
=============================================================================
