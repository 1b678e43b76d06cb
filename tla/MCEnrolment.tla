----------------------------- MODULE MCEnrolment -----------------------------
(***************************************************************************)
(* Enrolment on a small instance: the admitted algorithms and one that is  *)
(* not, the sizes on both sides of every check.                            *)
(***************************************************************************)
EXTENDS Enrolment, TLC

MCInputs ==
    [alg : {"EC", "RSA", "DSA"}, size : {256, 384, 521, 2048}, hasCN : BOOLEAN]

\* The requests are interchangeable.
RequestSymmetry == Permutations(Requests)

=============================================================================
