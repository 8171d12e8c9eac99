------------------------------- MODULE MCBlobs -------------------------------
(***************************************************************************)
(* Instances of Blobs for TLC: requests are interchangeable.               *)
(***************************************************************************)
EXTENDS Blobs, TLC

Symmetry == Permutations(Requests)
=============================================================================
