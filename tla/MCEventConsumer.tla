--------------------------- MODULE MCEventConsumer ---------------------------
(***************************************************************************)
(* Instances of EventConsumer for TLC.                                     *)
(***************************************************************************)
EXTENDS EventConsumer, TLC

CONSTANTS e1, e2, e3, p1, p2

\* Two events of one aggregate and one of another.
TwoAggregates == (e1 :> p1) @@ (e2 :> p1) @@ (e3 :> p2)

Symmetry == Permutations(Consumer)
=============================================================================
