------------------------------ MODULE MCOutbox ------------------------------
(***************************************************************************)
(* Instances of Outbox for TLC.                                            *)
(***************************************************************************)
EXTENDS Outbox, TLC

\* Events that Kafka accepts are interchangeable, and so are requests.
Symmetry == Permutations(Event \ Poison) \cup Permutations(Request)
=============================================================================
