--------------------------- MODULE MCKafkaProducer ---------------------------
(***************************************************************************)
(* Instances of KafkaProducer for TLC.                                     *)
(***************************************************************************)
EXTENDS KafkaProducer, TLC

Symmetry == Permutations(Client) \cup Permutations(Task)
=============================================================================
