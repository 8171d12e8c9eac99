------------------------------ MODULE MCUsers ------------------------------
(* One user, two handlers, one avatar and one role, for TLC. *)
EXTENDS Users, TLC

CONSTANTS h1, h2, student, bio1

MCHandlers == {h1, h2}
MCCalls == {[kind |-> "create", role |-> None], [kind |-> "create", role |-> student],
            [kind |-> "assign", roles |-> {student}], [kind |-> "profile", bio |-> bio1]}
MCSymmetry == Permutations(MCHandlers)
=============================================================================
