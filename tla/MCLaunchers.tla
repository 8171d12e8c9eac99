------------------------------ MODULE MCLaunchers ------------------------------
(***************************************************************************)
(* Instances of Launchers for TLC.                                         *)
(***************************************************************************)
EXTENDS Launchers, TLC

CONSTANTS e1, e2, p1, w1, w2

\* Two events of one aggregate: the first has two workflows to start and one to
\* signal, the second none.
OneAggregate == (e1 :> p1) @@ (e2 :> p1)
Started == (e1 :> {w1, w2}) @@ (e2 :> {})
Signalled == (e1 :> {w1}) @@ (e2 :> {})
=============================================================================
