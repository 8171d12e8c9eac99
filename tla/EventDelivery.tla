--------------------------- MODULE EventDelivery ---------------------------
(***************************************************************************)
(* What the event framework promises its users, with nothing said about    *)
(* how: an event becomes durable when the transaction that raised it       *)
(* commits, only durable events are ever delivered to Kafka, and every     *)
(* durable event that Kafka accepts is delivered at least once.            *)
(***************************************************************************)
CONSTANTS Event,     \* the event identifiers (UUIDs) an aggregate may raise
          Poison     \* the events Kafka never accepts

VARIABLES committed,   \* the events of committed transactions
          delivered    \* the events that are on their Kafka topic

vars == <<committed, delivered>>

TypeOK == /\ committed \subseteq Event
          /\ delivered \subseteq Event

Init == committed = {} /\ delivered = {}

\* A transaction that raised the events S commits.
Commit(S) == /\ committed' = committed \cup S
             /\ UNCHANGED delivered

\* A durable event reaches its topic.
Deliver(e) == /\ e \in committed \ delivered
              /\ delivered' = delivered \cup {e}
              /\ UNCHANGED committed

Next == \/ \E S \in SUBSET (Event \ committed) : Commit(S)
        \/ \E e \in Event : Deliver(e)

Safety == Init /\ [][Next]_vars

Spec == Safety /\ \A e \in Event \ Poison : WF_vars(Deliver(e))

\* Nothing reaches Kafka that the database did not commit.
OnlyDurableDelivered == delivered \subseteq committed
=============================================================================
