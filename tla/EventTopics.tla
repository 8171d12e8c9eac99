------------------------------ MODULE EventTopics ------------------------------
(***************************************************************************)
(* EventTopics: the topics a consumer group subscribes to, and its members *)
(* (kafka/config.py; get_topic_name gives every event type a topic).       *)
(***************************************************************************)
EXTENDS Naturals, Sequences, FiniteSets

CONSTANTS Event,      \* the events on the topics
          Partition,  \* the partitions of the topics
          Home,       \* event |-> the partition its key hashes to
          MaxCopies,  \* how often an event may be on its topic (bound)
          Consumer,   \* the processes of the group
          None        \* nobody, nothing

ASSUME HomeAssumption == Home \in [Event -> Partition]
ASSUME CopiesAssumption == MaxCopies \in Nat

\* A message is a place in a partition.
At(p, i) == [partition |-> p, offset |-> i]
Place == [partition : Partition, offset : Nat \ {0}]

ASSUME NobodyAssumption == None \notin Consumer /\ None \notin Place
=============================================================================
