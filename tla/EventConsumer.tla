---------------------------- MODULE EventConsumer ----------------------------
(***************************************************************************)
(* KafkaEventConsumer: the members of one consumer group, each running     *)
(* consume(handler), over the partitions of the topics they subscribe to.  *)
(* The messages of an aggregate share a partition; Kafka may hold several  *)
(* copies of an event (module Outbox).                                     *)
(*                                                                         *)
(* The broker's side of the group (partition log, committed offsets, the   *)
(* assignment) is modelled from how consumer.py uses aiokafka: manual      *)
(* commits of every position of the member's current assignment, 'earliest'*)
(* as the starting offset, and rebalances that run beside the handler.     *)
(*                                                                         *)
(* Abstracted: what the handler does with a message (Launchers says it),   *)
(* failed starts, which change nothing, and the sleeps.                    *)
(***************************************************************************)
EXTENDS EventTopics

VARIABLES
  log,        \* partition |-> its messages
  committed,  \* partition |-> how many of them the group has committed
  owner,      \* partition |-> the member it is assigned to
  position,   \* partition |-> how many of them its owner has been handed
  pc,         \* consumer |-> where consume is
  msg,        \* consumer |-> the message it is handling
  handed,     \* the messages whose handler has ended, somewhere, sometime
  raised,     \* those whose handler has only ever raised
  calm        \* no fault happens any more

groupVars == <<owner, position>>
handlerVars == <<pc, msg, handed, raised>>
vars == <<log, committed, groupVars, handlerVars, calm>>

Live == {c \in Consumer : pc[c] # "down"}

TypeOK ==
  /\ log \in [Partition -> Seq(Event)]
  /\ committed \in [Partition -> Nat]
  /\ owner \in [Partition -> Consumer \cup {None}]
  /\ position \in [Partition -> Nat]
  /\ pc \in [Consumer -> {"down", "polling", "handling", "handled"}]
  /\ msg \in [Consumer -> Place \cup {None}]
  /\ \A c \in Consumer : pc[c] = "handling" => msg[c] # None
  /\ handed \subseteq Place
  /\ raised \subseteq handed
  /\ calm \in BOOLEAN

Init ==
  /\ log = [p \in Partition |-> <<>>]
  /\ committed = [p \in Partition |-> 0]
  /\ owner = [p \in Partition |-> None]
  /\ position = [p \in Partition |-> 0]
  /\ pc = [c \in Consumer |-> "down"]
  /\ msg = [c \in Consumer |-> None]
  /\ handed = {}
  /\ raised = {}
  /\ calm = FALSE

\* The publisher puts a copy of an event on its topic.
Produce(e) ==
  /\ Cardinality({i \in 1..Len(log[Home[e]]) : log[Home[e]][i] = e}) < MaxCopies
  /\ log' = [log EXCEPT ![Home[e]] = Append(@, e)]
  /\ UNCHANGED <<committed, groupVars, handlerVars, calm>>

\* The group gives its partitions to the members G; the position of every
\* partition is fetched anew.
Assign(G) ==
  /\ owner' \in [Partition -> G]
  /\ position' = committed

\* start() succeeds: the process joins the group.
Start(c) ==
  /\ pc[c] = "down"
  /\ pc' = [pc EXCEPT ![c] = "polling"]
  /\ Assign(Live \cup {c})
  /\ UNCHANGED <<log, committed, msg, handed, raised, calm>>

\* The group rebalances: a member has left it, or has been slow.
Rebalance ==
  /\ Live # {}
  /\ ~calm \/ \E p \in Partition : owner[p] = None
  /\ Assign(Live)
  /\ UNCHANGED <<log, committed, handlerVars, calm>>

\* Mutant of Deliver: the offset is committed on delivery (auto commit).
DeliverCommitted(c, p) ==
  /\ pc[c] = "polling" /\ owner[p] = c
  /\ position[p] < Len(log[p])
  /\ position' = [position EXCEPT ![p] = @ + 1]
  /\ committed' = [committed EXCEPT ![p] = position[p] + 1]
  /\ pc' = [pc EXCEPT ![c] = "handling"]
  /\ msg' = [msg EXCEPT ![c] = At(p, position[p] + 1)]
  /\ UNCHANGED <<log, owner, handed, raised, calm>>

\* async for hands over the next message of an assigned partition.
Deliver(c, p) ==
  /\ pc[c] = "polling" /\ owner[p] = c
  /\ position[p] < Len(log[p])
  /\ position' = [position EXCEPT ![p] = @ + 1]
  /\ pc' = [pc EXCEPT ![c] = "handling"]
  /\ msg' = [msg EXCEPT ![c] = At(p, position[p] + 1)]
  /\ UNCHANGED <<log, committed, owner, handed, raised, calm>>

HandlerReturns(c) ==
  /\ pc[c] = "handling"
  /\ pc' = [pc EXCEPT ![c] = "handled"]
  /\ handed' = handed \cup {msg[c]}
  /\ raised' = raised \ {msg[c]}
  /\ UNCHANGED <<log, committed, groupVars, msg, calm>>

\* Mutant of HandlerRaises: the loop does not leave the message.
RaisesStuck(c) ==
  /\ pc[c] = "handling"
  /\ msg' = [msg EXCEPT ![c] = None]
  /\ UNCHANGED <<log, committed, groupVars, pc, handed, raised, calm>>

\* The handler raises something that is no KafkaError: the loop goes on with
\* the next message.
HandlerRaises(c) ==
  /\ pc[c] = "handling"
  /\ pc' = [pc EXCEPT ![c] = "polling"]
  /\ msg' = [msg EXCEPT ![c] = None]
  /\ handed' = handed \cup {msg[c]}
  /\ raised' = IF msg[c] \in handed THEN raised ELSE raised \cup {msg[c]}
  /\ UNCHANGED <<log, committed, groupVars, calm>>

\* Mutant of CommitPositions: the offset of the handled message is committed.
CommitMessage(c) ==
  committed' = [committed EXCEPT ![msg[c].partition] = msg[c].offset]

\* commit() without arguments: the positions of the current assignment.
CommitPositions(c) ==
  committed' = [p \in Partition |-> IF owner[p] = c THEN position[p] ELSE committed[p]]

Commit(c) ==
  /\ pc[c] = "handled"
  /\ CommitPositions(c)
  /\ pc' = [pc EXCEPT ![c] = "polling"]
  /\ msg' = [msg EXCEPT ![c] = None]
  /\ UNCHANGED <<log, groupVars, handed, raised, calm>>

\* The process, or only its consumer object, is gone from the group.
Leave(c) ==
  /\ pc' = [pc EXCEPT ![c] = "down"]
  /\ msg' = [msg EXCEPT ![c] = None]
  /\ owner' = [p \in Partition |-> IF owner[p] = c THEN None ELSE owner[p]]
  /\ position' = [p \in Partition |-> IF owner[p] = c THEN committed'[p] ELSE position[p]]
  /\ UNCHANGED <<log, handed, raised, calm>>

\* The commit raises a KafkaError, whether or not the broker has stored it;
\* the consumer is reset.
CommitFails(c) ==
  /\ pc[c] = "handled" /\ ~calm
  /\ CommitPositions(c) \/ UNCHANGED committed
  /\ Leave(c)

\* Polling raises and the consumer is reset, or the process dies anywhere.
Crash(c) ==
  /\ pc[c] # "down" /\ ~calm
  /\ UNCHANGED committed
  /\ Leave(c)

\* From here on nothing fails.
CalmDown == ~calm /\ calm' = TRUE /\ UNCHANGED <<log, committed, groupVars, handlerVars>>

ConsumerStep(c) ==
  \/ Start(c) \/ HandlerReturns(c) \/ HandlerRaises(c)
  \/ Commit(c) \/ CommitFails(c) \/ Crash(c)
  \/ \E p \in Partition : Deliver(c, p)

Next == \/ \E e \in Event : Produce(e)
        \/ \E c \in Consumer : ConsumerStep(c)
        \/ Rebalance
        \/ CalmDown

Safety == Init /\ [][Next]_vars

\* The processes restart, the group reassigns what nobody owns, a handler
\* ends, and faults stop one day.
Fairness ==
  /\ WF_vars(CalmDown) /\ WF_vars(Rebalance /\ \E p \in Partition : owner[p] = None)
  /\ \A c \in Consumer :
        /\ WF_vars(Start(c)) /\ WF_vars(Commit(c))
        /\ WF_vars(HandlerReturns(c) \/ HandlerRaises(c))
        /\ WF_vars(\E p \in Partition : Deliver(c, p))

Spec == Safety /\ Fairness

-----------------------------------------------------------------------------
\* At least once: a message is committed only after its handler has ended,
\* although one commit covers every partition of the member and the
\* assignment may change under the handler (consumer.py, commit after handler).
CommitCoversHandled ==
  \A p \in Partition : \A i \in 1..committed[p] : At(p, i) \in handed

\* No message is handed over for the first time before the one in front of it
\* (the order of an aggregate's events), whatever crashes and rebalances do.
HandedInOrder ==
  \A m \in handed : m.offset > 1 => At(m.partition, m.offset - 1) \in handed

\* A member that lost a partition never takes back what its new owner has
\* committed.
CommitsNeverRetreat ==
  [][\A p \in Partition : committed'[p] >= committed[p]]_committed

\* When faults stop, every message is handed to a handler.
EveryMessageHanded ==
  \A p \in Partition : \A i \in 1..(MaxCopies * Cardinality(Event)) :
    i <= Len(log[p]) ~> At(p, i) \in handed

\* A message whose handler raised is not committed and is tried again
\* (consumer.py, the comment in the except branch).
RaisedIsNotCommitted ==
  \A m \in raised : committed[m.partition] < m.offset
=============================================================================
