------------------------------- MODULE Outbox -------------------------------
(***************************************************************************)
(* The transactional outbox: units of work (Transactional, the repository  *)
(* base class and OutboxRepository) write event rows in the transaction    *)
(* that changes the aggregate, and OutboxPublisher.publish_once moves      *)
(* committed rows to Kafka, in any number of processes at once.            *)
(*                                                                         *)
(* A publisher is either a poller (outbox_beat.py, OutboxPublisher.start)  *)
(* or the fire-and-forget task that a web request spawns after its commit. *)
(* The task a request spawns carries the request's identifier.             *)
(*                                                                         *)
(* Abstracted: payloads, serialisation and logging; retry_count, which is  *)
(* written but never read; the AIOKafka producer behind publish_dict,      *)
(* which module KafkaProducer models and which shows here only as the set  *)
(* of outcomes a call can have.                                            *)
(***************************************************************************)
EXTENDS Naturals, FiniteSets

CONSTANTS Event,       \* event identifiers
          Poison,      \* the events Kafka rejects every time
          Request,     \* units of work in a process with a registered publisher
          Activity,    \* units of work in a process without one (the worker)
          Beat,        \* polling publisher processes
          BatchSize,   \* OutboxPublisher.batch_size
          Fault,       \* the kinds of fault this instance suffers
          MaxFaults,   \* how many faults a behaviour may contain
          None         \* no event

Publisher == Beat \cup Request
Unit == Request \cup Activity
FaultKind == {"crash", "connection", "statement", "lostAck"}

ASSUME PoisonAssumption == Poison \subseteq Event
ASSUME ProcessAssumption == /\ Beat \cap Request = {}
                            /\ Request \cap Activity = {}
ASSUME BatchAssumption == BatchSize \in Nat \ {0}
ASSUME FaultAssumption == Fault \subseteq FaultKind /\ MaxFaults \in Nat
ASSUME NoneAssumption == None \notin Event

VARIABLES
  unit,       \* unit of work |-> where its transaction is
  flushed,    \* unit of work |-> the rows it has flushed (and collected)
  row,        \* event |-> status of its committed outbox row
  createdAt,  \* event |-> the created_at of its row, 0 before it is saved
  clock,      \* the last created_at given out
  pc,         \* publisher |-> where publish_once is
  held,       \* publisher |-> the rows its SELECT ... FOR UPDATE returned
  todo,       \* publisher |-> those it has not handled yet
  marked,     \* publisher |-> those its open transaction set to PUBLISHED
  current,    \* publisher |-> the event whose send has just returned
  result,     \* publisher |-> what publish_dict returned for it
  connected,  \* publisher |-> its database connection is alive
  copies,     \* event |-> how many copies are on its Kafka topic
  faults      \* how many faults have happened

txVars == <<unit, flushed, createdAt, clock>>
pubVars == <<pc, held, todo, marked, current, result, connected>>
vars == <<txVars, row, pubVars, copies, faults>>

-----------------------------------------------------------------------------
\* The events of committed transactions.
Committed == UNION {flushed[t] : t \in {u \in Unit : unit[u] = "committed"}}

\* The rows some live transaction of a publisher has locked.
Locked == UNION {held[p] : p \in {q \in Publisher : connected[q]}}

\* Mutants of Claimable: the row lock, or the status filter, is forgotten.
ClaimableUnlocked == {e \in Event : row[e] = "PENDING"}
ClaimableAnyStatus == {e \in Event : row[e] # "none"} \ Locked

\* The rows SELECT ... FOR UPDATE SKIP LOCKED may return.
Claimable == {e \in Event : row[e] = "PENDING"} \ Locked

TypeOK ==
  /\ unit \in [Unit -> {"idle", "active", "committed", "rolledBack"}]
  /\ flushed \in [Unit -> SUBSET Event]
  /\ row \in [Event -> {"none", "PENDING", "PUBLISHED"}]
  /\ createdAt \in [Event -> Nat]
  /\ clock \in Nat
  /\ pc \in [Publisher -> {"off", "ready", "sending", "sent"}]
  /\ held \in [Publisher -> SUBSET Event]
  /\ todo \in [Publisher -> SUBSET Event]
  /\ marked \in [Publisher -> SUBSET Event]
  /\ current \in [Publisher -> Event \cup {None}]
  /\ \A p \in Publisher : pc[p] = "sent" => current[p] # None
  /\ result \in [Publisher -> {"none", "acked", "refused"}]
  /\ connected \in [Publisher -> BOOLEAN]
  /\ copies \in [Event -> Nat]
  /\ faults \in Nat

Init ==
  /\ unit = [t \in Unit |-> "idle"]
  /\ flushed = [t \in Unit |-> {}]
  /\ row = [e \in Event |-> "none"]
  /\ createdAt = [e \in Event |-> 0]
  /\ clock = 0
  /\ pc = [p \in Publisher |-> IF p \in Beat THEN "ready" ELSE "off"]
  /\ held = [p \in Publisher |-> {}]
  /\ todo = [p \in Publisher |-> {}]
  /\ marked = [p \in Publisher |-> {}]
  /\ current = [p \in Publisher |-> None]
  /\ result = [p \in Publisher |-> "none"]
  /\ connected = [p \in Publisher |-> FALSE]
  /\ copies = [e \in Event |-> 0]
  /\ faults = 0

\* Fault k happens n times over; MaxFaults bounds the behaviour.
Suffer(k, n) == /\ k \in Fault
                /\ faults + n <= MaxFaults
                /\ faults' = faults + n

-----------------------------------------------------------------------------
(* The unit of work.                                                       *)

\* A @Transactional method starts outside a managed transaction.
Begin(t) ==
  /\ unit[t] = "idle"
  /\ unit' = [unit EXCEPT ![t] = "active"]
  /\ UNCHANGED <<flushed, createdAt, clock, row, pubVars, copies, faults>>

\* Mutant of FlushEvent: the row is written outside the open transaction.
FlushOutsideTx(t, e) ==
  /\ unit[t] = "active"
  /\ createdAt[e] = 0
  /\ flushed' = [flushed EXCEPT ![t] = @ \cup {e}]
  /\ clock' = clock + 1
  /\ createdAt' = [createdAt EXCEPT ![e] = clock + 1]
  /\ row' = [row EXCEPT ![e] = "PENDING"]
  /\ UNCHANGED <<unit, pubVars, copies, faults>>

\* A repository's save flushes an event of the aggregate: its row is written
\* in the open transaction and the event joins the collected ones.
FlushEvent(t, e) ==
  /\ unit[t] = "active"
  /\ createdAt[e] = 0
  /\ flushed' = [flushed EXCEPT ![t] = @ \cup {e}]
  /\ clock' = clock + 1
  /\ createdAt' = [createdAt EXCEPT ![e] = clock + 1]
  /\ UNCHANGED <<unit, row, pubVars, copies, faults>>

\* The post-commit task is created if events were collected and the process
\* has a publisher.
FirePublishOnce(t) ==
  IF t \in Request /\ flushed[t] # {}
  THEN pc' = [pc EXCEPT ![t] = "ready"]
  ELSE UNCHANGED pc

\* Mutant of MakeDurable: the status is spelt differently from the filter's.
MakeDurableMisspelt(t) ==
  /\ unit[t] = "active"
  /\ unit' = [unit EXCEPT ![t] = "committed"]
  /\ row' = [e \in Event |-> IF e \in flushed[t] THEN "pending" ELSE row[e]]
  /\ UNCHANGED <<flushed, createdAt, clock, held, todo, marked, current,
                 result, connected, copies>>

\* Every flushed row becomes visible at once.
MakeDurable(t) ==
  /\ unit[t] = "active"
  /\ unit' = [unit EXCEPT ![t] = "committed"]
  /\ row' = [e \in Event |-> IF e \in flushed[t] THEN "PENDING" ELSE row[e]]
  /\ UNCHANGED <<flushed, createdAt, clock, held, todo, marked, current,
                 result, connected, copies>>

\* session.commit() returns.
Commit(t) ==
  /\ MakeDurable(t)
  /\ FirePublishOnce(t)
  /\ UNCHANGED faults

\* The database commits, but the process dies or the acknowledgement is lost
\* before the post-commit task exists.
CommitUnseen(t) ==
  /\ MakeDurable(t)
  /\ Suffer("crash", 1)
  /\ UNCHANGED pc

\* The method, a flush or the commit raises, or the process dies.
Rollback(t) ==
  /\ unit[t] = "active"
  /\ unit' = [unit EXCEPT ![t] = "rolledBack"]
  /\ flushed' = [flushed EXCEPT ![t] = {}]
  /\ UNCHANGED <<createdAt, clock, row, pubVars, copies, faults>>

-----------------------------------------------------------------------------
(* One call of publish_once.                                               *)

\* The oldest rows, at most BatchSize of them, that nobody has locked.
IsBatch(S) ==
  /\ S \subseteq Claimable
  /\ Cardinality(S) <= BatchSize
  /\ S # Claimable => Cardinality(S) = BatchSize
  /\ \A e \in S, f \in Claimable \ S : createdAt[e] < createdAt[f]

Claim(p) ==
  /\ pc[p] = "ready"
  /\ \E S \in SUBSET Claimable :
        /\ IsBatch(S)
        /\ S # {}
        /\ held' = [held EXCEPT ![p] = S]
        /\ todo' = [todo EXCEPT ![p] = S]
  /\ pc' = [pc EXCEPT ![p] = "sending"]
  /\ connected' = [connected EXCEPT ![p] = TRUE]
  /\ UNCHANGED <<txVars, row, marked, current, result, copies, faults>>

\* Where a publisher is once publish_once has ended, however it ended.
Rest(p) == IF p \in Beat THEN "ready" ELSE "off"

\* publish_once ends: the transaction is over and its locks are released.
EndTask(p) ==
  /\ pc' = [pc EXCEPT ![p] = Rest(p)]
  /\ held' = [held EXCEPT ![p] = {}]
  /\ todo' = [todo EXCEPT ![p] = {}]
  /\ marked' = [marked EXCEPT ![p] = {}]
  /\ current' = [current EXCEPT ![p] = None]
  /\ result' = [result EXCEPT ![p] = "none"]
  /\ connected' = [connected EXCEPT ![p] = FALSE]

\* No pending row: the task returns 0. (A poller just sleeps again.)
FindNothing(p) ==
  /\ pc[p] = "ready" /\ p \in Request
  /\ Claimable = {}
  /\ EndTask(p)
  /\ UNCHANGED <<txVars, row, copies, faults>>

\* publish_dict returns r for the oldest unhandled event, having put n
\* copies of it on the topic.
Send(p, e, r, n) ==
  /\ pc[p] = "sending"
  /\ e \in todo[p]
  /\ \A f \in todo[p] : createdAt[e] <= createdAt[f]
  /\ pc' = [pc EXCEPT ![p] = "sent"]
  /\ current' = [current EXCEPT ![p] = e]
  /\ result' = [result EXCEPT ![p] = r]
  /\ copies' = [copies EXCEPT ![e] = @ + n]
  /\ UNCHANGED <<txVars, row, held, todo, marked, connected>>

SendOk(p, e) == e \notin Poison /\ Send(p, e, "acked", 1) /\ UNCHANGED faults

\* The broker is down, rejects the message, or the producer cannot start.
SendFails(p, e) == Send(p, e, "refused", 0) /\ UNCHANGED faults

\* An append whose acknowledgement is lost: publish_dict resets the producer
\* and sends again, and the second attempt succeeds or fails in either way.
SendUnacked(p, e) ==
  /\ e \notin Poison
  /\ \/ Send(p, e, "acked", 2) /\ Suffer("lostAck", 1)
     \/ Send(p, e, "refused", 1) /\ Suffer("lostAck", 1)
     \/ Send(p, e, "refused", 2) /\ Suffer("lostAck", 2)

\* Mutants of Record: a refused event is marked too, or is tried again before
\* the rest of the batch.
RecordAlways(p) ==
  /\ pc[p] = "sent" /\ connected[p]
  /\ pc' = [pc EXCEPT ![p] = "sending"]
  /\ todo' = [todo EXCEPT ![p] = @ \ {current[p]}]
  /\ marked' = [marked EXCEPT ![p] = @ \cup {current[p]}]
  /\ current' = [current EXCEPT ![p] = None]
  /\ result' = [result EXCEPT ![p] = "none"]
  /\ UNCHANGED <<txVars, row, held, connected, copies, faults>>

RecordInsisting(p) ==
  /\ pc[p] = "sent" /\ connected[p]
  /\ pc' = [pc EXCEPT ![p] = "sending"]
  /\ todo' = [todo EXCEPT ![p] = IF result[p] = "acked" THEN @ \ {current[p]} ELSE @]
  /\ marked' = [marked EXCEPT ![p] = IF result[p] = "acked" THEN @ \cup {current[p]} ELSE @]
  /\ current' = [current EXCEPT ![p] = None]
  /\ result' = [result EXCEPT ![p] = "none"]
  /\ UNCHANGED <<txVars, row, held, connected, copies, faults>>

\* mark_as_published or increment_retry_count for the event just sent.
Record(p) ==
  /\ pc[p] = "sent" /\ connected[p]
  /\ pc' = [pc EXCEPT ![p] = "sending"]
  /\ todo' = [todo EXCEPT ![p] = @ \ {current[p]}]
  /\ marked' = [marked EXCEPT ![p] = IF result[p] = "acked" THEN @ \cup {current[p]} ELSE @]
  /\ current' = [current EXCEPT ![p] = None]
  /\ result' = [result EXCEPT ![p] = "none"]
  /\ UNCHANGED <<txVars, row, held, connected, copies, faults>>

\* mark_as_published raises although the connection survives: the except
\* branch counts a retry for an event that is on Kafka.
MarkFails(p) ==
  /\ pc[p] = "sent" /\ connected[p] /\ result[p] = "acked"
  /\ Suffer("statement", 1)
  /\ pc' = [pc EXCEPT ![p] = "sending"]
  /\ todo' = [todo EXCEPT ![p] = @ \ {current[p]}]
  /\ current' = [current EXCEPT ![p] = None]
  /\ result' = [result EXCEPT ![p] = "none"]
  /\ UNCHANGED <<txVars, row, held, marked, connected, copies>>

\* Mutant of CommitBatch: the session is closed without a commit.
CommitForgotten(p) ==
  /\ pc[p] = "sending" /\ todo[p] = {} /\ connected[p]
  /\ EndTask(p)
  /\ UNCHANGED <<txVars, row, copies, faults>>

\* The whole batch is handled: its marks become visible at once.
CommitBatch(p) ==
  /\ pc[p] = "sending" /\ todo[p] = {} /\ connected[p]
  /\ row' = [e \in Event |-> IF e \in marked[p] THEN "PUBLISHED" ELSE row[e]]
  /\ EndTask(p)
  /\ UNCHANGED <<txVars, copies, faults>>

\* The connection breaks: the database rolls the transaction back and
\* releases its locks, and the publisher has not noticed.
LoseConnection(p) ==
  /\ pc[p] \in {"sending", "sent"} /\ connected[p]
  /\ Suffer("connection", 1)
  /\ connected' = [connected EXCEPT ![p] = FALSE]
  /\ marked' = [marked EXCEPT ![p] = {}]
  /\ UNCHANGED <<txVars, row, pc, held, todo, current, result, copies>>

\* The next statement on the broken connection raises out of publish_once.
NoticeLoss(p) ==
  /\ ~connected[p]
  /\ \/ pc[p] = "sent"
     \/ pc[p] = "sending" /\ todo[p] = {}
  /\ EndTask(p)
  /\ UNCHANGED <<txVars, row, copies, faults>>

\* The process dies, or the task never runs or is cancelled.
Crash(p) ==
  /\ pc[p] # Rest(p)
  /\ Suffer("crash", 1)
  /\ EndTask(p)
  /\ UNCHANGED <<txVars, row, copies>>

-----------------------------------------------------------------------------
\* OutboxRepository.delete_published_events: housekeeping.
DeletePublishedEvents ==
  /\ \E S \in SUBSET {e \in Event : row[e] = "PUBLISHED"} :
        /\ S # {}
        /\ row' = [e \in Event |-> IF e \in S THEN "none" ELSE row[e]]
  /\ UNCHANGED <<txVars, pubVars, copies, faults>>

UnitStep(t) == \/ Begin(t) \/ Commit(t) \/ CommitUnseen(t) \/ Rollback(t)
               \/ \E e \in Event : FlushEvent(t, e)

PublisherStep(p) ==
  \/ Claim(p) \/ FindNothing(p) \/ Record(p) \/ MarkFails(p) \/ CommitBatch(p)
  \/ LoseConnection(p) \/ NoticeLoss(p) \/ Crash(p)
  \/ \E e \in Event : SendOk(p, e) \/ SendFails(p, e) \/ SendUnacked(p, e)

Next == \/ \E t \in Unit : UnitStep(t)
        \/ \E p \in Publisher : PublisherStep(p)
        \/ DeletePublishedEvents

Safety == Init /\ [][Next]_vars

\* A started publish_once runs on; a poller polls; a send that keeps being
\* tried while Kafka accepts the event is not refused for ever.
Fairness ==
  /\ \A p \in Publisher :
        /\ WF_vars(Record(p)) /\ WF_vars(CommitBatch(p)) /\ WF_vars(NoticeLoss(p))
        /\ WF_vars(\E e \in Event : SendOk(p, e) \/ SendFails(p, e))
  /\ \A b \in Beat : /\ WF_vars(Claim(b))
                     /\ \A e \in Event : SF_vars(SendOk(b, e))

Spec == Safety /\ Fairness

-----------------------------------------------------------------------------
\* No committed event is lost: until it is on Kafka its row is PENDING
\* (outbox_model.py, the purpose of the table).
NoEventLost == \A e \in Committed : row[e] = "PENDING" \/ copies[e] > 0

\* No phantom: what is on Kafka was committed, never the event of a
\* transaction that rolled back or is still open.
NoPhantomEvent == \A e \in Event : copies[e] > 0 => e \in Committed

\* Two publishers whose transactions are alive never work on the same row
\* (get_pending_events, FOR UPDATE SKIP LOCKED).
ExclusiveClaim ==
  \A p, q \in Publisher :
    (p # q /\ connected[p] /\ connected[q]) => held[p] \cap held[q] = {}

\* A publisher whose transaction is alive never works on a row that another
\* one has already published, deleted, or that was never committed.
ClaimIsFresh ==
  \A p \in Publisher : connected[p] => \A e \in held[p] : row[e] = "PENDING"

\* At least once does not degrade without cause: an event is on its topic at
\* most once more than the number of faults that have happened. Without
\* faults, delivery is exactly once.
DuplicatesNeedFaults == \A e \in Event : copies[e] <= 1 + faults

\* Every committed event that Kafka accepts reaches its topic, and its row
\* leaves PENDING, as long as rejected events cannot fill a batch.
AtLeastOnce ==
  \A e \in Event \ Poison : e \in Committed ~> copies[e] > 0

OutboxDrains ==
  \A e \in Event \ Poison : row[e] = "PENDING" ~> row[e] # "PENDING"

\* The outbox implements the abstract delivery service.
Delivery == INSTANCE EventDelivery WITH
              committed <- Committed,
              delivered <- {e \in Event : copies[e] > 0}

DeliverySpec == Delivery!Spec
=============================================================================
