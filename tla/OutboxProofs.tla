---------------------------- MODULE OutboxProofs ----------------------------
(***************************************************************************)
(* Proofs about Outbox for any events, processes, batch size and faults.   *)
(*                                                                         *)
(* No safety invariant of Outbox is inductive alone. What makes them so is *)
(* the knowledge each publisher carries from one statement to the next:    *)
(* what it holds was committed, and what it has marked or seen             *)
(* acknowledged is on Kafka. Inv conjoins these facts.                     *)
(***************************************************************************)
EXTENDS Outbox, FiniteSetTheorems, TLAPS

\* An event that has a committed row, or a copy on Kafka, was committed.
RowsAreCommitted == \A e \in Event : row[e] # "none" => e \in Committed

\* What a publisher works on was committed, whatever became of its lock.
HeldAreCommitted == \A p \in Publisher : held[p] \subseteq Committed

\* todo and marked are parts of the claimed batch.
PartsOfBatch == \A p \in Publisher : /\ todo[p] \subseteq held[p]
                                     /\ marked[p] \subseteq held[p]

\* A publisher that holds a mark, or an acknowledgement, sent the event.
MarksAreSent ==
  \A p \in Publisher :
    /\ \A e \in marked[p] : copies[e] > 0
    /\ pc[p] = "sent" => current[p] \in held[p]
    /\ (pc[p] = "sent" /\ result[p] = "acked") => copies[current[p]] > 0

\* Only a live transaction holds marks.
MarksNeedConnection == \A p \in Publisher : ~connected[p] => marked[p] = {}

\* A publisher that is not at work has no transaction.
IdleHasNoTransaction ==
  \A p \in Publisher : pc[p] \in {"off", "ready"} => ~connected[p] /\ held[p] = {}

\* The post-commit task of a request starts after its commit.
TaskFollowsCommit ==
  \A t \in Request : unit[t] \in {"idle", "active"} => pc[t] = "off"

Inv == /\ TypeOK
       /\ IdleHasNoTransaction
       /\ TaskFollowsCommit
       /\ RowsAreCommitted
       /\ HeldAreCommitted
       /\ PartsOfBatch
       /\ MarksAreSent
       /\ MarksNeedConnection
       /\ NoEventLost
       /\ NoPhantomEvent
       /\ ExclusiveClaim
       /\ ClaimIsFresh

-----------------------------------------------------------------------------
USE DEF Publisher, Unit

\* The initial state is well typed.
LEMMA InitTypeOK == Init => TypeOK
BY ProcessAssumption, NoneAssumption DEF Init, TypeOK

\* Each step keeps the types of the unit-of-work variables and of the rows.
LEMMA UnitTypeOK ==
  ASSUME TypeOK, NEW t \in Unit, UnitStep(t)
  PROVE  TypeOK'
<1>1. CASE Begin(t)
  BY <1>1 DEF TypeOK, Begin, pubVars
<1>2. CASE \E e \in Event : FlushEvent(t, e)
  BY <1>2 DEF TypeOK, FlushEvent, pubVars
<1>3. CASE Commit(t)
  <2>1. /\ pc' \in [Publisher -> {"off", "ready", "sending", "sent"}]
        /\ \A p \in Publisher : pc'[p] = "sent" => pc[p] = "sent"
    BY <1>3 DEF TypeOK, Commit, FirePublishOnce
  <2>2. QED
    BY <1>3, <2>1 DEF TypeOK, Commit, MakeDurable
<1>4. CASE CommitUnseen(t)
  <2>1. faults' \in Nat
    BY <1>4 DEF TypeOK, CommitUnseen, Suffer
  <2>2. QED
    BY <1>4, <2>1 DEF TypeOK, CommitUnseen, MakeDurable
<1>5. CASE Rollback(t)
  BY <1>5 DEF TypeOK, Rollback, pubVars
<1>6. QED
  BY <1>1, <1>2, <1>3, <1>4, <1>5 DEF UnitStep

\* What the end of publish_once does to the publisher's own variables.
LEMMA EndTaskTypeOK ==
  ASSUME TypeOK, NEW p \in Publisher, EndTask(p)
  PROVE  /\ \A q \in Publisher : pc'[q] = "sent" => current'[q] # None
         /\ pc' \in [Publisher -> {"off", "ready", "sending", "sent"}]
         /\ held' \in [Publisher -> SUBSET Event]
         /\ todo' \in [Publisher -> SUBSET Event]
         /\ marked' \in [Publisher -> SUBSET Event]
         /\ current' \in [Publisher -> Event \cup {None}]
         /\ result' \in [Publisher -> {"none", "acked", "refused"}]
         /\ connected' \in [Publisher -> BOOLEAN]
BY DEF TypeOK, EndTask, Rest

\* One send, whatever its outcome.
LEMMA SendTypeOK ==
  ASSUME TypeOK, NEW p \in Publisher, NEW e \in Event, NEW r \in {"acked", "refused"},
         NEW n \in Nat, Send(p, e, r, n), faults' \in Nat
  PROVE  TypeOK'
BY NoneAssumption DEF TypeOK, Send, txVars

\* Every way a send can end is one call of publish_dict.
LEMMA SendOutcome ==
  ASSUME NEW p, NEW e, SendOk(p, e) \/ SendFails(p, e) \/ SendUnacked(p, e)
  PROVE  \E r \in {"acked", "refused"}, n \in Nat :
            /\ Send(p, e, r, n)
            /\ r = "acked" => n > 0
            /\ n > 0 => e \notin Poison
BY DEF SendOk, SendFails, SendUnacked

\* Each step of publish_once keeps the types.
LEMMA PublisherTypeOK ==
  ASSUME TypeOK, NEW p \in Publisher, PublisherStep(p)
  PROVE  TypeOK'
<1> USE DEF txVars
<1>1. CASE Claim(p)
  BY <1>1 DEF TypeOK, Claim, IsBatch, Claimable
<1>2. CASE FindNothing(p)
  BY <1>2, EndTaskTypeOK DEF TypeOK, FindNothing
<1>3. CASE Record(p)
  BY <1>3 DEF TypeOK, Record
<1>4. CASE MarkFails(p)
  BY <1>4 DEF TypeOK, MarkFails, Suffer
<1>5. CASE CommitBatch(p)
  BY <1>5, EndTaskTypeOK DEF TypeOK, CommitBatch
<1>6. CASE LoseConnection(p)
  BY <1>6 DEF TypeOK, LoseConnection, Suffer
<1>7. CASE NoticeLoss(p)
  BY <1>7, EndTaskTypeOK DEF TypeOK, NoticeLoss
<1>8. CASE Crash(p)
  BY <1>8, EndTaskTypeOK DEF TypeOK, Crash, Suffer
<1>9. ASSUME NEW e \in Event, SendOk(p, e) \/ SendFails(p, e) \/ SendUnacked(p, e)
      PROVE  TypeOK'
  <2>1. faults' \in Nat
    BY <1>9 DEF TypeOK, SendOk, SendFails, SendUnacked, Suffer, Send
  <2>2. \E r \in {"acked", "refused"}, n \in Nat : Send(p, e, r, n)
    BY <1>9, SendOutcome
  <2>3. QED
    BY <2>1, <2>2, SendTypeOK
<1>10. QED
  BY <1>1, <1>2, <1>3, <1>4, <1>5, <1>6, <1>7, <1>8, <1>9 DEF PublisherStep

\* Every step keeps the types.
LEMMA NextTypeOK == TypeOK /\ [Next]_vars => TypeOK'
<1> SUFFICES ASSUME TypeOK, [Next]_vars PROVE TypeOK'
  OBVIOUS
<1>1. CASE DeletePublishedEvents
  BY <1>1 DEF TypeOK, DeletePublishedEvents, txVars, pubVars
<1>2. CASE UNCHANGED vars
  BY <1>2 DEF TypeOK, vars, txVars, pubVars
<1>3. QED
  BY <1>1, <1>2, UnitTypeOK, PublisherTypeOK DEF Next

\* The variables of the outbox always have their types.
THEOREM TypeCorrect == Safety => []TypeOK
<1>1. QED
  BY InitTypeOK, NextTypeOK, PTL DEF Safety

-----------------------------------------------------------------------------
(* The inductive invariant.                                                *)

\* The initial state satisfies the invariant.
LEMMA InitInv == Init => Inv
<1> SUFFICES ASSUME Init PROVE Inv
  OBVIOUS
<1>1. TypeOK
  BY InitTypeOK
<1>2. Committed = {}
  BY DEF Init, Committed
<1>3. TaskFollowsCommit
  BY ProcessAssumption DEF Init, TaskFollowsCommit
<1>4. IdleHasNoTransaction /\ PartsOfBatch /\ MarksAreSent /\ MarksNeedConnection
  BY DEF Init, IdleHasNoTransaction, PartsOfBatch, MarksAreSent, MarksNeedConnection
<1>5. NoEventLost /\ NoPhantomEvent /\ RowsAreCommitted /\ HeldAreCommitted
  BY <1>2 DEF Init, NoEventLost, NoPhantomEvent, RowsAreCommitted, HeldAreCommitted
<1>6. ExclusiveClaim /\ ClaimIsFresh
  BY DEF Init, ExclusiveClaim, ClaimIsFresh
<1>7. QED
  BY <1>1, <1>3, <1>4, <1>5, <1>6 DEF Inv

\* What is committed are events.
LEMMA CommittedAreEvents == TypeOK => Committed \subseteq Event
BY DEF TypeOK, Committed

\* Only a commit changes what is committed, and it adds the flushed rows.
LEMMA CommittedByUnit ==
  ASSUME TypeOK, NEW t \in Unit
  PROVE  /\ Begin(t) \/ Rollback(t) \/ (\E e \in Event : FlushEvent(t, e))
               => Committed' = Committed
         /\ MakeDurable(t) => Committed' = Committed \cup flushed[t]
<1>1. ASSUME Begin(t) PROVE Committed' = Committed
  BY <1>1 DEF TypeOK, Begin, Committed
<1>2. ASSUME Rollback(t) PROVE Committed' = Committed
  BY <1>2 DEF TypeOK, Rollback, Committed
<1>3. ASSUME NEW e \in Event, FlushEvent(t, e) PROVE Committed' = Committed
  BY <1>3 DEF TypeOK, FlushEvent, Committed
<1>4. ASSUME MakeDurable(t) PROVE Committed' = Committed \cup flushed[t]
  <2>1. {u \in Unit : unit'[u] = "committed"}
           = {u \in Unit : unit[u] = "committed"} \cup {t}
    BY <1>4 DEF TypeOK, MakeDurable
  <2>2. flushed' = flushed
    BY <1>4 DEF MakeDurable
  <2>3. QED
    BY <2>1, <2>2 DEF Committed
<1>5. QED
  BY <1>1, <1>2, <1>3, <1>4

\* A step of a unit of work that does not commit leaves the invariant alone.
LEMMA QuietUnitInv ==
  ASSUME Inv, TypeOK', Committed' = Committed,
         UNCHANGED <<row, pubVars, copies>>,
         \A t \in Unit : unit'[t] \in {"idle", "active"}
                           => unit[t] \in {"idle", "active"}
  PROVE  Inv'
BY DEF Inv, RowsAreCommitted, HeldAreCommitted, PartsOfBatch,
       MarksAreSent, MarksNeedConnection, NoEventLost, NoPhantomEvent,
       ExclusiveClaim, ClaimIsFresh, IdleHasNoTransaction, TaskFollowsCommit,
       pubVars

\* A commit makes the flushed rows PENDING and may start a publisher.
LEMMA CommitInv ==
  ASSUME Inv, TypeOK', NEW t \in Unit, MakeDurable(t),
         pc' = pc \/ (t \in Request /\ pc' = [pc EXCEPT ![t] = "ready"])
  PROVE  Inv'
<1>1. Committed' = Committed \cup flushed[t]
  BY CommittedByUnit DEF Inv
<1>2. /\ \A e \in Event : row'[e] = IF e \in flushed[t] THEN "PENDING" ELSE row[e]
      /\ UNCHANGED <<held, todo, marked, current, result, connected, copies>>
  BY DEF MakeDurable
<1>3. RowsAreCommitted' /\ HeldAreCommitted' /\ NoPhantomEvent'
  BY <1>1, <1>2 DEF Inv, RowsAreCommitted, HeldAreCommitted, NoPhantomEvent
<1>4. NoEventLost'
  BY <1>1, <1>2, CommittedAreEvents DEF Inv, TypeOK, NoEventLost
<1>5. PartsOfBatch' /\ MarksAreSent' /\ MarksNeedConnection' /\ ExclusiveClaim'
  BY <1>2 DEF Inv, TypeOK, PartsOfBatch, MarksAreSent, MarksNeedConnection,
              ExclusiveClaim
<1>6. ClaimIsFresh'
  BY <1>2 DEF Inv, TypeOK, ClaimIsFresh
<1>7. unit[t] = "active" /\ unit' = [unit EXCEPT ![t] = "committed"]
  BY DEF MakeDurable
<1>8. IdleHasNoTransaction'
  <2>1. t \in Request => pc[t] = "off"
    BY <1>7 DEF Inv, TaskFollowsCommit
  <2>2. QED
    BY <1>2, <2>1 DEF Inv, TypeOK, IdleHasNoTransaction
<1>9. TaskFollowsCommit'
  BY <1>7 DEF Inv, TypeOK, TaskFollowsCommit
<1>10. QED
  BY <1>3, <1>4, <1>5, <1>6, <1>8, <1>9 DEF Inv

\* The units of work preserve the invariant.
LEMMA UnitInv ==
  ASSUME Inv, NEW t \in Unit, UnitStep(t)
  PROVE  Inv'
<1>1. TypeOK /\ TypeOK'
  BY UnitTypeOK DEF Inv
<1>2. CASE Begin(t) \/ Rollback(t) \/ (\E e \in Event : FlushEvent(t, e))
  <2>1. Committed' = Committed
    BY <1>1, <1>2, CommittedByUnit
  <2>2. UNCHANGED <<row, pubVars, copies>>
    BY <1>2 DEF Begin, Rollback, FlushEvent
  <2>3. \A u \in Unit : unit'[u] \in {"idle", "active"}
                           => unit[u] \in {"idle", "active"}
    BY <1>1, <1>2 DEF TypeOK, Begin, Rollback, FlushEvent
  <2>4. QED
    BY <1>1, <2>1, <2>2, <2>3, QuietUnitInv
<1>3. CASE Commit(t) \/ CommitUnseen(t)
  <2>1. MakeDurable(t)
    BY <1>3 DEF Commit, CommitUnseen
  <2>2. pc' = pc \/ (t \in Request /\ pc' = [pc EXCEPT ![t] = "ready"])
    BY <1>3 DEF Commit, CommitUnseen, FirePublishOnce
  <2>3. QED
    BY <1>1, <2>1, <2>2, CommitInv
<1>4. QED
  BY <1>2, <1>3 DEF UnitStep

\* A publisher's step that touches neither the rows nor the topic and only
\* shrinks what publishers hold, have to do, and have marked.
LEMMA ShrinkInv ==
  ASSUME Inv, TypeOK', UNCHANGED <<txVars, row, copies>>,
         \A q \in Publisher :
            /\ connected'[q] => connected[q]
            /\ held'[q] \subseteq held[q]
            /\ todo'[q] \subseteq todo[q] \cap held'[q]
            /\ marked'[q] \subseteq marked[q] \cap held'[q]
            /\ ~connected'[q] => marked'[q] = {}
            /\ pc'[q] = "sent" => /\ pc[q] = "sent"
                                  /\ current'[q] = current[q]
                                  /\ result'[q] = result[q]
                                  /\ held'[q] = held[q]
            /\ pc'[q] \in {"off", "ready"} => ~connected'[q] /\ held'[q] = {}
            /\ (q \in Request /\ pc[q] = "off") => pc'[q] = "off"
  PROVE  Inv'
<1>1. Committed' = Committed /\ UNCHANGED <<row, unit>>
  BY DEF txVars, Committed
<1>2. RowsAreCommitted' /\ NoPhantomEvent' /\ NoEventLost'
  BY <1>1 DEF Inv, RowsAreCommitted, NoPhantomEvent, NoEventLost
<1>3. HeldAreCommitted' /\ ClaimIsFresh'
  BY <1>1 DEF Inv, HeldAreCommitted, ClaimIsFresh
<1>4. PartsOfBatch' /\ MarksNeedConnection' /\ ExclusiveClaim'
  BY DEF Inv, PartsOfBatch, MarksNeedConnection, ExclusiveClaim
<1>5. MarksAreSent'
  BY DEF Inv, MarksAreSent
<1>6. IdleHasNoTransaction'
  BY DEF IdleHasNoTransaction
<1>7. TaskFollowsCommit'
  BY <1>1 DEF Inv, TaskFollowsCommit
<1>8. QED
  BY <1>2, <1>3, <1>4, <1>5, <1>6, <1>7 DEF Inv

\* What the end of publish_once leaves of the publishers' variables.
LEMMA EndTaskEffect ==
  ASSUME TypeOK, NEW p \in Publisher, EndTask(p)
  PROVE  /\ ~connected'[p] /\ held'[p] = {} /\ todo'[p] = {} /\ marked'[p] = {}
         /\ pc'[p] \in {"off", "ready"} /\ (p \in Request => pc'[p] = "off")
         /\ \A q \in Publisher \ {p} :
               /\ connected'[q] = connected[q] /\ pc'[q] = pc[q]
               /\ held'[q] = held[q] /\ todo'[q] = todo[q]
               /\ marked'[q] = marked[q] /\ current'[q] = current[q]
               /\ result'[q] = result[q]
<1>1. /\ ~connected'[p] /\ held'[p] = {} /\ todo'[p] = {} /\ marked'[p] = {}
      /\ pc'[p] = Rest(p)
  BY DEF TypeOK, EndTask
<1>2. pc'[p] \in {"off", "ready"} /\ (p \in Request => pc'[p] = "off")
  BY <1>1, ProcessAssumption DEF Rest
<1>3. \A q \in Publisher \ {p} :
         /\ connected'[q] = connected[q] /\ pc'[q] = pc[q]
         /\ held'[q] = held[q] /\ todo'[q] = todo[q]
         /\ marked'[q] = marked[q] /\ current'[q] = current[q]
         /\ result'[q] = result[q]
  BY DEF TypeOK, EndTask
<1>4. QED
  BY <1>1, <1>2, <1>3

\* The end of publish_once, for whatever reason, is such a step.
LEMMA EndTaskInv ==
  ASSUME Inv, TypeOK', NEW p \in Publisher, EndTask(p),
         UNCHANGED <<txVars, row, copies>>
  PROVE  Inv'
<1>1. TypeOK
  BY DEF Inv
<1>2. ASSUME NEW q \in Publisher
      PROVE  /\ connected'[q] => connected[q]
             /\ held'[q] \subseteq held[q]
             /\ todo'[q] \subseteq todo[q] \cap held'[q]
             /\ marked'[q] \subseteq marked[q] \cap held'[q]
             /\ ~connected'[q] => marked'[q] = {}
             /\ pc'[q] = "sent" => /\ pc[q] = "sent"
                                   /\ current'[q] = current[q]
                                   /\ result'[q] = result[q]
                                   /\ held'[q] = held[q]
             /\ pc'[q] \in {"off", "ready"} => ~connected'[q] /\ held'[q] = {}
             /\ (q \in Request /\ pc[q] = "off") => pc'[q] = "off"
  <2>1. CASE q = p
    BY <1>1, <2>1, EndTaskEffect
  <2>2. CASE q # p
    BY <1>1, <2>2, EndTaskEffect DEF Inv, PartsOfBatch, MarksNeedConnection, IdleHasNoTransaction
  <2>3. QED
    BY <2>1, <2>2
<1>3. QED
  BY <1>2, ShrinkInv

\* Claiming: the rows are pending and locked by nobody else.
LEMMA ClaimInv ==
  ASSUME Inv, TypeOK', NEW p \in Publisher, Claim(p)
  PROVE  Inv'
<1> USE DEF Inv
<1>1. /\ UNCHANGED <<unit, row, marked, current, result, copies>>
      /\ Committed' = Committed
  BY DEF Claim, txVars, Committed
<1>2. PICK S \in SUBSET Claimable : /\ held' = [held EXCEPT ![p] = S]
                                    /\ todo' = [todo EXCEPT ![p] = S]
  BY DEF Claim
<1>3. /\ pc[p] = "ready" /\ pc' = [pc EXCEPT ![p] = "sending"]
      /\ connected' = [connected EXCEPT ![p] = TRUE]
  BY DEF Claim
<1>4. \A e \in S : e \in Event /\ row[e] = "PENDING" /\ e \notin Locked
  BY DEF Claimable
<1>5. marked[p] = {}
  BY <1>3 DEF IdleHasNoTransaction, MarksNeedConnection
<1>6. RowsAreCommitted' /\ NoPhantomEvent' /\ NoEventLost'
  BY <1>1 DEF RowsAreCommitted, NoPhantomEvent, NoEventLost
<1>7. HeldAreCommitted'
  BY <1>1, <1>2, <1>4 DEF TypeOK, HeldAreCommitted, RowsAreCommitted
<1>8. ClaimIsFresh'
  BY <1>1, <1>2, <1>3, <1>4 DEF TypeOK, ClaimIsFresh
<1>9. ExclusiveClaim'
  <2>1. \A q \in Publisher : connected[q] => held[q] \cap S = {}
    BY <1>4 DEF Locked
  <2>2. QED
    BY <1>2, <1>3, <2>1 DEF TypeOK, ExclusiveClaim
<1>10. PartsOfBatch' /\ MarksNeedConnection'
  BY <1>1, <1>2, <1>3, <1>5 DEF TypeOK, PartsOfBatch, MarksNeedConnection
<1>11. MarksAreSent'
  BY <1>1, <1>2, <1>3 DEF TypeOK, MarksAreSent
<1>12. IdleHasNoTransaction' /\ TaskFollowsCommit'
  BY <1>1, <1>2, <1>3 DEF TypeOK, IdleHasNoTransaction, TaskFollowsCommit
<1>13. QED
  BY <1>6, <1>7, <1>8, <1>9, <1>10, <1>11, <1>12

\* A send adds copies of one committed event and remembers the outcome.
LEMMA SendInv ==
  ASSUME Inv, TypeOK', NEW p \in Publisher, NEW e \in Event,
         SendOk(p, e) \/ SendFails(p, e) \/ SendUnacked(p, e)
  PROVE  Inv'
<1> USE DEF Inv
<1>1. PICK r \in {"acked", "refused"}, n \in Nat :
         Send(p, e, r, n) /\ (r = "acked" => n > 0)
  BY SendOutcome
<1>2. /\ UNCHANGED <<unit, row, held, todo, marked, connected>>
      /\ Committed' = Committed
  BY <1>1 DEF Send, txVars, Committed
<1>3. /\ pc[p] = "sending" /\ pc' = [pc EXCEPT ![p] = "sent"]
      /\ e \in todo[p] /\ current' = [current EXCEPT ![p] = e]
      /\ result' = [result EXCEPT ![p] = r]
      /\ copies' = [copies EXCEPT ![e] = @ + n]
  BY <1>1 DEF Send
<1>4. \A f \in Event : copies[f] > 0 => copies'[f] > 0
  BY <1>3 DEF TypeOK
<1>5. RowsAreCommitted' /\ HeldAreCommitted' /\ PartsOfBatch'
      /\ MarksNeedConnection' /\ ExclusiveClaim' /\ ClaimIsFresh'
  BY <1>2 DEF RowsAreCommitted, HeldAreCommitted, PartsOfBatch,
              MarksNeedConnection, ExclusiveClaim, ClaimIsFresh
<1>6. NoEventLost'
  BY <1>2, <1>4, CommittedAreEvents DEF NoEventLost
<1>7. NoPhantomEvent'
  BY <1>2, <1>3 DEF TypeOK, NoPhantomEvent, PartsOfBatch, HeldAreCommitted
<1>8. MarksAreSent'
  <2>1. \A q \in Publisher : \A f \in marked'[q] : copies'[f] > 0
    BY <1>2, <1>4 DEF TypeOK, MarksAreSent
  <2>2. \A q \in Publisher \ {p} :
           /\ pc'[q] = "sent" => current'[q] \in held'[q]
           /\ (pc'[q] = "sent" /\ result'[q] = "acked") => copies'[current'[q]] > 0
    BY <1>2, <1>3, <1>4 DEF TypeOK, MarksAreSent
  <2>3. current'[p] = e /\ result'[p] = r /\ e \in held'[p]
    BY <1>2, <1>3 DEF TypeOK, PartsOfBatch
  <2>4. r = "acked" => copies'[e] > 0
    BY <1>1, <1>3 DEF TypeOK
  <2>5. QED
    BY <2>1, <2>2, <2>3, <2>4 DEF MarksAreSent
<1>9. IdleHasNoTransaction' /\ TaskFollowsCommit'
  BY <1>2, <1>3 DEF TypeOK, IdleHasNoTransaction, TaskFollowsCommit
<1>10. QED
  BY <1>5, <1>6, <1>7, <1>8, <1>9

\* Recording an acknowledged event adds a mark that is justified.
LEMMA RecordInv ==
  ASSUME Inv, TypeOK', NEW p \in Publisher, Record(p)
  PROVE  Inv'
<1> USE DEF Inv
<1>1. /\ UNCHANGED <<unit, row, held, connected, copies>>
      /\ Committed' = Committed
  BY DEF Record, txVars, Committed
<1>2. /\ pc[p] = "sent" /\ connected[p] /\ pc' = [pc EXCEPT ![p] = "sending"]
      /\ todo' = [todo EXCEPT ![p] = @ \ {current[p]}]
      /\ marked' = [marked EXCEPT ![p] = IF result[p] = "acked"
                                         THEN @ \cup {current[p]} ELSE @]
      /\ current' = [current EXCEPT ![p] = None]
      /\ result' = [result EXCEPT ![p] = "none"]
  BY DEF Record
<1>3. RowsAreCommitted' /\ HeldAreCommitted' /\ NoEventLost' /\ NoPhantomEvent'
      /\ ExclusiveClaim' /\ ClaimIsFresh'
  BY <1>1 DEF RowsAreCommitted, HeldAreCommitted, NoEventLost, NoPhantomEvent,
              ExclusiveClaim, ClaimIsFresh
<1>4. PartsOfBatch' /\ MarksNeedConnection'
  BY <1>1, <1>2 DEF TypeOK, PartsOfBatch, MarksNeedConnection, MarksAreSent
<1>5. MarksAreSent'
  BY <1>1, <1>2 DEF TypeOK, MarksAreSent
<1>6. IdleHasNoTransaction' /\ TaskFollowsCommit'
  BY <1>1, <1>2 DEF TypeOK, IdleHasNoTransaction, TaskFollowsCommit
<1>7. QED
  BY <1>3, <1>4, <1>5, <1>6

\* A failed mark forgets an acknowledgement and nothing else.
LEMMA MarkFailsInv ==
  ASSUME Inv, TypeOK', NEW p \in Publisher, MarkFails(p)
  PROVE  Inv'
<1>1. UNCHANGED <<txVars, row, held, marked, connected, copies>>
  BY DEF MarkFails
<1>2. \A q \in Publisher :
         /\ todo'[q] \subseteq todo[q]
         /\ pc'[q] = "sent" => /\ pc[q] = "sent" /\ current'[q] = current[q]
                               /\ result'[q] = result[q]
         /\ pc'[q] \in {"off", "ready"} => pc[q] \in {"off", "ready"}
         /\ pc[q] = "off" => pc'[q] = "off"
  BY DEF MarkFails, Inv, TypeOK
<1>3. QED
  BY <1>1, <1>2, ShrinkInv
     DEF Inv, PartsOfBatch, MarksNeedConnection, IdleHasNoTransaction

\* Losing the connection loses the marks of that publisher.
LEMMA LoseConnectionInv ==
  ASSUME Inv, TypeOK', NEW p \in Publisher, LoseConnection(p)
  PROVE  Inv'
<1>1. UNCHANGED <<txVars, row, pc, held, todo, current, result, copies>>
  BY DEF LoseConnection
<1>2. \A q \in Publisher :
         /\ connected'[q] => connected[q]
         /\ marked'[q] \subseteq marked[q]
         /\ ~connected'[q] => marked'[q] = {}
  BY DEF LoseConnection, Inv, TypeOK, MarksNeedConnection
<1>3. QED
  BY <1>1, <1>2, ShrinkInv DEF Inv, PartsOfBatch, IdleHasNoTransaction

\* A batch commits: the rows that become PUBLISHED were sent, and no other
\* live publisher holds them.
LEMMA CommitBatchInv ==
  ASSUME Inv, TypeOK', NEW p \in Publisher, CommitBatch(p)
  PROVE  Inv'
<1> USE DEF Inv
<1>1. /\ connected[p] /\ EndTask(p) /\ UNCHANGED <<txVars, copies>>
      /\ \A e \in Event : row'[e] = IF e \in marked[p] THEN "PUBLISHED" ELSE row[e]
      /\ Committed' = Committed
  BY DEF CommitBatch, txVars, Committed
<1>2. /\ ~connected'[p] /\ held'[p] = {} /\ todo'[p] = {} /\ marked'[p] = {}
      /\ pc'[p] \in {"off", "ready"} /\ (p \in Request => pc'[p] = "off")
  BY <1>1, EndTaskEffect
<1>3. \A q \in Publisher \ {p} :
         /\ connected'[q] = connected[q] /\ pc'[q] = pc[q]
         /\ held'[q] = held[q] /\ todo'[q] = todo[q]
         /\ marked'[q] = marked[q] /\ current'[q] = current[q]
         /\ result'[q] = result[q]
  BY <1>1, EndTaskEffect
<1>4. marked[p] \subseteq held[p] /\ held[p] \subseteq Committed
  BY DEF PartsOfBatch, HeldAreCommitted
<1>5. RowsAreCommitted'
  BY <1>1, <1>4 DEF RowsAreCommitted
<1>6. NoEventLost'
  BY <1>1, CommittedAreEvents DEF NoEventLost, MarksAreSent
<1>7. HeldAreCommitted' /\ PartsOfBatch' /\ MarksNeedConnection' /\ NoPhantomEvent'
  BY <1>1, <1>2, <1>3
     DEF HeldAreCommitted, PartsOfBatch, MarksNeedConnection, NoPhantomEvent
<1>8. MarksAreSent'
  BY <1>1, <1>2, <1>3 DEF MarksAreSent
<1>9. ExclusiveClaim'
  BY <1>2, <1>3 DEF ExclusiveClaim
<1>10. ClaimIsFresh'
  <2>1. SUFFICES ASSUME NEW q \in Publisher, connected'[q], NEW e \in held'[q]
                 PROVE  row'[e] = "PENDING"
    BY DEF ClaimIsFresh
  <2>2. q # p /\ connected[q] /\ e \in held[q]
    BY <2>1, <1>2, <1>3
  <2>3. e \notin marked[p] /\ e \in Event
    BY <2>2, <1>1, <1>4 DEF ExclusiveClaim, TypeOK
  <2>4. QED
    BY <2>2, <2>3, <1>1 DEF ClaimIsFresh
<1>11. IdleHasNoTransaction'
  BY <1>2, <1>3 DEF IdleHasNoTransaction
<1>12. TaskFollowsCommit'
  <2>1. unit' = unit
    BY <1>1 DEF txVars
  <2>2. QED
    BY <1>2, <1>3, <2>1 DEF TaskFollowsCommit
<1>13. QED
  BY <1>5, <1>6, <1>7, <1>8, <1>9, <1>10, <1>11, <1>12

\* The publishers preserve the invariant.
LEMMA PublisherInv ==
  ASSUME Inv, NEW p \in Publisher, PublisherStep(p)
  PROVE  Inv'
<1>1. TypeOK'
  BY PublisherTypeOK DEF Inv
<1>2. CASE Claim(p)
  BY <1>1, <1>2, ClaimInv
<1>3. CASE FindNothing(p) \/ NoticeLoss(p) \/ Crash(p)
  <2>1. EndTask(p) /\ UNCHANGED <<txVars, row, copies>>
    BY <1>3 DEF FindNothing, NoticeLoss, Crash
  <2>2. QED
    BY <1>1, <2>1, EndTaskInv
<1>4. CASE Record(p)
  BY <1>1, <1>4, RecordInv
<1>5. CASE MarkFails(p)
  BY <1>1, <1>5, MarkFailsInv
<1>6. CASE CommitBatch(p)
  BY <1>1, <1>6, CommitBatchInv
<1>7. CASE LoseConnection(p)
  BY <1>1, <1>7, LoseConnectionInv
<1>8. ASSUME NEW e \in Event, SendOk(p, e) \/ SendFails(p, e) \/ SendUnacked(p, e)
      PROVE  Inv'
  BY <1>1, <1>8, SendInv
<1>9. QED
  BY <1>2, <1>3, <1>4, <1>5, <1>6, <1>7, <1>8 DEF PublisherStep

\* Housekeeping deletes only rows of events that are on Kafka.
LEMMA DeleteInv ==
  ASSUME Inv, TypeOK', DeletePublishedEvents
  PROVE  Inv'
<1> USE DEF Inv
<1>1. /\ UNCHANGED <<unit, pubVars, copies>>
      /\ Committed' = Committed
      /\ \A e \in Event : \/ row'[e] = row[e]
                          \/ row[e] = "PUBLISHED" /\ row'[e] = "none"
  BY DEF DeletePublishedEvents, txVars, Committed
<1>2. RowsAreCommitted' /\ HeldAreCommitted' /\ NoPhantomEvent'
  BY <1>1 DEF RowsAreCommitted, HeldAreCommitted, NoPhantomEvent, pubVars
<1>3. NoEventLost'
  BY <1>1, CommittedAreEvents DEF NoEventLost
<1>4. PartsOfBatch' /\ MarksAreSent' /\ MarksNeedConnection' /\ ExclusiveClaim'
      /\ IdleHasNoTransaction' /\ TaskFollowsCommit'
  BY <1>1 DEF PartsOfBatch, MarksAreSent, MarksNeedConnection, ExclusiveClaim,
              IdleHasNoTransaction, TaskFollowsCommit, pubVars
<1>5. ClaimIsFresh'
  BY <1>1 DEF TypeOK, ClaimIsFresh, pubVars
<1>6. QED
  BY <1>2, <1>3, <1>4, <1>5

\* A step that changes nothing.
LEMMA StutterInv == Inv /\ UNCHANGED vars => Inv'
BY DEF vars, txVars, pubVars, Inv, TypeOK, RowsAreCommitted, HeldAreCommitted,
       PartsOfBatch, MarksAreSent, MarksNeedConnection, IdleHasNoTransaction,
       TaskFollowsCommit, NoEventLost, NoPhantomEvent, ExclusiveClaim,
       ClaimIsFresh, Committed

LEMMA NextInv == Inv /\ [Next]_vars => Inv'
<1> SUFFICES ASSUME Inv, [Next]_vars PROVE Inv'
  OBVIOUS
<1>1. TypeOK'
  BY NextTypeOK DEF Inv
<1>2. CASE DeletePublishedEvents
  BY <1>1, <1>2, DeleteInv
<1>3. CASE UNCHANGED vars
  BY <1>3, StutterInv
<1>4. QED
  BY <1>2, <1>3, UnitInv, PublisherInv DEF Next

\* The inductive invariant holds in every behaviour.
THEOREM InvCorrect == Safety => []Inv
<1>1. QED
  BY InitInv, NextInv, PTL DEF Safety

\* No committed event is ever lost: its row is PENDING until it is on Kafka,
\* through rollbacks, crashes, lost connections, failed marks and lost
\* acknowledgements, with any number of publishers.
THEOREM NoEventLostCorrect == Safety => []NoEventLost
<1>1. Inv => NoEventLost
  BY DEF Inv
<1>2. QED
  BY <1>1, InvCorrect, PTL

\* Kafka never holds an event whose transaction did not commit.
THEOREM NoPhantomEventCorrect == Safety => []NoPhantomEvent
<1>1. Inv => NoPhantomEvent
  BY DEF Inv
<1>2. QED
  BY <1>1, InvCorrect, PTL

\* FOR UPDATE SKIP LOCKED keeps live publishers off each other's rows, also
\* after one of them has lost its connection and its locks.
THEOREM ExclusiveClaimCorrect == Safety => []ExclusiveClaim
<1>1. Inv => ExclusiveClaim
  BY DEF Inv
<1>2. QED
  BY <1>1, InvCorrect, PTL

\* Every row a live publisher works on is still waiting to be published: nobody
\* has marked, deleted or rolled it back behind its back.
THEOREM ClaimIsFreshCorrect == Safety => []ClaimIsFresh
<1>1. Inv => ClaimIsFresh
  BY DEF Inv
<1>2. QED
  BY <1>1, InvCorrect, PTL

-----------------------------------------------------------------------------
(* The outbox implements EventDelivery (its safety part; the liveness part  *)
(* stays with TLC).                                                        *)

OnTopic == {e \in Event : copies[e] > 0}

LEMMA UnitRefines ==
  ASSUME Inv, NEW t \in Unit, UnitStep(t)
  PROVE  [Delivery!Next]_Delivery!vars
<1> USE DEF Delivery!vars
<1>1. TypeOK /\ Committed \subseteq Event
  BY CommittedAreEvents DEF Inv
<1>2. CASE Begin(t) \/ Rollback(t) \/ (\E e \in Event : FlushEvent(t, e))
  <2>1. Committed' = Committed
    BY <1>1, <1>2, CommittedByUnit
  <2>2. copies' = copies
    BY <1>2 DEF Begin, Rollback, FlushEvent
  <2>3. QED
    BY <2>1, <2>2
<1>3. CASE Commit(t) \/ CommitUnseen(t)
  <2>1. MakeDurable(t) /\ copies' = copies
    BY <1>3 DEF Commit, CommitUnseen, MakeDurable
  <2>2. Committed' = Committed \cup (flushed[t] \ Committed)
    BY <1>1, <2>1, CommittedByUnit
  <2>3. (flushed[t] \ Committed) \in SUBSET (Event \ Committed)
    BY <1>1 DEF TypeOK
  <2>4. Delivery!Commit(flushed[t] \ Committed)
    BY <2>1, <2>2 DEF Delivery!Commit
  <2>5. QED
    BY <2>3, <2>4 DEF Delivery!Next
<1>4. QED
  BY <1>2, <1>3 DEF UnitStep

LEMMA PublisherRefines ==
  ASSUME Inv, NEW p \in Publisher, PublisherStep(p)
  PROVE  [Delivery!Next]_Delivery!vars
<1> USE DEF Delivery!vars
<1>1. Committed' = Committed
  BY DEF PublisherStep, Claim, FindNothing, Record, MarkFails, CommitBatch,
         LoseConnection, NoticeLoss, Crash, SendOk, SendFails, SendUnacked,
         Send, txVars, Committed
<1>2. CASE copies' = copies
  BY <1>1, <1>2
<1>3. ASSUME NEW e \in Event, SendOk(p, e) \/ SendFails(p, e) \/ SendUnacked(p, e)
      PROVE  [Delivery!Next]_Delivery!vars
  <2>1. PICK n \in Nat : copies' = [copies EXCEPT ![e] = @ + n] /\ e \in todo[p]
    BY <1>3, SendOutcome DEF Send
  <2>2. e \in Committed
    BY <2>1 DEF Inv, PartsOfBatch, HeldAreCommitted
  <2>3. CASE n = 0 \/ copies[e] > 0
    <3>1. OnTopic' = OnTopic
      BY <2>1, <2>3 DEF Inv, TypeOK, OnTopic
    <3>2. QED
      BY <1>1, <3>1 DEF OnTopic
  <2>4. CASE n > 0 /\ copies[e] = 0
    <3>1. OnTopic' = OnTopic \cup {e} /\ e \notin OnTopic
      BY <2>1, <2>4 DEF Inv, TypeOK, OnTopic
    <3>2. Delivery!Deliver(e)
      BY <1>1, <2>2, <3>1 DEF Delivery!Deliver, OnTopic
    <3>3. QED
      BY <3>2 DEF Delivery!Next
  <2>5. QED
    BY <2>1, <2>3, <2>4 DEF Inv, TypeOK
<1>4. QED
  BY <1>2, <1>3 DEF PublisherStep, Claim, FindNothing, Record, MarkFails,
       CommitBatch, LoseConnection, NoticeLoss, Crash

\* Every step of the outbox is a step of the delivery service, or none.
LEMMA NextRefines == Inv /\ [Next]_vars => [Delivery!Next]_Delivery!vars
<1> SUFFICES ASSUME Inv, [Next]_vars PROVE [Delivery!Next]_Delivery!vars
  OBVIOUS
<1>1. CASE DeletePublishedEvents
  BY <1>1 DEF DeletePublishedEvents, txVars, Committed, Delivery!vars
<1>2. CASE UNCHANGED vars
  BY <1>2 DEF vars, txVars, Committed, Delivery!vars
<1>3. QED
  BY <1>1, <1>2, UnitRefines, PublisherRefines DEF Next

\* The outbox with all its publishers and faults never does anything the
\* abstract delivery service could not do.
THEOREM ImplementsDelivery == Safety => Delivery!Safety
<1>1. Init => Delivery!Init
  BY DEF Init, Committed, Delivery!Init
<1>2. QED
  BY <1>1, NextRefines, InvCorrect, PTL DEF Safety, Delivery!Safety


-----------------------------------------------------------------------------
(* Duplicates. Each copy of an event beyond the first is paid for by a fault. *)
(* The budget of an event counts its copies, those that a publisher which has *)
(* lost its connection may still send, and the one that is due because no     *)
(* transaction knows that the event is on Kafka.                              *)

\* A publisher that has lost its connection and goes on through its batch.
Ghosts(e) == {p \in Publisher : ~connected[p] /\ pc[p] = "sending" /\ e \in todo[p]}

\* The live transaction of p is going to mark e, or has marked it.
Answered(p, e) ==
  connected[p] /\ (e \in marked[p] \/ (pc[p] = "sent" /\ result[p] = "acked" /\ current[p] = e))

Due(e) == row[e] = "PENDING" /\ \A p \in Publisher : ~Answered(p, e)

EventBudget(e) ==
  /\ IsFiniteSet(Ghosts(e))
  /\ copies[e] + Cardinality(Ghosts(e)) + (IF Due(e) THEN 1 ELSE 0) <= 1 + faults

Budget == \A e \in Event : EventBudget(e)

\* An event is flushed by one unit of work.
FlushedOnce ==
  /\ \A t, u \in Unit : t # u => flushed[t] \cap flushed[u] = {}
  /\ \A t \in Unit : \A e \in flushed[t] : createdAt[e] # 0

\* What is marked has been handled.
TodoIsUnmarked == \A p \in Publisher : todo[p] \cap marked[p] = {}

DupInv == Inv /\ FlushedOnce /\ TodoIsUnmarked /\ Budget

\* The ways a step may change the budget of an event: n copies more, m faults
\* more, and what it takes to afford them.
LEMMA BudgetKept ==
  ASSUME NEW e \in Event, TypeOK, EventBudget(e), NEW n \in Nat, NEW m \in Nat,
         copies'[e] = copies[e] + n, faults' = faults + m,
         \/ n <= m /\ Ghosts(e)' \subseteq Ghosts(e) /\ (Due(e)' => Due(e))
         \/ n = 0 /\ m = 1 /\ Ghosts(e)' \subseteq Ghosts(e)
         \/ n = 0 /\ m = 1 /\ (\E p : Ghosts(e)' = Ghosts(e) \cup {p}) /\ (Due(e)' => Due(e))
         \/ n <= m + 1 /\ Ghosts(e)' \subseteq Ghosts(e) /\ Due(e) /\ ~Due(e)'
         \/ n <= m + 1 /\ (\E p \in Ghosts(e) : Ghosts(e)' = Ghosts(e) \ {p}) /\ (Due(e)' => Due(e))
  PROVE  EventBudget(e)'
<1> DEFINE G == Cardinality(Ghosts(e))
           H == Cardinality(Ghosts(e)')
           d == IF Due(e) THEN 1 ELSE 0
           c == IF Due(e)' THEN 1 ELSE 0
<1>1. /\ IsFiniteSet(Ghosts(e)) /\ G \in Nat /\ d \in {0, 1} /\ c \in {0, 1}
      /\ copies[e] + G + d <= 1 + faults /\ copies[e] \in Nat /\ faults \in Nat
  BY FS_CardinalityType DEF EventBudget, TypeOK
<1>2. ASSUME Ghosts(e)' \subseteq Ghosts(e) PROVE IsFiniteSet(Ghosts(e)') /\ H <= G
  BY <1>1, <1>2, FS_Subset
<1>3. ASSUME NEW p, Ghosts(e)' = Ghosts(e) \cup {p} PROVE IsFiniteSet(Ghosts(e)') /\ H <= G + 1
  <2>1. IsFiniteSet(Ghosts(e) \cup {p}) /\ Cardinality(Ghosts(e) \cup {p}) <= G + 1
    BY <1>1, FS_AddElement
  <2>2. QED
    BY <1>3, <2>1
<1>4. ASSUME NEW p \in Ghosts(e), Ghosts(e)' = Ghosts(e) \ {p} PROVE IsFiniteSet(Ghosts(e)') /\ H = G - 1
  BY <1>1, <1>4, FS_RemoveElement
<1>5. IsFiniteSet(Ghosts(e)') /\ n + H + c <= m + G + d
  <2>1. CASE /\ Ghosts(e)' \subseteq Ghosts(e)
             /\ \/ n <= m /\ (Due(e)' => Due(e))
                \/ n = 0 /\ m = 1
                \/ n <= m + 1 /\ Due(e) /\ ~Due(e)'
    <3>1. H \in Nat
      BY <1>2, <2>1, FS_CardinalityType
    <3>2. n + c <= m + d
      BY <1>1, <2>1
    <3>3. QED
      BY <1>1, <1>2, <2>1, <3>1, <3>2
  <2>2. CASE n = 0 /\ m = 1 /\ (\E p : Ghosts(e)' = Ghosts(e) \cup {p}) /\ (Due(e)' => Due(e))
    <3>1. IsFiniteSet(Ghosts(e)') /\ H <= G + 1 /\ H \in Nat
      BY <1>3, <2>2, FS_CardinalityType
    <3>2. c <= d
      BY <2>2
    <3> HIDE DEF G, H, c, d
    <3>3. QED
      BY <1>1, <2>2, <3>1, <3>2
  <2>3. CASE n <= m + 1 /\ (\E p \in Ghosts(e) : Ghosts(e)' = Ghosts(e) \ {p}) /\ (Due(e)' => Due(e))
    <3>1. IsFiniteSet(Ghosts(e)') /\ H = G - 1
      BY <1>4, <2>3
    <3>2. c <= d
      BY <2>3
    <3> HIDE DEF G, H, c, d
    <3>3. QED
      BY <1>1, <2>3, <3>1, <3>2
  <2>4. QED
    BY <2>1, <2>2, <2>3
<1>6. H \in Nat
  BY <1>5, FS_CardinalityType
<1> HIDE DEF G, H, c, d
<1>7. copies'[e] + H + c <= 1 + faults'
  BY <1>1, <1>5, <1>6
<1> USE DEF G, H, c, d
<1>8. QED
  BY <1>5, <1>7 DEF EventBudget

\* A step that moves one publisher at most.
OnlyMoves(p) ==
  \A q \in Publisher \ {p} :
    /\ connected'[q] = connected[q] /\ pc'[q] = pc[q]
    /\ todo'[q] = todo[q] /\ marked'[q] = marked[q]
    /\ current'[q] = current[q] /\ result'[q] = result[q]

LEMMA OthersAnswerAlike ==
  ASSUME NEW p \in Publisher, OnlyMoves(p), NEW e \in Event
  PROVE  /\ \A q \in Publisher \ {p} : /\ Answered(q, e)' <=> Answered(q, e)
                                       /\ q \in Ghosts(e)' <=> q \in Ghosts(e)
         /\ Ghosts(e)' \subseteq Ghosts(e) \cup {p}
         /\ p \notin Ghosts(e)' => Ghosts(e)' = Ghosts(e) \ {p}
         /\ (row'[e] = "PENDING" => row[e] = "PENDING") /\ (~Answered(p, e)' => ~Answered(p, e))
              => (Due(e)' => Due(e))
<1>1. \A q \in Publisher \ {p} : /\ Answered(q, e)' <=> Answered(q, e)
                                 /\ q \in Ghosts(e)' <=> q \in Ghosts(e)
  BY DEF OnlyMoves, Answered, Ghosts
<1>2. Ghosts(e) \subseteq Publisher /\ Ghosts(e)' \subseteq Publisher
  BY DEF Ghosts
<1>3. (row'[e] = "PENDING" => row[e] = "PENDING") /\ (~Answered(p, e)' => ~Answered(p, e))
        => (Due(e)' => Due(e))
  BY <1>1 DEF Due
<1>4. QED
  BY <1>1, <1>2, <1>3

\* A send pays with the copy that was due, or that the ghost still had to send.
LEMMA SendBudget ==
  ASSUME DupInv, NEW p \in Publisher, NEW f \in Event, NEW r \in {"acked", "refused"},
         NEW n \in Nat, NEW m \in Nat, Send(p, f, r, n), faults' = faults + m,
         n <= m + 1, r = "refused" => n <= m
  PROVE  Budget'
<1>1. TypeOK /\ pc[p] = "sending" /\ f \in todo[p]
  BY DEF DupInv, Inv, Send
<1>2. /\ pc' = [pc EXCEPT ![p] = "sent"] /\ current' = [current EXCEPT ![p] = f]
      /\ result' = [result EXCEPT ![p] = r] /\ copies' = [copies EXCEPT ![f] = @ + n]
      /\ UNCHANGED <<row, held, todo, marked, connected>>
  BY DEF Send
<1>3. OnlyMoves(p) /\ pc'[p] = "sent" /\ current'[p] = f /\ result'[p] = r
  BY <1>1, <1>2 DEF OnlyMoves, TypeOK
<1>4. \A e \in Event : p \notin Ghosts(e)' /\ Ghosts(e)' = Ghosts(e) \ {p}
  BY <1>3, OthersAnswerAlike DEF Ghosts
<1>5. ASSUME NEW e \in Event \ {f} PROVE EventBudget(e)'
  <2>1. copies'[e] = copies[e] + 0
    BY <1>1, <1>2 DEF TypeOK
  <2>2. Answered(p, e)' <=> Answered(p, e)
    BY <1>1, <1>2, <1>3 DEF Answered
  <2>3. Due(e)' => Due(e)
    BY <1>2, <1>3, <2>2, OthersAnswerAlike
  <2>4. QED
    BY <1>1, <1>4, <2>1, <2>3, BudgetKept DEF DupInv, Budget
<1>6. EventBudget(f)'
  <2>1. copies'[f] = copies[f] + n
    BY <1>1, <1>2 DEF TypeOK
  <2>2. CASE connected[p]
    <3>1. f \in held[p] /\ row[f] = "PENDING" /\ f \notin marked[p]
      BY <1>1, <2>2 DEF DupInv, Inv, PartsOfBatch, ClaimIsFresh, TodoIsUnmarked
    <3>2. \A q \in Publisher \ {p} : ~Answered(q, f)
      BY <2>2, <3>1 DEF DupInv, Inv, Answered, PartsOfBatch, MarksAreSent, ExclusiveClaim
    <3>3. Due(f)
      BY <1>1, <3>1, <3>2 DEF Due, Answered
    <3>4. Ghosts(f)' \subseteq Ghosts(f)
      BY <1>4
    <3>5. r = "acked" => ~Due(f)'
      BY <1>2, <1>3, <2>2 DEF Due, Answered
    <3>6. QED
      BY <1>1, <2>1, <3>3, <3>4, <3>5, BudgetKept DEF DupInv, Budget
  <2>3. CASE ~connected[p]
    <3>1. p \in Ghosts(f)
      BY <1>1, <2>3 DEF Ghosts
    <3>2. ~Answered(p, f)
      BY <2>3 DEF Answered
    <3>3. Due(f)' => Due(f)
      BY <1>2, <1>3, <3>2, OthersAnswerAlike
    <3>4. QED
      BY <1>1, <1>4, <2>1, <3>1, <3>3, BudgetKept DEF DupInv, Budget
  <2>4. QED
    BY <2>2, <2>3
<1>7. QED
  BY <1>5, <1>6 DEF Budget

\* A step that sends nothing and suffers nothing: whoever had answered for an
\* event still does, and nobody becomes a ghost.
LEMMA QuietBudget ==
  ASSUME DupInv, NEW p \in Publisher, OnlyMoves(p), UNCHANGED <<copies, faults>>,
         \A e \in Event : row'[e] = "PENDING" => row[e] = "PENDING",
         \A e \in Event : p \notin Ghosts(e)',
         \A e \in Event : row'[e] = "PENDING" /\ ~Answered(p, e)' => ~Answered(p, e)
  PROVE  Budget'
<1> SUFFICES ASSUME NEW e \in Event PROVE EventBudget(e)'
  BY DEF Budget
<1>1. TypeOK
  BY DEF DupInv, Inv
<1>2. Ghosts(e)' \subseteq Ghosts(e) /\ (Due(e)' => Due(e))
  BY OthersAnswerAlike DEF Due
<1>3. EventBudget(e) /\ copies'[e] = copies[e] + 0 /\ faults' = faults + 0
  BY <1>1 DEF TypeOK, DupInv, Budget
<1>4. ASSUME NEW n \in Nat, n = 0 PROVE EventBudget(e)'
  <2>1. copies'[e] = copies[e] + n /\ faults' = faults + n /\ n <= n
    BY <1>3, <1>4
  <2>2. QED
    BY <1>1, <1>2, <1>3, <2>1, BudgetKept
<1>5. QED
  BY <1>4

\* A fault pays for the answers it takes away.
LEMMA FaultBudget ==
  ASSUME DupInv, NEW p \in Publisher, OnlyMoves(p), copies' = copies, faults' = faults + 1,
         \A e \in Event : p \notin Ghosts(e)'
  PROVE  Budget'
<1> SUFFICES ASSUME NEW e \in Event PROVE EventBudget(e)'
  BY DEF Budget
<1>1. TypeOK
  BY DEF DupInv, Inv
<1>2. Ghosts(e)' \subseteq Ghosts(e)
  BY OthersAnswerAlike
<1>3. copies'[e] = copies[e] + 0
  BY <1>1 DEF TypeOK
<1>4. QED
  BY <1>1, <1>2, <1>3, BudgetKept DEF DupInv, Budget

\* A lost connection makes a ghost of what was not handled yet, and takes away
\* the marks of what was, never both for one event.
LEMMA LoseConnectionBudget ==
  ASSUME DupInv, NEW p \in Publisher, LoseConnection(p) PROVE Budget'
<1> SUFFICES ASSUME NEW e \in Event PROVE EventBudget(e)'
  BY DEF Budget
<1>1. TypeOK /\ OnlyMoves(p) /\ faults' = faults + 1 /\ row' = row
  BY DEF DupInv, Inv, LoseConnection, Suffer, OnlyMoves, TypeOK
<1>2. copies'[e] = copies[e] + 0
  BY <1>1 DEF LoseConnection, TypeOK
<1>3. CASE p \notin Ghosts(e)'
  <2>1. Ghosts(e)' \subseteq Ghosts(e)
    BY <1>1, <1>3, OthersAnswerAlike
  <2>2. QED
    BY <1>1, <1>2, <2>1, BudgetKept DEF DupInv, Budget
<1>4. CASE p \in Ghosts(e)'
  <2>1. pc[p] = "sending" /\ e \in todo[p]
    BY <1>4 DEF Ghosts, LoseConnection
  <2>2. ~Answered(p, e)
    BY <2>1 DEF Answered, DupInv, TodoIsUnmarked
  <2>3. Due(e)' => Due(e)
    BY <1>1, <2>2, OthersAnswerAlike
  <2>4. Ghosts(e)' = Ghosts(e) \cup {p}
    BY <1>1, <1>4, OthersAnswerAlike DEF Ghosts
  <2>5. QED
    BY <1>1, <1>2, <2>3, <2>4, BudgetKept DEF DupInv, Budget
<1>5. QED
  BY <1>3, <1>4

LEMMA SendCosts ==
  ASSUME TypeOK, NEW p \in Publisher, NEW f \in Event,
         SendOk(p, f) \/ SendFails(p, f) \/ SendUnacked(p, f)
  PROVE  \E r \in {"acked", "refused"}, n \in Nat, m \in Nat :
            Send(p, f, r, n) /\ faults' = faults + m /\ n <= m + 1 /\ (r = "refused" => n <= m)
<1>0. faults \in Nat
  BY DEF TypeOK
<1>1. CASE SendOk(p, f)
  BY <1>0, <1>1 DEF SendOk
<1>2. CASE SendFails(p, f)
  BY <1>0, <1>2 DEF SendFails
<1>3. CASE SendUnacked(p, f)
  BY <1>0, <1>3 DEF SendUnacked, Suffer
<1>4. QED
  BY <1>1, <1>2, <1>3

\* Each step of publish_once stays within the budget.
LEMMA PublisherBudget ==
  ASSUME DupInv, NEW p \in Publisher, PublisherStep(p) PROVE Budget'
<1>1. TypeOK
  BY DEF DupInv, Inv
<1>2. EndTask(p) => OnlyMoves(p) /\ ~connected'[p] /\ \A e \in Event : p \notin Ghosts(e)'
  BY <1>1, EndTaskEffect DEF OnlyMoves, Ghosts
<1>3. CASE Claim(p)
  <2>1. OnlyMoves(p) /\ connected'[p] /\ UNCHANGED <<copies, faults, row>>
    BY <1>1, <1>3 DEF Claim, OnlyMoves, TypeOK
  <2>2. ~connected[p]
    BY <1>3 DEF Claim, DupInv, Inv, IdleHasNoTransaction
  <2>3. QED
    BY <2>1, <2>2, QuietBudget DEF Ghosts, Answered
<1>4. CASE FindNothing(p) \/ NoticeLoss(p)
  <2>1. ~connected[p] /\ EndTask(p) /\ UNCHANGED <<row, copies, faults>>
    BY <1>4 DEF FindNothing, NoticeLoss, DupInv, Inv, IdleHasNoTransaction
  <2>2. QED
    BY <1>2, <2>1, QuietBudget DEF Answered
<1>5. CASE Record(p)
  <2>1. OnlyMoves(p) /\ connected'[p] /\ UNCHANGED <<copies, faults, row>>
    BY <1>1, <1>5 DEF Record, OnlyMoves, TypeOK
  <2>2. \A e \in Event : Answered(p, e) => Answered(p, e)'
    BY <1>1, <1>5 DEF Record, Answered, TypeOK
  <2>3. QED
    BY <2>1, <2>2, QuietBudget DEF Ghosts
<1>6. CASE MarkFails(p)
  <2>1. OnlyMoves(p) /\ connected'[p] /\ copies' = copies /\ faults' = faults + 1
    BY <1>1, <1>6 DEF MarkFails, Suffer, OnlyMoves, TypeOK
  <2>2. QED
    BY <2>1, FaultBudget DEF Ghosts
<1>7. CASE CommitBatch(p)
  <2>1. /\ EndTask(p) /\ UNCHANGED <<copies, faults>> /\ pc[p] = "sending"
        /\ \A e \in Event : row'[e] = IF e \in marked[p] THEN "PUBLISHED" ELSE row[e]
    BY <1>7 DEF CommitBatch
  <2>2. QED
    BY <1>2, <2>1, QuietBudget DEF Answered
<1>8. CASE Crash(p)
  <2>1. EndTask(p) /\ copies' = copies /\ faults' = faults + 1
    BY <1>8 DEF Crash, Suffer
  <2>2. QED
    BY <1>2, <2>1, FaultBudget
<1>9. ASSUME NEW f \in Event, SendOk(p, f) \/ SendFails(p, f) \/ SendUnacked(p, f)
      PROVE  Budget'
  <2>1. PICK r \in {"acked", "refused"}, n \in Nat, m \in Nat :
            Send(p, f, r, n) /\ faults' = faults + m /\ n <= m + 1 /\ (r = "refused" => n <= m)
    BY <1>1, <1>9, SendCosts
  <2>2. QED
    BY <2>1, SendBudget
<1>10. QED
  BY <1>3, <1>4, <1>5, <1>6, <1>7, <1>8, <1>9, LoseConnectionBudget DEF PublisherStep

\* The rows that a commit makes PENDING have no copy yet and no publisher.
LEMMA UnitBudget ==
  ASSUME DupInv, NEW t \in Unit, UnitStep(t) PROVE Budget'
<1>1. TypeOK
  BY DEF DupInv, Inv
<1>2. CASE Begin(t) \/ Rollback(t) \/ (\E e \in Event : FlushEvent(t, e))
  <2>1. UNCHANGED <<row, pubVars, copies, faults>>
    BY <1>2 DEF Begin, Rollback, FlushEvent
  <2>2. QED
    BY <2>1 DEF DupInv, Budget, EventBudget, Ghosts, Due, Answered, pubVars
<1>3. CASE Commit(t) \/ CommitUnseen(t)
  <2> SUFFICES ASSUME NEW e \in Event PROVE EventBudget(e)'
    BY DEF Budget
  <2>1. /\ MakeDurable(t) /\ unit[t] = "active"
        /\ pc' = pc \/ (t \in Request /\ pc' = [pc EXCEPT ![t] = "ready"])
        /\ \E m \in Nat : faults' = faults + m
    <3>1. CASE Commit(t)
      <4>1. faults' = faults + 0
        BY <1>1, <3>1 DEF Commit, TypeOK
      <4>2. QED
        BY <3>1, <4>1 DEF Commit, MakeDurable, FirePublishOnce
    <3>2. CASE CommitUnseen(t)
      BY <3>2 DEF CommitUnseen, MakeDurable, Suffer
    <3>3. QED
      BY <1>3, <3>1, <3>2
  <2>2. /\ row'[e] = IF e \in flushed[t] THEN "PENDING" ELSE row[e]
        /\ UNCHANGED <<held, todo, marked, current, result, connected, copies>>
    BY <2>1 DEF MakeDurable
  <2>3. \A q \in Publisher : pc'[q] = pc[q] \/ (pc[q] = "off" /\ pc'[q] = "ready")
    BY <1>1, <2>1 DEF DupInv, Inv, TaskFollowsCommit, TypeOK
  <2>4. Ghosts(e)' = Ghosts(e) /\ \A q \in Publisher : Answered(q, e)' <=> Answered(q, e)
    BY <2>2, <2>3 DEF Ghosts, Answered
  <2>5. copies'[e] = copies[e] + 0
    BY <1>1, <2>2 DEF TypeOK
  <2>6. CASE e \notin flushed[t]
    <3>1. Due(e)' <=> Due(e)
      BY <2>2, <2>4, <2>6 DEF Due
    <3>2. PICK m \in Nat : faults' = faults + m
      BY <2>1
    <3>3. QED
      BY <1>1, <2>4, <2>5, <3>1, <3>2, BudgetKept DEF DupInv, Budget
  <2>7. CASE e \in flushed[t]
    <3>1. e \notin Committed
      BY <2>1, <2>7 DEF Committed, DupInv, FlushedOnce
    <3>2. copies[e] = 0
      BY <1>1, <3>1 DEF DupInv, Inv, NoPhantomEvent, TypeOK
    <3>3. Ghosts(e) = {}
      BY <3>1 DEF DupInv, Inv, HeldAreCommitted, PartsOfBatch, Ghosts
    <3>4. IsFiniteSet(Ghosts(e)') /\ Cardinality(Ghosts(e)') = 0
      BY <2>4, <3>3, FS_EmptySet
    <3>5. copies'[e] = 0 /\ faults' \in Nat
      BY <1>1, <2>1, <2>2, <3>2 DEF TypeOK
    <3> DEFINE H == Cardinality(Ghosts(e)')
               c == IF Due(e)' THEN 1 ELSE 0
    <3>6. H \in Nat /\ H = 0 /\ c \in Nat /\ c <= 1
      BY <3>4
    <3> HIDE DEF H, c
    <3>7. copies'[e] + H + c <= 1 + faults'
      <4>1. ASSUME NEW n \in Nat, NEW m \in Nat, n = 0 PROVE n + H + c <= 1 + m
        BY <3>6, <4>1
      <4>2. QED
        BY <3>5, <4>1
    <3> USE DEF H, c
    <3>8. QED
      BY <3>4, <3>7 DEF EventBudget
  <2>8. QED
    BY <2>6, <2>7
<1>4. QED
  BY <1>2, <1>3 DEF UnitStep

LEMMA DupStep == DupInv /\ [Next]_vars => DupInv'
<1> SUFFICES ASSUME DupInv, [Next]_vars PROVE DupInv'
  OBVIOUS
<1>1. TypeOK /\ Inv'
  BY NextInv DEF DupInv, Inv
<1>2. FlushedOnce'
  <2>1. ASSUME NEW t \in Unit, UnitStep(t) PROVE FlushedOnce'
    <3>1. ASSUME NEW e \in Event, FlushEvent(t, e) PROVE FlushedOnce'
      <4>1. \A u \in Unit : e \notin flushed[u]
        BY <3>1 DEF FlushEvent, DupInv, FlushedOnce
      <4>2. /\ flushed' = [flushed EXCEPT ![t] = @ \cup {e}]
            /\ createdAt' = [createdAt EXCEPT ![e] = clock + 1] /\ clock + 1 # 0
        BY <1>1, <3>1 DEF FlushEvent, TypeOK
      <4>3. QED
        BY <1>1, <4>1, <4>2 DEF DupInv, FlushedOnce, TypeOK
    <3>2. CASE Rollback(t)
      BY <1>1, <3>2 DEF Rollback, DupInv, FlushedOnce, TypeOK
    <3>3. CASE Begin(t) \/ Commit(t) \/ CommitUnseen(t)
      BY <3>3 DEF Begin, Commit, CommitUnseen, MakeDurable, DupInv, FlushedOnce
    <3>4. QED
      BY <2>1, <3>1, <3>2, <3>3 DEF UnitStep
  <2>2. CASE UNCHANGED txVars
    BY <2>2 DEF txVars, DupInv, FlushedOnce
  <2>3. ASSUME NEW p \in Publisher, PublisherStep(p) PROVE UNCHANGED txVars
    BY <2>3 DEF PublisherStep, Claim, FindNothing, Record, MarkFails, CommitBatch, LoseConnection,
                NoticeLoss, Crash, SendOk, SendFails, SendUnacked, Send
  <2>4. QED
    BY <2>1, <2>2, <2>3 DEF Next, DeletePublishedEvents, vars
<1>3. TodoIsUnmarked'
  <2>1. ASSUME NEW p \in Publisher, PublisherStep(p) PROVE TodoIsUnmarked'
    <3>1. CASE EndTask(p)
      BY <1>1, <3>1, EndTaskEffect DEF DupInv, TodoIsUnmarked
    <3>2. CASE Claim(p)
      <4>1. marked[p] = {} /\ marked' = marked
        BY <3>2 DEF Claim, DupInv, Inv, IdleHasNoTransaction, MarksNeedConnection
      <4>2. \A q \in Publisher \ {p} : todo'[q] = todo[q]
        BY <1>1, <3>2 DEF Claim, TypeOK
      <4>3. QED
        BY <4>1, <4>2 DEF DupInv, TodoIsUnmarked
    <3>3. CASE Record(p) \/ MarkFails(p) \/ LoseConnection(p)
      BY <1>1, <3>3 DEF Record, MarkFails, LoseConnection, DupInv, TodoIsUnmarked, TypeOK
    <3>4. CASE \E e \in Event : SendOk(p, e) \/ SendFails(p, e) \/ SendUnacked(p, e)
      BY <3>4 DEF SendOk, SendFails, SendUnacked, Send, DupInv, TodoIsUnmarked
    <3>5. QED
      BY <2>1, <3>1, <3>2, <3>3, <3>4 DEF PublisherStep, FindNothing, CommitBatch, NoticeLoss, Crash
  <2>2. ASSUME NEW t \in Unit, UnitStep(t) PROVE UNCHANGED <<todo, marked>>
    BY <2>2 DEF UnitStep, Begin, FlushEvent, Commit, CommitUnseen, MakeDurable, Rollback, pubVars
  <2>3. QED
    BY <2>1, <2>2 DEF Next, DeletePublishedEvents, vars, pubVars, DupInv, TodoIsUnmarked
<1>4. Budget'
  <2>1. CASE DeletePublishedEvents \/ UNCHANGED vars
    <3>1. /\ UNCHANGED <<pubVars, copies, faults>>
          /\ \A e \in Event : row'[e] = "PENDING" => row[e] = "PENDING"
      BY <1>1, <2>1 DEF DeletePublishedEvents, vars, TypeOK
    <3>2. \A e \in Event : Ghosts(e)' = Ghosts(e) /\ (Due(e)' => Due(e))
      BY <3>1 DEF pubVars, Ghosts, Due, Answered
    <3>3. \A e \in Event : copies'[e] = copies[e] + 0 /\ faults' = faults + 0
      BY <1>1, <3>1 DEF TypeOK
    <3>4. QED
      BY <1>1, <3>2, <3>3, BudgetKept DEF DupInv, Budget
  <2>2. QED
    BY <2>1, UnitBudget, PublisherBudget DEF Next
<1>5. QED
  BY <1>1, <1>2, <1>3, <1>4 DEF DupInv

LEMMA DupInit == Init => DupInv
<1> SUFFICES ASSUME Init PROVE DupInv
  OBVIOUS
<1>1. FlushedOnce /\ TodoIsUnmarked
  BY DEF Init, FlushedOnce, TodoIsUnmarked
<1>2. \A e \in Event : Ghosts(e) = {} /\ ~Due(e) /\ copies[e] = 0 /\ faults = 0
  BY DEF Init, Ghosts, Due
<1>3. Budget
  BY <1>2, FS_EmptySet DEF Budget, EventBudget
<1>4. QED
  BY <1>1, <1>3, InitInv DEF DupInv

\* However publishers, crashes, lost connections, failed marks and lost
\* acknowledgements interleave, each copy of an event beyond the first took a
\* fault of its own; without faults, delivery is exactly once.
THEOREM DuplicatesNeedFaultsCorrect == Safety => []DuplicatesNeedFaults
<1>1. DupInv => DuplicatesNeedFaults
  <2> SUFFICES ASSUME DupInv, NEW e \in Event PROVE copies[e] <= 1 + faults
    BY DEF DuplicatesNeedFaults
  <2>1. EventBudget(e) /\ copies[e] \in Nat /\ faults \in Nat
    BY DEF DupInv, Inv, Budget, TypeOK
  <2>2. Cardinality(Ghosts(e)) \in Nat
    BY <2>1, FS_CardinalityType DEF EventBudget
  <2>3. QED
    BY <2>1, <2>2 DEF EventBudget
<1>2. QED
  BY <1>1, DupInit, DupStep, PTL DEF Safety
=============================================================================
