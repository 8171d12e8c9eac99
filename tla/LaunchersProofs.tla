---------------------------- MODULE LaunchersProofs ----------------------------
(***************************************************************************)
(* Proofs about Launchers, for every group, topic and handler map: the     *)
(* launchers are event consumers, so what EventConsumerProofs shows holds  *)
(* of them, and whatever they commit has been answered by Temporal.        *)
(***************************************************************************)
EXTENDS Launchers, EventConsumerProofs

Answered(m, w) == <<EventAt(m), w>> \in done \cup refused
OnLog(m) == m \in Place /\ m.partition \in Partition /\ m.offset \in 1..Len(log[m.partition])

\* A message all of whose calls have been answered.
Finished(m) == OnLog(m) /\ \A w \in Handlers[EventAt(m)] : Answered(m, w)

\* A message under way: what is not waited for has been answered.
UnderWay(c) ==
  /\ OnLog(msg[c])
  /\ pending[c] \subseteq Handlers[EventAt(msg[c])]
  /\ \A w \in Handlers[EventAt(msg[c])] \ pending[c] : Answered(msg[c], w)

AnswersInv ==
  /\ \A m \in handed : Finished(m)
  /\ \A c \in Consumer : pc[c] = "handling" => UnderWay(c)

-----------------------------------------------------------------------------
(* The launchers are consumers. *)

LEMMA StepIsConsumerStep == [LauncherNext]_launcherVars => [Next]_vars
  <1> SUFFICES ASSUME [LauncherNext]_launcherVars PROVE [Next]_vars
    OBVIOUS
  <1>1. ASSUME NEW c \in Consumer, HandlerStep(c) PROVE [Next]_vars
    <2>1. HandlerReturns(c) \/ HandlerRaises(c) \/ UNCHANGED vars
      BY <1>1 DEF HandlerStep, EventHandled, StartWorkflow, StartRefused, SignalWorkflow, SignalRefused
    <2> QED
      BY <2>1 DEF Next, ConsumerStep
  <1>2. ASSUME NEW c \in Consumer, Fail(c) PROVE [Next]_vars
    BY <1>2 DEF Fail, Next, ConsumerStep
  <1>3. ASSUME NEW c \in Consumer, NEW p \in Partition, HandleEvent(c, p) PROVE [Next]_vars
    BY <1>3 DEF HandleEvent, Next, ConsumerStep
  <1>4. CASE Elsewhere
    BY <1>4 DEF Elsewhere, Next, ConsumerStep
  <1>5. CASE UNCHANGED launcherVars
    BY <1>5 DEF launcherVars
  <1> QED
    BY <1>1, <1>2, <1>3, <1>4, <1>5 DEF LauncherNext, Step

\* A group of launchers behaves as a group of consumers with some handler.
THEOREM ImplementsConsumer == LauncherSafety => Safety
  <1>1. LauncherInit => Init
    BY DEF LauncherInit
  <1> QED
    BY <1>1, StepIsConsumerStep, PTL DEF LauncherSafety, Safety

-----------------------------------------------------------------------------
(* Types. *)

LEMMA HandlersType == kind \in {"workflow", "signal"} => Handlers \in [Event -> SUBSET Workflow]
  BY HandlersAssumption DEF Handlers

LEMMA InitTypes == LauncherInit => LauncherTypeOK
  BY InitInv DEF LauncherInit, LauncherTypeOK, Inv

LEMMA StepTypes == Inv /\ LauncherTypeOK /\ AnswersInv /\ [LauncherNext]_launcherVars => LauncherTypeOK'
  <1> SUFFICES ASSUME Inv, LauncherTypeOK, AnswersInv, [LauncherNext]_launcherVars PROVE LauncherTypeOK'
    OBVIOUS
  <1>1. TypeOK'
    BY StepIsConsumerStep, NextInv DEF Inv
  <1>2. TypeOK
    BY DEF LauncherTypeOK
  <1>3. kind' = kind
    BY DEF LauncherNext, launcherVars
  <1>4. ASSUME NEW c \in Consumer, NEW w \in Workflow, Awaiting(c, w)
        PROVE  <<EventAt(msg[c]), w>> \in Id
    <2>1. OnLog(msg[c])
      BY <1>4 DEF Awaiting, AnswersInv, UnderWay
    <2>2. EventAt(msg[c]) \in Event
      BY <1>2, <2>1 DEF OnLog, EventAt, TypeOK
    <2> QED
      BY <2>2 DEF Id
  <1> USE DEF LauncherTypeOK
  <1>5. ASSUME NEW c \in Consumer, EventHandled(c) PROVE LauncherTypeOK'
    BY <1>1, <1>2, <1>3, <1>5 DEF EventHandled, HandlerReturns, temporalVars, TypeOK
  <1>6. ASSUME NEW c \in Consumer, NEW w \in Workflow,
               StartWorkflow(c, w) \/ StartRefused(c, w) \/ SignalWorkflow(c, w)
        PROVE  LauncherTypeOK'
    <2>1. Awaiting(c, w) /\ pending' = [pending EXCEPT ![c] = @ \ {w}] /\ pc' = pc
      BY <1>6 DEF StartWorkflow, StartRefused, SignalWorkflow, vars, handlerVars
    <2>2. done' \subseteq done \cup {<<EventAt(msg[c]), w>>} /\ refused' \subseteq refused \cup {<<EventAt(msg[c]), w>>}
      BY <1>6 DEF StartWorkflow, StartRefused, SignalWorkflow
    <2>3. done' \subseteq Id /\ refused' \subseteq Id
      BY <1>4, <2>1, <2>2
    <2> QED
      BY <1>1, <1>3, <2>1, <2>3
  <1>7. ASSUME NEW c \in Consumer, NEW w \in Workflow, SignalRefused(c, w) PROVE LauncherTypeOK'
    <2>1. Awaiting(c, w) /\ pending' = [pending EXCEPT ![c] = @ \ {w}] /\ done' = done
          /\ refused' = refused \cup {<<EventAt(msg[c]), w>>}
      BY <1>7 DEF SignalRefused
    <2>2. refused' \subseteq Id
      BY <1>4, <2>1
    <2>3. CASE Sole(c) /\ HandlerRaises(c)
      <3>1. Handlers[EventAt(msg[c])] \subseteq {w}
        BY <2>1, <2>3 DEF Sole, Awaiting, AnswersInv, UnderWay
      <3>2. pending'[c] = {}
        BY <2>1, <3>1 DEF Awaiting, AnswersInv, UnderWay
      <3>3. \A q \in Consumer \ {c} : pc'[q] = pc[q] /\ pending'[q] = pending[q]
        BY <1>2, <2>1, <2>3 DEF HandlerRaises, TypeOK
      <3> QED
        BY <1>1, <1>3, <2>1, <2>2, <3>2, <3>3
    <2>4. CASE pc' = pc
      BY <1>1, <1>3, <2>1, <2>2, <2>4
    <2> QED
      BY <1>7, <2>3, <2>4 DEF SignalRefused, vars, handlerVars
  <1>8. ASSUME NEW c \in Consumer, Fail(c) PROVE LauncherTypeOK'
    <2>1. pc' = [pc EXCEPT ![c] = "down"] /\ pending' = [pending EXCEPT ![c] = {}]
          /\ done' = done /\ refused' = refused
      BY <1>8 DEF Fail, CommitFails, Crash, Leave, temporalVars
    <2> QED
      BY <1>1, <1>2, <1>3, <2>1 DEF TypeOK
  <1>9. ASSUME NEW c \in Consumer, NEW p \in Partition, HandleEvent(c, p) PROVE LauncherTypeOK'
    <2>1. log[p][position[p] + 1] \in Event
      BY <1>2, <1>9 DEF HandleEvent, Deliver, TypeOK
    <2>2. Handlers[log[p][position[p] + 1]] \subseteq Workflow
      BY <2>1, HandlersType
    <2>3. pc' = [pc EXCEPT ![c] = "handling"] /\ done' = done /\ refused' = refused
          /\ pending' = [pending EXCEPT ![c] = Handlers[log[p][position[p] + 1]]]
      BY <1>9 DEF HandleEvent, Deliver, temporalVars
    <2> QED
      BY <1>1, <1>2, <1>3, <2>2, <2>3 DEF TypeOK
  <1>10. CASE Elsewhere
    <2>1. UNCHANGED <<pending, done, refused>>
      BY <1>10 DEF Elsewhere, Idle, temporalVars
    <2>2. \A c \in Consumer : pc[c] = "handling" => pc'[c] = "handling"
      BY <1>2, <1>10 DEF Elsewhere, Rebalance, CalmDown, Produce, Start, Commit, handlerVars, TypeOK
    <2> QED
      BY <1>1, <1>3, <2>1, <2>2
  <1>11. CASE UNCHANGED launcherVars
    BY <1>1, <1>11 DEF launcherVars, vars, handlerVars, temporalVars
  <1> QED
    BY <1>5, <1>6, <1>7, <1>8, <1>9, <1>10, <1>11 DEF LauncherNext, Step, HandlerStep

-----------------------------------------------------------------------------
(* Answers. *)

\* The log only grows, the handler map stays, and an answer is never undone.
LEMMA AnswersKept ==
  ASSUME LauncherTypeOK, [LauncherNext]_launcherVars
  PROVE  /\ \A m \in Place : OnLog(m) => OnLog(m)' /\ EventAt(m)' = EventAt(m)
         /\ Handlers' = Handlers
         /\ done \subseteq done' /\ refused \subseteq refused'
  <1>1. TypeOK
    BY DEF LauncherTypeOK
  <1>2. ASSUME NEW e \in Event, Produce(e)
        PROVE  \A m \in Place : OnLog(m) => OnLog(m)' /\ EventAt(m)' = EventAt(m)
    <2>1. Home[e] \in Partition
      BY HomeAssumption
    <2>2. ASSUME NEW p \in Partition, NEW i \in 1..Len(log[p])
          PROVE  i \in 1..Len(log'[p]) /\ log'[p][i] = log[p][i]
      BY <1>1, <1>2, <2>1 DEF Produce, TypeOK
    <2> QED
      BY <2>2 DEF OnLog, EventAt
  <1>3. (\E e \in Event : Produce(e)) \/ log' = log
    BY DEF LauncherNext, Step, HandlerStep, EventHandled, StartWorkflow, StartRefused,
       SignalWorkflow, SignalRefused, Fail, HandleEvent, Elsewhere, HandlerReturns,
       HandlerRaises, CommitFails, Crash, Leave, Deliver, Rebalance, CalmDown, Start, Commit,
       launcherVars, vars
  <1>4. Handlers' = Handlers
    BY DEF LauncherNext, launcherVars, Handlers
  <1>5. done \subseteq done' /\ refused \subseteq refused'
    BY DEF LauncherNext, Step, HandlerStep, EventHandled, StartWorkflow, StartRefused,
       SignalWorkflow, SignalRefused, Fail, HandleEvent, Elsewhere, Idle, temporalVars,
       launcherVars
  <1> QED
    BY <1>2, <1>3, <1>4, <1>5 DEF OnLog, EventAt

LEMMA FinishedKept ==
  ASSUME LauncherTypeOK, [LauncherNext]_launcherVars, NEW m \in Place, Finished(m)
  PROVE  Finished(m)'
  BY AnswersKept DEF Finished, OnLog, Answered

LEMMA UnderWayKept ==
  ASSUME LauncherTypeOK, [LauncherNext]_launcherVars, NEW c \in Consumer, UnderWay(c),
         msg'[c] = msg[c], pending'[c] = pending[c]
  PROVE  UnderWay(c)'
  <1>1. msg[c] \in Place /\ OnLog(msg[c])
    BY DEF UnderWay, OnLog
  <1>2. OnLog(msg[c])' /\ EventAt(msg[c])' = EventAt(msg[c])
    BY <1>1, AnswersKept DEF OnLog, EventAt
  <1> QED
    BY <1>2, AnswersKept DEF UnderWay, Answered, OnLog

LEMMA InitAnswers == LauncherInit => AnswersInv
  BY DEF LauncherInit, Init, AnswersInv

LEMMA StepAnswers == LauncherTypeOK /\ AnswersInv /\ [LauncherNext]_launcherVars => AnswersInv'
  <1> SUFFICES ASSUME LauncherTypeOK, AnswersInv, [LauncherNext]_launcherVars PROVE AnswersInv'
    OBVIOUS
  <1>1. TypeOK /\ handed \subseteq Place
    BY DEF LauncherTypeOK, TypeOK
  \* It is enough that a step hands over only what is finished, and that each
  \* message under way is left alone or looked after.
  <1>2. ASSUME \A m \in handed' \ handed : m \in Place /\ Finished(m),
               \A d \in Consumer : pc'[d] = "handling" =>
                 \/ pc[d] = "handling" /\ msg'[d] = msg[d] /\ pending'[d] = pending[d]
                 \/ UnderWay(d)'
        PROVE  AnswersInv'
    <2>1. ASSUME NEW m \in handed' PROVE Finished(m)'
      <3>1. m \in Place /\ Finished(m)
        BY <1>1, <1>2 DEF AnswersInv
      <3> QED
        BY <3>1, FinishedKept
    <2>2. ASSUME NEW d \in Consumer, pc'[d] = "handling" PROVE UnderWay(d)'
      BY <1>2, <2>2, UnderWayKept DEF AnswersInv
    <2> QED
      BY <2>1, <2>2 DEF AnswersInv
  <1>3. ASSUME NEW c \in Consumer, pc[c] = "handling", pending[c] = {}
        PROVE  msg[c] \in Place /\ Finished(msg[c])
    BY <1>3 DEF AnswersInv, UnderWay, Finished, OnLog
  <1>4. ASSUME NEW c \in Consumer, EventHandled(c) PROVE AnswersInv'
    <2>1. pc[c] = "handling" /\ pending[c] = {} /\ handed' = handed \cup {msg[c]}
          /\ pc' = [pc EXCEPT ![c] = "handled"] /\ msg' = msg /\ pending' = pending
      BY <1>4 DEF EventHandled, HandlerReturns
    <2>2. \A d \in Consumer : pc'[d] = "handling" => pc[d] = "handling"
      BY <1>1, <2>1 DEF TypeOK
    <2> QED
      BY <1>2, <1>3, <2>1, <2>2
  \* One call of a message under way is answered.
  <1>5. ASSUME NEW c \in Consumer, NEW w \in Workflow, Awaiting(c, w), msg' = msg,
               pending' = [pending EXCEPT ![c] = @ \ {w}],
               <<EventAt(msg[c]), w>> \in done' \cup refused'
        PROVE  UnderWay(c)' /\ \A d \in Consumer \ {c} : pending'[d] = pending[d]
    <2>1. UnderWay(c)
      BY <1>5 DEF Awaiting, AnswersInv
    <2>2. msg[c] \in Place /\ OnLog(msg[c])
      BY <2>1 DEF UnderWay, OnLog
    <2>3. OnLog(msg[c])' /\ EventAt(msg[c])' = EventAt(msg[c])
      BY <1>5, <2>2, AnswersKept DEF OnLog, EventAt
    <2>4. pending'[c] = pending[c] \ {w}
      BY <1>5 DEF LauncherTypeOK
    <2>5. UnderWay(c)'
      BY <1>5, <2>1, <2>3, <2>4, AnswersKept DEF UnderWay, Answered, OnLog
    <2> QED
      BY <1>5, <2>5 DEF LauncherTypeOK
  <1>6. ASSUME NEW c \in Consumer, NEW w \in Workflow,
               StartWorkflow(c, w) \/ StartRefused(c, w) \/ SignalWorkflow(c, w)
        PROVE  AnswersInv'
    <2>1. Awaiting(c, w) /\ pending' = [pending EXCEPT ![c] = @ \ {w}] /\ UNCHANGED vars
          /\ <<EventAt(msg[c]), w>> \in done' \cup refused'
      BY <1>6 DEF StartWorkflow, StartRefused, SignalWorkflow
    <2>2. pc' = pc /\ msg' = msg /\ handed' = handed
      BY <2>1 DEF vars, handlerVars
    <2> QED
      BY <1>2, <1>5, <2>1, <2>2
  <1>7. ASSUME NEW c \in Consumer, NEW w \in Workflow, SignalRefused(c, w) PROVE AnswersInv'
    <2>1. Awaiting(c, w) /\ pending' = [pending EXCEPT ![c] = @ \ {w}]
          /\ refused' = refused \cup {<<EventAt(msg[c]), w>>}
      BY <1>7 DEF SignalRefused
    <2>2. CASE UNCHANGED vars
      BY <1>2, <1>5, <2>1, <2>2 DEF vars, handlerVars
    <2>3. CASE Sole(c) /\ HandlerRaises(c)
      <3>1. handed' = handed \cup {msg[c]} /\ pc' = [pc EXCEPT ![c] = "polling"]
            /\ msg' = [msg EXCEPT ![c] = None]
        BY <2>3 DEF HandlerRaises
      <3>2. UnderWay(c) /\ Handlers[EventAt(msg[c])] = {w}
        BY <2>1, <2>3 DEF Awaiting, AnswersInv, Sole, UnderWay
      <3>3. ASSUME NEW m \in handed' PROVE Finished(m)'
        <4>1. CASE m \in handed
          BY <1>1, <4>1, FinishedKept DEF AnswersInv
        <4>2. CASE m = msg[c]
          <5>1. OnLog(m) /\ m \in Place /\ Handlers[EventAt(m)] = {w}
                /\ <<EventAt(m), w>> \in refused'
            BY <2>1, <3>2, <4>2 DEF UnderWay, OnLog
          <5> QED
            BY <5>1, AnswersKept DEF Finished, Answered, OnLog
        <4> QED
          BY <3>1, <4>1, <4>2
      <3>4. ASSUME NEW d \in Consumer, pc'[d] = "handling" PROVE UnderWay(d)'
        <4>1. d # c /\ pc[d] = "handling" /\ msg'[d] = msg[d]
          BY <1>1, <3>1, <3>4 DEF TypeOK
        <4>2. pending'[d] = pending[d]
          BY <2>1, <4>1 DEF LauncherTypeOK
        <4> QED
          BY <4>1, <4>2, UnderWayKept DEF AnswersInv
      <3> QED
        BY <3>3, <3>4 DEF AnswersInv
    <2> QED
      BY <1>7, <2>2, <2>3 DEF SignalRefused
  <1>8. ASSUME NEW c \in Consumer, Fail(c) PROVE AnswersInv'
    <2>1. pc' = [pc EXCEPT ![c] = "down"] /\ msg' = [msg EXCEPT ![c] = None]
          /\ pending' = [pending EXCEPT ![c] = {}] /\ handed' = handed
      BY <1>8 DEF Fail, CommitFails, Crash, Leave
    <2>2. \A d \in Consumer : pc'[d] = "handling" =>
            pc[d] = "handling" /\ msg'[d] = msg[d] /\ pending'[d] = pending[d]
      BY <1>1, <2>1 DEF TypeOK, LauncherTypeOK
    <2> QED
      BY <1>2, <2>1, <2>2
  <1>9. ASSUME NEW c \in Consumer, NEW p \in Partition, HandleEvent(c, p) PROVE AnswersInv'
    <2>1. position[p] < Len(log[p]) /\ handed' = handed /\ log' = log
          /\ pc' = [pc EXCEPT ![c] = "handling"]
          /\ msg' = [msg EXCEPT ![c] = At(p, position[p] + 1)]
          /\ pending' = [pending EXCEPT ![c] = Handlers[log[p][position[p] + 1]]]
      BY <1>9 DEF HandleEvent, Deliver
    <2>2. position[p] \in Nat /\ Len(log[p]) \in Nat
      BY <1>1 DEF TypeOK
    <2>3. msg'[c] = At(p, position[p] + 1) /\ pending'[c] = Handlers[log[p][position[p] + 1]]
      BY <1>1, <2>1 DEF TypeOK, LauncherTypeOK
    <2>4. position[p] + 1 \in Nat \ {0} /\ position[p] + 1 \in 1..Len(log[p])
      BY <2>1, <2>2
    <2>5. UnderWay(c)'
      BY <2>1, <2>3, <2>4, AnswersKept DEF UnderWay, OnLog, EventAt, At, Place
    <2>6. \A d \in Consumer \ {c} : pc'[d] = pc[d] /\ msg'[d] = msg[d] /\ pending'[d] = pending[d]
      BY <1>1, <2>1 DEF TypeOK, LauncherTypeOK
    <2> QED
      BY <1>2, <2>1, <2>5, <2>6
  <1>10. CASE Elsewhere
    <2>1. pending' = pending /\ handed' = handed
      BY <1>10 DEF Elsewhere, Idle, Rebalance, CalmDown, Produce, Start, Commit, handlerVars
    <2>2. \A c \in Consumer : pc'[c] = "handling" => pc[c] = "handling" /\ msg'[c] = msg[c]
      BY <1>1, <1>10 DEF Elsewhere, Rebalance, CalmDown, Produce, Start, Commit, handlerVars, TypeOK
    <2> QED
      BY <1>2, <2>1, <2>2
  <1>11. CASE UNCHANGED launcherVars
    BY <1>2, <1>11 DEF launcherVars, vars, handlerVars
  <1> QED
    BY <1>4, <1>6, <1>7, <1>8, <1>9, <1>10, <1>11 DEF LauncherNext, Step, HandlerStep

-----------------------------------------------------------------------------
LauncherInv == Inv /\ LauncherTypeOK /\ AnswersInv

LEMMA LauncherInvariance == LauncherSafety => []LauncherInv
  <1>1. LauncherInit => LauncherInv
    BY InitInv, InitTypes, InitAnswers DEF LauncherInit, LauncherInv
  <1>2. LauncherInv /\ [LauncherNext]_launcherVars => LauncherInv'
    BY NextInv, StepIsConsumerStep, StepTypes, StepAnswers DEF LauncherInv
  <1> QED
    BY <1>1, <1>2, PTL DEF LauncherSafety

\* The types, and no call is waited for by a member that handles no message
\* (_handle_event awaits the gather before it returns).
THEOREM LauncherTypeCorrect == LauncherSafety => []LauncherTypeOK
  BY LauncherInvariance, PTL DEF LauncherInv

\* Whatever is crashed, refused or reassigned: the offset of an event is not
\* committed before each of its workflows has been started or signalled or the
\* error logged (consumer.py, commit after the handler; _handle_event).
THEOREM CommittedIsAnsweredCorrect == LauncherSafety => []CommittedIsAnswered
  <1>1. LauncherInv => CommittedIsAnswered
    <2> SUFFICES ASSUME LauncherInv, NEW p \in Partition, NEW i \in 1..committed[p],
                        NEW w \in Handlers[log[p][i]]
                 PROVE  <<log[p][i], w>> \in done \cup refused
      BY DEF CommittedIsAnswered
    <2>1. Finished(At(p, i))
      BY DEF LauncherInv, Inv, CommitCoversHandled, AnswersInv
    <2>2. EventAt(At(p, i)) = log[p][i]
      BY DEF EventAt, At
    <2> QED
      BY <2>1, <2>2 DEF Finished, Answered
  <1> QED
    BY <1>1, LauncherInvariance, PTL
=============================================================================
