-------------------------- MODULE KafkaProducerProofs --------------------------
(***************************************************************************)
(* Proofs about KafkaProducer, for any tasks and clients. One invariant    *)
(* says where a call of publish_dict stands by the await its task is at;   *)
(* another what a single caller knows about the shared object there.       *)
(***************************************************************************)
EXTENDS KafkaProducer, FiniteSetTheorems, TLAPS

\* The awaits that are about an object, and what each of them is for.
Purposes(where) ==
  CASE where \in {"idle", "fetch", "closing"} -> {"none"}
    [] where \in {"starting", "cleanup"} -> {"fetch", "first", "retry"}
    [] where = "sending" -> {"first", "retry"}
    [] OTHER -> {"retry"}

AwaitsAreTyped ==
  \A t \in Task :
    /\ after[t] \in Purposes(pc[t])
    /\ IF pc[t] \in {"idle", "fetch"} THEN mine[t] = None ELSE mine[t] \in Client

\* A call that is under way has returned nothing; each send of it may have left
\* one copy, the second only after the first has failed.
CallsAreHonest ==
  \A t \in Task :
    /\ after[t] \in {"first", "retry"} => result[t] = "none"
    /\ after[t] = "first" => appended[t] = 0
    /\ after[t] = "retry" => appended[t] <= 1

CallInv == TypeOK /\ AwaitsAreTyped /\ CallsAreHonest /\ PublishContract

\* What the only caller t knows of the producer at each of its awaits.
Known(t) ==
  CASE pc[t] \in {"idle", "fetch"} ->
         IF started THEN current \in Client /\ client[current] = "running" ELSE current = None
    [] pc[t] \in {"starting", "cleanup"} ->
         ~started /\ current = mine[t] /\ client[mine[t]] = "starting"
    [] pc[t] \in {"sending", "closing"} ->
         started /\ current = mine[t] /\ client[mine[t]] = "running"
    [] OTHER -> ~started /\ current = None

Reachable(t) == \A c \in Client : client[c] = "running" => c = current \/ c = mine[t]

SoleInv == \A t \in Task : callers = {t} => Known(t) /\ Reachable(t)

-----------------------------------------------------------------------------
LEMMA InitCall == Init => CallInv
  <1> SUFFICES ASSUME Init PROVE CallInv
    OBVIOUS
  <1>1. TypeOK
    <2>1. callers \subseteq Task
      BY DEF Init
    <2>2. appended \in [Task -> 0..2]
      BY DEF Init
    <2> QED
      BY <2>1, <2>2 DEF Init, TypeOK
  <1> QED
    BY <1>1 DEF Init, CallInv, AwaitsAreTyped, CallsAreHonest, PublishContract, Purposes

\* The steps that change no task but t need only be looked at for t.
LEMMA OneTaskMoves ==
  ASSUME CallInv, NEW t \in Task, NEW where, NEW c, NEW k, Suspend(t, where, c, k),
         where \in {"idle", "fetch", "starting", "cleanup", "sending", "resetting", "closing"},
         c \in Client \cup {None}, k \in Purposes(where),
         IF where \in {"idle", "fetch"} THEN c = None ELSE c \in Client,
         result' \in [Task -> {"none", "acked", "refused"}],
         appended' \in [Task -> 0..2],
         \A q \in Task \ {t} : result'[q] = result[q] /\ appended'[q] = appended[q],
         k \in {"first", "retry"} => result'[t] = "none",
         k = "first" => appended'[t] = 0,
         k = "retry" => appended'[t] <= 1,
         result'[t] = "acked" => appended'[t] \in 1..2,
         started' \in BOOLEAN, current' \in Client \cup {None},
         client' \in [Client -> {"unused", "starting", "running", "stopped"}],
         kafkaUp' \in BOOLEAN, callers' = callers
  PROVE  CallInv'
  <1> USE DEF CallInv, Suspend
  <1>1. /\ pc' = [pc EXCEPT ![t] = where] /\ mine' = [mine EXCEPT ![t] = c]
        /\ after' = [after EXCEPT ![t] = k]
    OBVIOUS
  <1>2. k \in {"none", "fetch", "first", "retry"}
    BY DEF Purposes
  <1>3. TypeOK'
    <2>1. pc' \in [Task -> {"idle", "fetch", "starting", "cleanup", "sending", "resetting", "closing"}]
      BY <1>1 DEF TypeOK
    <2>2. mine' \in [Task -> Client \cup {None}] /\ after' \in [Task -> {"none", "fetch", "first", "retry"}]
      BY <1>1, <1>2 DEF TypeOK
    <2> QED
      BY <2>1, <2>2 DEF TypeOK
  <1>4. AwaitsAreTyped'
    BY <1>1 DEF TypeOK, AwaitsAreTyped, Purposes
  <1>5. CallsAreHonest'
    BY <1>1 DEF TypeOK, CallsAreHonest
  <1>6. PublishContract'
    <2> SUFFICES ASSUME NEW q \in Task
                 PROVE  /\ result'[q] = "acked" => appended'[q] \in 1..2
                        /\ appended'[q] <= 2
      BY DEF PublishContract
    <2>1. appended'[q] \in 0..2
      OBVIOUS
    <2>2. appended'[q] <= 2
      BY <2>1
    <2> QED
      BY <2>2 DEF PublishContract
  <1> QED
    BY <1>3, <1>4, <1>5, <1>6

\* What is known of a task between two of its steps.
LEMMA AtAnAwait ==
  ASSUME CallInv, NEW t \in Task
  PROVE  /\ after[t] \in Purposes(pc[t])
         /\ IF pc[t] \in {"idle", "fetch"} THEN mine[t] = None ELSE mine[t] \in Client
         /\ after[t] \in {"first", "retry"} => result[t] = "none"
         /\ after[t] = "first" => appended[t] = 0
         /\ after[t] = "retry" => appended[t] \in 0..1
         /\ result[t] = "acked" => appended[t] \in 1..2
         /\ appended[t] \in 0..2
  <1>1. appended[t] \in 0..2
    BY DEF CallInv, TypeOK
  <1> QED
    BY <1>1 DEF CallInv, AwaitsAreTyped, CallsAreHonest, PublishContract

\* publish_dict goes on to its send, or returns False for want of an object.
LEMMA BeginSendCall ==
  ASSUME CallInv, NEW t \in Task, NEW k \in {"first", "retry"}, NEW c \in Client \cup {None},
         BeginSend(t, k, c), appended' \in [Task -> 0..2],
         \A q \in Task \ {t} : appended'[q] = appended[q],
         k = "first" => appended'[t] = 0, k = "retry" => appended'[t] <= 1,
         started' \in BOOLEAN, current' \in Client \cup {None},
         client' \in [Client -> {"unused", "starting", "running", "stopped"}],
         kafkaUp' \in BOOLEAN, callers' = callers
  PROVE  CallInv'
  <1>1. result \in [Task -> {"none", "acked", "refused"}]
    BY DEF CallInv, TypeOK
  <1>2. CASE c = None
    <2>1. result' = [result EXCEPT ![t] = "refused"] /\ Suspend(t, "fetch", None, "none")
      BY <1>2 DEF BeginSend, Answer
    <2> QED
      BY <1>1, <2>1, OneTaskMoves DEF Purposes
  <1>3. CASE c # None
    <2>1. result' = [result EXCEPT ![t] = "none"] /\ Suspend(t, "sending", c, k)
      BY <1>3 DEF BeginSend
    <2> QED
      BY <1>1, <1>3, <2>1, OneTaskMoves DEF Purposes
  <1> QED
    BY <1>2, <1>3

LEMMA NextCall == CallInv /\ [Next]_vars => CallInv'
  <1> SUFFICES ASSUME CallInv, [Next]_vars PROVE CallInv'
    OBVIOUS
  <1>1. TypeOK
    BY DEF CallInv
  <1>2. CASE UNCHANGED vars
    BY <1>2 DEF vars, shared, taskVars, CallInv, TypeOK, AwaitsAreTyped, CallsAreHonest, PublishContract
  <1>3. CASE Outage /\ UNCHANGED callers
    BY <1>3 DEF Outage, shared, taskVars, CallInv, TypeOK, AwaitsAreTyped, CallsAreHonest, PublishContract
  <1>4. ASSUME NEW t \in Task, TaskStep(t), UNCHANGED callers PROVE CallInv'
    <2> USE <1>4, <1>1
    <2>1. ASSUME Call(t) PROVE CallInv'
      <3>1. CASE started
        BY <2>1, <3>1, OneTaskMoves, AtAnAwait DEF Call, Purposes, TypeOK
      <3>2. CASE ~started
        <4>1. PICK c \in Client : /\ client' = [client EXCEPT ![c] = "starting"]
                                  /\ current' = c /\ Suspend(t, "starting", c, "fetch")
          BY <2>1, <3>2 DEF Call, BeginStart
        <4> QED
          BY <2>1, <4>1, OneTaskMoves, AtAnAwait DEF Call, Purposes, TypeOK
      <3> QED
        BY <3>1, <3>2
    <2>2. ASSUME Publish(t) PROVE CallInv'
      <3>1. /\ appended' \in [Task -> 0..2] /\ appended'[t] = 0
            /\ \A q \in Task \ {t} : appended'[q] = appended[q]
        BY <2>2 DEF Publish, TypeOK
      <3>2. CASE started
        BY <2>2, <3>1, <3>2, BeginSendCall DEF Publish, TypeOK
      <3>3. CASE ~started
        <4>1. PICK c \in Client : /\ client' = [client EXCEPT ![c] = "starting"]
                                  /\ current' = c /\ Suspend(t, "starting", c, "first")
          BY <2>2, <3>3 DEF Publish, BeginStart
        <4> QED
          BY <2>2, <3>1, <3>3, <4>1, OneTaskMoves DEF Publish, Purposes, TypeOK
      <3> QED
        BY <3>2, <3>3
    <2>3. ASSUME Return(t) PROVE CallInv'
      BY <2>3, OneTaskMoves DEF Return, shared, Purposes, TypeOK
    <2>4. ASSUME StartOk(t) PROVE CallInv'
      <3>1. client' \in [Client -> {"unused", "starting", "running", "stopped"}]
        BY <2>4 DEF StartOk, TypeOK
      <3>2. CASE after[t] = "fetch"
        BY <2>4, <3>1, <3>2, OneTaskMoves, AtAnAwait DEF StartOk, Purposes, TypeOK
      <3>3. CASE after[t] # "fetch"
        <4>1. after[t] \in {"first", "retry"}
          BY <2>4, <3>3, AtAnAwait DEF StartOk, Purposes
        <4> QED
          BY <2>4, <3>1, <3>3, <4>1, BeginSendCall, AtAnAwait DEF StartOk, TypeOK
      <3> QED
        BY <3>2, <3>3
    <2>5. ASSUME StartFails(t) PROVE CallInv'
      BY <2>5, OneTaskMoves, AtAnAwait DEF StartFails, shared, Purposes, TypeOK
    <2>6. ASSUME StartGivesUp(t) PROVE CallInv'
      <3>1. /\ client' \in [Client -> {"unused", "starting", "running", "stopped"}]
            /\ started' \in BOOLEAN /\ current' \in Client \cup {None}
            /\ appended' = appended /\ kafkaUp' = kafkaUp
        BY <2>6 DEF StartGivesUp, TypeOK
      <3>2. CASE after[t] = "fetch"
        <4>1. result' = result /\ Suspend(t, "fetch", None, "none")
          BY <2>6, <3>2 DEF StartGivesUp
        <4> QED
          BY <3>1, <4>1, OneTaskMoves, AtAnAwait DEF Purposes, TypeOK
      <3>3. CASE after[t] # "fetch"
        <4>1. result' = [result EXCEPT ![t] = "refused"] /\ Suspend(t, "fetch", None, "none")
          BY <2>6, <3>3 DEF StartGivesUp, Answer
        <4> QED
          BY <3>1, <4>1, OneTaskMoves DEF Purposes, TypeOK
      <3> QED
        BY <3>2, <3>3
    <2>7. ASSUME SendOk(t) PROVE CallInv'
      <3>1. appended[t] \in 0..1
        BY <2>7, AtAnAwait DEF SendOk, Purposes
      <3>2. /\ appended' \in [Task -> 0..2] /\ appended'[t] \in 1..2
            /\ \A q \in Task \ {t} : appended'[q] = appended[q]
        BY <2>7, <3>1 DEF SendOk, TypeOK
      <3> QED
        BY <2>7, <3>2, OneTaskMoves DEF SendOk, Answer, shared, Purposes, TypeOK
    <2>8. ASSUME FirstSendFails(t) PROVE CallInv'
      <3>1. after[t] = "first" /\ appended[t] = 0 /\ result[t] = "none"
        BY <2>8, AtAnAwait DEF FirstSendFails
      <3>2. PICK n \in {0, 1} : appended' = [appended EXCEPT ![t] = @ + n]
        BY <2>8 DEF FirstSendFails, SendBreaks
      <3>3. /\ appended' \in [Task -> 0..2] /\ appended'[t] <= 1
            /\ \A q \in Task \ {t} : appended'[q] = appended[q]
        BY <3>1, <3>2 DEF TypeOK
      <3>4. kafkaUp' = kafkaUp
        BY <2>8 DEF FirstSendFails, SendBreaks
      <3>5. CASE current = None
        <4>1. PICK c \in Client : /\ client' = [client EXCEPT ![c] = "starting"]
                                  /\ current' = c /\ Suspend(t, "starting", c, "retry")
          BY <2>8, <3>5 DEF FirstSendFails, BeginStart
        <4> QED
          BY <2>8, <3>1, <3>3, <3>4, <4>1, OneTaskMoves DEF FirstSendFails, Purposes, TypeOK
      <3>6. CASE current # None
        BY <2>8, <3>1, <3>3, <3>4, <3>6, OneTaskMoves DEF FirstSendFails, Purposes, TypeOK
      <3> QED
        BY <3>5, <3>6
    <2>9. ASSUME ResetDone(t) PROVE CallInv'
      <3>1. after[t] = "retry" /\ appended[t] \in 0..1 /\ result[t] = "none"
        BY <2>9, AtAnAwait DEF ResetDone, Purposes
      <3>2. CASE started
        BY <2>9, <3>1, <3>2, BeginSendCall DEF ResetDone, TypeOK
      <3>3. CASE ~started
        <4>1. PICK c \in Client :
                /\ client' = [client EXCEPT ![mine[t]] = "stopped", ![c] = "starting"]
                /\ current' = c /\ Suspend(t, "starting", c, "retry") /\ UNCHANGED result
          BY <2>9, <3>3 DEF ResetDone
        <4> QED
          BY <2>9, <3>1, <4>1, OneTaskMoves DEF ResetDone, Purposes, TypeOK
      <3> QED
        BY <3>2, <3>3
    <2>10. ASSUME RetryFails(t) PROVE CallInv'
      <3>1. appended[t] \in 0..1
        BY <2>10, AtAnAwait DEF RetryFails
      <3>2. PICK n \in {0, 1} : appended' = [appended EXCEPT ![t] = @ + n]
        BY <2>10 DEF RetryFails, SendBreaks
      <3>3. appended' \in [Task -> 0..2] /\ \A q \in Task \ {t} : appended'[q] = appended[q]
        BY <3>1, <3>2 DEF TypeOK
      <3>4. kafkaUp' = kafkaUp
        BY <2>10 DEF RetryFails, SendBreaks
      <3> QED
        BY <2>10, <3>3, <3>4, OneTaskMoves DEF RetryFails, Answer, shared, Purposes, TypeOK
    <2>11. ASSUME StopBegins(t) PROVE CallInv'
      BY <2>11, OneTaskMoves, AtAnAwait DEF StopBegins, shared, Purposes, TypeOK
    <2>12. ASSUME StopEnds(t) PROVE CallInv'
      BY <2>12, OneTaskMoves, AtAnAwait DEF StopEnds, Purposes, TypeOK
    <2> QED
      BY <2>1, <2>2, <2>3, <2>4, <2>5, <2>6, <2>7, <2>8, <2>9, <2>10, <2>11, <2>12
         DEF TaskStep, Progress
  <1> QED
    BY <1>1, <1>2, <1>3, <1>4 DEF Next, TypeOK

-----------------------------------------------------------------------------
LEMMA InitSole == Init => SoleInv
  BY DEF Init, SoleInv, Known, Reachable

LEMMA NextSole == CallInv /\ SoleInv /\ [Next]_vars => SoleInv'
  <1> SUFFICES ASSUME CallInv, SoleInv, [Next]_vars, NEW t \in Task, callers' = {t}
               PROVE  Known(t)' /\ Reachable(t)'
    BY DEF SoleInv
  <1>1. TypeOK /\ callers = {t} /\ (pc[t] \in {"idle", "fetch"} => mine[t] = None)
    BY DEF CallInv, AwaitsAreTyped, Next, vars
  <1>2. Known(t) /\ Reachable(t)
    BY <1>1 DEF SoleInv
  <1>3. CASE UNCHANGED vars \/ Outage
    BY <1>2, <1>3 DEF vars, shared, taskVars, Outage, Known, Reachable
  <1>4. CASE TaskStep(t)
    <2> USE <1>1, <1>2, NoneIsNoClient
    <2>1. \A where, c, k : Suspend(t, where, c, k) => pc'[t] = where /\ mine'[t] = c
      BY DEF Suspend, TypeOK
    <2>2. ASSUME Call(t) PROVE Known(t)' /\ Reachable(t)'
      <3>1. CASE started
        BY <2>1, <2>2, <3>1 DEF Call, Known, Reachable
      <3>2. CASE ~started
        BY <2>1, <2>2, <3>2 DEF Call, BeginStart, Known, Reachable, TypeOK
      <3> QED
        BY <3>1, <3>2
    <2>3. ASSUME Publish(t) PROVE Known(t)' /\ Reachable(t)'
      <3>1. CASE started
        BY <2>1, <2>3, <3>1 DEF Publish, BeginSend, Answer, Known, Reachable
      <3>2. CASE ~started
        BY <2>1, <2>3, <3>2 DEF Publish, BeginStart, Known, Reachable, TypeOK
      <3> QED
        BY <3>1, <3>2
    <2>4. ASSUME Return(t) \/ StartFails(t) \/ StopBegins(t) PROVE Known(t)' /\ Reachable(t)'
      BY <2>1, <2>4 DEF Return, StartFails, StopBegins, shared, Known, Reachable
    <2>5. ASSUME StartOk(t) PROVE Known(t)' /\ Reachable(t)'
      <3>1. started' = TRUE /\ current' = current /\ current = mine[t] /\ mine[t] \in Client
            /\ client' = [client EXCEPT ![current] = "running"]
        BY <2>5 DEF StartOk, Known, CallInv, AwaitsAreTyped
      <3>2. \/ pc'[t] = "fetch" /\ mine'[t] = None
            \/ pc'[t] = "sending" /\ mine'[t] = current
        BY <2>1, <2>5, <3>1 DEF StartOk, BeginSend, Answer
      <3> QED
        BY <2>5, <3>1, <3>2 DEF StartOk, Known, Reachable, TypeOK
    <2>6. ASSUME StartGivesUp(t) \/ StopEnds(t) PROVE Known(t)' /\ Reachable(t)'
      <3>1. started' = FALSE /\ current' = None /\ current = mine[t]
            /\ client' = [client EXCEPT ![current] = "stopped"]
        BY <2>6 DEF StartGivesUp, StopEnds, Known
      <3>2. pc'[t] \in {"idle", "fetch"} /\ mine'[t] = None
        BY <2>1, <2>6 DEF StartGivesUp, StopEnds, Answer
      <3> QED
        BY <3>1, <3>2 DEF Known, Reachable, TypeOK
    <2>7. ASSUME SendOk(t) \/ RetryFails(t) PROVE Known(t)' /\ Reachable(t)'
      <3>1. UNCHANGED <<started, current, client>> /\ pc'[t] = "fetch" /\ mine'[t] = None
        BY <2>1, <2>7 DEF SendOk, RetryFails, Answer, shared
      <3>2. started /\ current = mine[t] /\ client[mine[t]] = "running" /\ mine[t] \in Client
        BY <2>7 DEF SendOk, RetryFails, SendBreaks, Known, CallInv, AwaitsAreTyped
      <3> QED
        BY <3>1, <3>2 DEF Known, Reachable
    <2>8. ASSUME FirstSendFails(t) PROVE Known(t)' /\ Reachable(t)'
      <3>1. started /\ current = mine[t] /\ client[mine[t]] = "running" /\ mine[t] \in Client
        BY <2>8 DEF FirstSendFails, SendBreaks, Known, CallInv, AwaitsAreTyped
      <3>2. started' = FALSE /\ current' = None /\ client' = client
            /\ pc'[t] = "resetting" /\ mine'[t] = current
        BY <2>1, <2>8, <3>1 DEF FirstSendFails
      <3> QED
        BY <3>1, <3>2 DEF Known, Reachable
    <2>9. ASSUME ResetDone(t) PROVE Known(t)' /\ Reachable(t)'
      <3>1. pc[t] = "resetting" /\ ~started /\ current = None /\ started' = FALSE
        BY <2>9 DEF ResetDone, Known
      <3>2. PICK c \in Client :
              /\ client' = [client EXCEPT ![mine[t]] = "stopped", ![c] = "starting"]
              /\ current' = c /\ Suspend(t, "starting", c, "retry")
        BY <2>9, <3>1 DEF ResetDone
      <3> QED
        BY <2>1, <3>1, <3>2 DEF Known, Reachable, TypeOK
    <2> QED
      BY <1>4, <2>2, <2>3, <2>4, <2>5, <2>6, <2>7, <2>8, <2>9 DEF TaskStep, Progress
  <1> QED
    BY <1>1, <1>3, <1>4 DEF Next

-----------------------------------------------------------------------------
LEMMA ProducerInvariance == Safety => [](CallInv /\ SoleInv)
  <1>1. Init => CallInv /\ SoleInv
    BY InitCall, InitSole
  <1>2. CallInv /\ SoleInv /\ [Next]_vars => CallInv' /\ SoleInv'
    BY NextCall, NextSole
  <1> QED
    BY <1>1, <1>2, PTL DEF Safety

\* Every variable keeps its type, and no call appends more than two copies.
THEOREM TypeCorrect == Safety => []TypeOK
  BY ProducerInvariance, PTL DEF CallInv

\* publish_dict answers True only when it has left one copy or two, however many
\* tasks start, reset and stop the producer under each other.
THEOREM PublishContractCorrect == Safety => []PublishContract
  BY ProducerInvariance, PTL DEF CallInv

LEMMA OneCallerIsATask == TypeOK /\ OneCaller => \E t \in Task : callers = {t}
  <1> SUFFICES ASSUME TypeOK, OneCaller PROVE \E t \in Task : callers = {t}
    OBVIOUS
  <1>1. callers \subseteq Task
    BY DEF TypeOK
  <1>2. IsFiniteSet(callers)
    BY <1>1, FinitelyManyTasks, FS_Subset
  <1> QED
    BY <1>1, <1>2, FS_Singleton DEF OneCaller

\* With one caller, as in outbox_beat.py, a started producer has a running object.
THEOREM StartedMeansConnectedCorrect == Safety => []StartedMeansConnected
  <1>1. CallInv /\ SoleInv => StartedMeansConnected
    <2> SUFFICES ASSUME CallInv, SoleInv, OneCaller, started
                 PROVE  current # None /\ client[current] = "running"
      BY DEF StartedMeansConnected
    <2>1. PICK t \in Task : callers = {t}
      BY OneCallerIsATask DEF CallInv
    <2>2. Known(t) /\ (pc[t] \notin {"idle", "fetch"} => mine[t] \in Client)
      BY <2>1 DEF SoleInv, CallInv, AwaitsAreTyped
    <2>3. current \in Client /\ client[current] = "running"
      BY <2>2 DEF Known
    <2> QED
      BY <2>3, NoneIsNoClient
  <1> QED
    BY <1>1, ProducerInvariance, PTL

\* With one caller every running object is the current one or that of the caller's
\* await: start and reset leave none behind.
THEOREM NoLeakedClientCorrect == Safety => []NoLeakedClient
  <1>1. CallInv /\ SoleInv => NoLeakedClient
    BY OneCallerIsATask DEF CallInv, SoleInv, Reachable, NoLeakedClient
  <1> QED
    BY <1>1, ProducerInvariance, PTL
=============================================================================
