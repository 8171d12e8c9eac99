---------------------------- MODULE KafkaProducer ----------------------------
(***************************************************************************)
(* KafkaEventProducer: one object shared by the tasks of a process, each   *)
(* of which calls publish_once (start, then publish_dict per event) or     *)
(* stop. The event loop runs a task from one await to the next without     *)
(* interruption, so an action is the code between two awaits.              *)
(*                                                                         *)
(* In the outbox_beat process one task makes all the calls. In the web     *)
(* process every commit that raised events spawns a task, and shutdown     *)
(* calls stop.                                                             *)
(*                                                                         *)
(* Abstracted: the event and its topic (a call is judged by how many       *)
(* copies it appended and by what it returned), serialisation, and errors  *)
(* that are not the broker's.                                              *)
(***************************************************************************)
EXTENDS Naturals, FiniteSets

CONSTANTS Task,    \* the tasks that share the producer
          Client,  \* AIOKafkaProducer objects; bounds how many exist at once
          None     \* no object

ASSUME NoneIsNoClient == None \notin Client
ASSUME FinitelyManyTasks == IsFiniteSet(Task)

VARIABLES
  started,   \* _started
  current,   \* _producer
  client,    \* AIOKafkaProducer |-> its state
  pc,        \* task |-> the await it is suspended at
  mine,      \* task |-> the object that await is about
  after,     \* task |-> what it was starting, or sending, for
  result,    \* task |-> what its last publish_dict returned
  appended,  \* task |-> the copies that call put on the topic
  kafkaUp,   \* the broker is reachable
  callers    \* the tasks of this process: one (outbox_beat.py) or several (web)

shared == <<started, current>>
taskVars == <<pc, mine, after, result, appended>>
vars == <<shared, client, taskVars, kafkaUp, callers>>

TypeOK ==
  /\ started \in BOOLEAN
  /\ current \in Client \cup {None}
  /\ client \in [Client -> {"unused", "starting", "running", "stopped"}]
  /\ pc \in [Task -> {"idle", "fetch", "starting", "cleanup", "sending",
                      "resetting", "closing"}]
  /\ mine \in [Task -> Client \cup {None}]
  /\ after \in [Task -> {"none", "fetch", "first", "retry"}]
  /\ result \in [Task -> {"none", "acked", "refused"}]
  /\ appended \in [Task -> 0..2]
  /\ kafkaUp \in BOOLEAN
  /\ callers \subseteq Task

Init ==
  /\ started = FALSE
  /\ current = None
  /\ client = [c \in Client |-> "unused"]
  /\ pc = [t \in Task |-> "idle"]
  /\ mine = [t \in Task |-> None]
  /\ after = [t \in Task |-> "none"]
  /\ result = [t \in Task |-> "none"]
  /\ appended = [t \in Task |-> 0]
  /\ kafkaUp \in BOOLEAN
  /\ callers \in {{t} : t \in Task} \cup {Task}

-----------------------------------------------------------------------------
(* Pieces of the code between two awaits.                                  *)

\* A new object may take the place of one that is closed and forgotten.
Fresh(c) == /\ client[c] \in {"unused", "stopped"}
            /\ current # c
            /\ \A t \in Task : mine[t] # c

Suspend(t, where, c, k) ==
  /\ pc' = [pc EXCEPT ![t] = where]
  /\ mine' = [mine EXCEPT ![t] = c]
  /\ after' = [after EXCEPT ![t] = k]

\* start(), when it is not started, up to the object's own start.
BeginStart(t, k) ==
  \E c \in Client :
    /\ Fresh(c)
    /\ client' = [client EXCEPT ![c] = "starting"]
    /\ current' = c
    /\ Suspend(t, "starting", c, k)

\* publish_dict returns r; the caller goes on to its next event.
Answer(t, r) ==
  /\ result' = [result EXCEPT ![t] = r]
  /\ Suspend(t, "fetch", None, "none")

\* self._producer.send_and_wait on object c: on None it raises at once, and
\* the except clause returns False.
BeginSend(t, k, c) ==
  IF c = None
  THEN Answer(t, "refused")
  ELSE /\ Suspend(t, "sending", c, k)
       /\ result' = [result EXCEPT ![t] = "none"]

-----------------------------------------------------------------------------
(* The tasks.                                                              *)

\* publish_once begins.
Call(t) ==
  /\ pc[t] = "idle"
  /\ IF started
     THEN /\ Suspend(t, "fetch", None, "none")
          /\ UNCHANGED <<client, current>>
     ELSE BeginStart(t, "fetch")
  /\ UNCHANGED <<started, result, appended, kafkaUp>>

\* publish_dict begins for the next event of the batch.
Publish(t) ==
  /\ pc[t] = "fetch"
  /\ appended' = [appended EXCEPT ![t] = 0]
  /\ IF started
     THEN /\ BeginSend(t, "first", current)
          /\ UNCHANGED <<client, current>>
     ELSE /\ BeginStart(t, "first")
          /\ result' = [result EXCEPT ![t] = "none"]
  /\ UNCHANGED <<started, kafkaUp>>

\* No event is left; publish_once returns.
Return(t) ==
  /\ pc[t] = "fetch"
  /\ Suspend(t, "idle", None, "none")
  /\ result' = [result EXCEPT ![t] = "none"]
  /\ appended' = [appended EXCEPT ![t] = 0]
  /\ UNCHANGED <<shared, client, kafkaUp>>

\* The object has started: the flag is set, whichever object is current.
StartOk(t) ==
  /\ pc[t] = "starting" /\ kafkaUp
  /\ client' = [client EXCEPT ![mine[t]] = "running"]
  /\ started' = TRUE
  /\ IF after[t] = "fetch"
     THEN Suspend(t, "fetch", None, "none") /\ UNCHANGED result
     ELSE BeginSend(t, after[t], current)
  /\ UNCHANGED <<current, appended, kafkaUp>>

\* The object's start raises; it is closed first.
StartFails(t) ==
  /\ pc[t] = "starting" /\ ~kafkaUp
  /\ Suspend(t, "cleanup", mine[t], after[t])
  /\ UNCHANGED <<shared, client, result, appended, kafkaUp>>

\* Then the shared fields are cleared, whichever object is current.
StartGivesUp(t) ==
  /\ pc[t] = "cleanup"
  /\ client' = [client EXCEPT ![mine[t]] = "stopped"]
  /\ current' = None
  /\ started' = FALSE
  /\ IF after[t] = "fetch"
     THEN Suspend(t, "fetch", None, "none") /\ UNCHANGED result
     ELSE Answer(t, "refused")
  /\ UNCHANGED <<appended, kafkaUp>>

SendOk(t) ==
  /\ pc[t] = "sending" /\ kafkaUp /\ client[mine[t]] = "running"
  /\ appended' = [appended EXCEPT ![t] = @ + 1]
  /\ Answer(t, "acked")
  /\ UNCHANGED <<shared, client, kafkaUp>>

\* A send raises KafkaError: the broker is away or the object was closed
\* under it. The message may be on the topic all the same.
SendBreaks(t) ==
  /\ pc[t] = "sending"
  /\ ~kafkaUp \/ client[mine[t]] # "running"
  /\ \E n \in IF client[mine[t]] = "running" THEN {0, 1} ELSE {0} :
        appended' = [appended EXCEPT ![t] = @ + n]
  /\ UNCHANGED kafkaUp

\* Mutant of FirstSendFails: the reset leaves the flag set.
FirstSendFailsFlagged(t) ==
  /\ after[t] = "first"
  /\ SendBreaks(t)
  /\ IF current = None
     THEN BeginStart(t, "retry")
     ELSE /\ current' = None
          /\ Suspend(t, "resetting", current, "retry")
          /\ UNCHANGED client
  /\ UNCHANGED <<started, result>>

\* The first KafkaError resets the producer: whatever object is current is
\* taken out and closed.
FirstSendFails(t) ==
  /\ after[t] = "first"
  /\ SendBreaks(t)
  /\ started' = FALSE
  /\ IF current = None
     THEN BeginStart(t, "retry")
     ELSE /\ current' = None
          /\ Suspend(t, "resetting", current, "retry")
          /\ UNCHANGED client
  /\ UNCHANGED result

\* Mutant of ResetDone: the old object is dropped without being closed.
ResetUnclosed(t) ==
  /\ pc[t] = "resetting"
  /\ \E c \in Client :
        /\ Fresh(c)
        /\ client' = [client EXCEPT ![c] = "starting"]
        /\ current' = c
        /\ Suspend(t, "starting", c, "retry")
  /\ UNCHANGED <<started, result, appended, kafkaUp>>

\* The old object is closed: start() again, unless another task just did.
ResetDone(t) ==
  /\ pc[t] = "resetting"
  /\ IF started
     THEN /\ client' = [client EXCEPT ![mine[t]] = "stopped"]
          /\ BeginSend(t, "retry", current)
          /\ UNCHANGED current
     ELSE \E c \in Client :
          /\ Fresh(c)
          /\ client' = [client EXCEPT ![mine[t]] = "stopped", ![c] = "starting"]
          /\ current' = c
          /\ Suspend(t, "starting", c, "retry")
          /\ UNCHANGED result
  /\ UNCHANGED <<started, appended, kafkaUp>>

\* Mutants of RetryFails: the retries are unlimited; the call answers True.
RetryAgain(t) ==
  /\ after[t] = "retry"
  /\ SendBreaks(t)
  /\ UNCHANGED <<shared, client, pc, mine, after, result>>

RetryHides(t) ==
  /\ after[t] = "retry"
  /\ SendBreaks(t)
  /\ Answer(t, "acked")
  /\ UNCHANGED <<shared, client>>

\* There is one retry.
RetryFails(t) ==
  /\ after[t] = "retry"
  /\ SendBreaks(t)
  /\ Answer(t, "refused")
  /\ UNCHANGED <<shared, client>>

\* stop(), up to the object's own stop.
StopBegins(t) ==
  /\ pc[t] = "idle"
  /\ started /\ current # None
  /\ Suspend(t, "closing", current, "none")
  /\ UNCHANGED <<shared, client, result, appended, kafkaUp>>

StopEnds(t) ==
  /\ pc[t] = "closing"
  /\ client' = [client EXCEPT ![mine[t]] = "stopped"]
  /\ started' = FALSE
  /\ current' = None
  /\ Suspend(t, "idle", None, "none")
  /\ UNCHANGED <<result, appended, kafkaUp>>

\* The broker comes and goes.
Outage == /\ kafkaUp' = ~kafkaUp
          /\ UNCHANGED <<shared, client, taskVars>>

Progress(t) ==
  \/ StartOk(t) \/ StartFails(t) \/ StartGivesUp(t)
  \/ SendOk(t) \/ FirstSendFails(t) \/ ResetDone(t) \/ RetryFails(t)
  \/ StopEnds(t)

TaskStep(t) == \/ Call(t) \/ Publish(t) \/ Return(t) \/ StopBegins(t)
               \/ Progress(t)

Next == ((\E t \in callers : TaskStep(t)) \/ Outage) /\ UNCHANGED callers

Safety == Init /\ [][Next]_vars

\* Every await ends, and a batch is worked off.
Spec ==
  Safety /\ \A t \in Task : /\ WF_vars(t \in callers /\ Progress(t) /\ UNCHANGED callers)
                            /\ WF_vars(/\ t \in callers
                                       /\ Publish(t) \/ Return(t)
                                       /\ UNCHANGED callers)

OneCaller == Cardinality(callers) = 1

-----------------------------------------------------------------------------
\* With one caller is_started tells the truth: a started producer has an object,
\* and one that is running (producer.py, is_started).
StartedMeansConnected ==
  OneCaller /\ started => current # None /\ client[current] = "running"

\* In particular it never says "started" for good with nothing to send with:
\* no task would start the producer again, and every send would be refused.
NeverWedged ==
  ~(started /\ current = None /\ \A t \in Task : pc[t] \in {"idle", "fetch"})

\* With one caller no client is left running that nobody can reach any more to
\* close it (producer.py, the comment in start's except clause).
NoLeakedClient ==
  OneCaller => \A c \in Client :
    client[c] = "running" => current = c \/ \E t \in Task : mine[t] = c

\* What module Outbox assumes of publish_dict: True means at least one copy
\* is on the topic, and no call leaves more than two, in spite of tasks that
\* reset or stop the producer under each other.
PublishContract ==
  \A t \in Task : /\ result[t] = "acked" => appended[t] \in 1..2
                  /\ appended[t] <= 2

\* Once the broker is back for good, a single caller is no longer refused.
RecoversFromOutage ==
  OneCaller /\ <>[]kafkaUp => <>[](\A t \in Task : result[t] # "refused")
=============================================================================
