------------------------------- MODULE Launchers -------------------------------
(***************************************************************************)
(* Launchers: a consumer group of module EventConsumer whose members are   *)
(* WorkflowLaunchers, which start for every event the Temporal workflows   *)
(* registered for its type, or SignalLaunchers, which signal the workflows *)
(* that wait for it. A workflow's identifier is resolved from the event, so*)
(* a pair of them stands for it.                                           *)
(*                                                                         *)
(* Temporal is modelled from how the launchers use it: start_workflow with *)
(* an identifier and no reuse policy opens a run, unless one with that     *)
(* identifier is open, in which case it raises "already started", the same *)
(* to the launcher; a signal to a workflow that does not run is an error.  *)
(*                                                                         *)
(* An event type without a handler, and a message without a type or an     *)
(* identifier, is an event with no workflows: the handler returns at once. *)
(***************************************************************************)
EXTENDS EventConsumer

CONSTANTS Workflow,  \* the workflow classes
          Starts,    \* event |-> the workflows registered to be started
          Signals    \* event |-> the workflows registered to be signalled

ASSUME HandlersAssumption ==
  Starts \in [Event -> SUBSET Workflow] /\ Signals \in [Event -> SUBSET Workflow]

VARIABLES
  kind,     \* what the group's members are: "workflow" or "signal" launchers
  pending,  \* consumer |-> the workflows whose start or signal it awaits
  done,     \* the workflow identifiers whose start or signal has succeeded
  refused   \* those whose start or signal has been answered with an error

Id == Event \X Workflow
temporalVars == <<done, refused>>
launcherVars == <<vars, kind, pending, temporalVars>>

LauncherTypeOK ==
  /\ TypeOK
  /\ kind \in {"workflow", "signal"}
  /\ pending \in [Consumer -> SUBSET Workflow]
  /\ \A c \in Consumer : pending[c] # {} => pc[c] = "handling"
  /\ done \subseteq Id /\ refused \subseteq Id

LauncherInit ==
  /\ Init
  /\ kind \in {"workflow", "signal"}
  /\ pending = [c \in Consumer |-> {}]
  /\ done = {} /\ refused = {}

\* The handler map the group's launchers are made with.
Handlers == IF kind = "workflow" THEN Starts ELSE Signals

EventAt(m) == log[m.partition][m.offset]

-----------------------------------------------------------------------------
\* _handle_event begins: the calls for all workflows of the event are issued.
HandleEvent(c, p) ==
  /\ Deliver(c, p)
  /\ pending' = [pending EXCEPT ![c] = Handlers[log[p][position[p] + 1]]]
  /\ UNCHANGED temporalVars

Awaiting(c, w) == pc[c] = "handling" /\ w \in pending[c]

\* Mutant of StartWorkflow: "already started" is no success, it is tried again.
StartInsisting(c, w) ==
  /\ kind = "workflow" /\ Awaiting(c, w)
  /\ <<EventAt(msg[c]), w>> \notin done
  /\ done' = done \cup {<<EventAt(msg[c]), w>>}
  /\ pending' = [pending EXCEPT ![c] = @ \ {w}]
  /\ UNCHANGED <<vars, refused>>

\* start_workflow opens a run, or raises that one is open, a success too.
StartWorkflow(c, w) ==
  /\ kind = "workflow" /\ Awaiting(c, w)
  /\ done' = done \cup {<<EventAt(msg[c]), w>>}
  /\ pending' = [pending EXCEPT ![c] = @ \ {w}]
  /\ UNCHANGED <<vars, refused>>

\* Mutant of StartRefused: the first error abandons the other starts.
StartRefusedAll(c, w) ==
  /\ kind = "workflow" /\ Awaiting(c, w) /\ ~calm
  /\ refused' = refused \cup {<<EventAt(msg[c]), w>>}
  /\ pending' = [pending EXCEPT ![c] = {}]
  /\ UNCHANGED <<vars, done>>

\* start_workflow raises anything else (there may be a run all the same):
\* _handle_event logs it and waits for the other workflows.
StartRefused(c, w) ==
  /\ kind = "workflow" /\ Awaiting(c, w) /\ ~calm
  /\ refused' = refused \cup {<<EventAt(msg[c]), w>>}
  /\ pending' = [pending EXCEPT ![c] = @ \ {w}]
  /\ UNCHANGED <<vars, done>>

\* The workflow that waits for the event is signalled, once for each delivery.
SignalWorkflow(c, w) ==
  /\ kind = "signal" /\ Awaiting(c, w)
  /\ done' = done \cup {<<EventAt(msg[c]), w>>}
  /\ pending' = [pending EXCEPT ![c] = @ \ {w}]
  /\ UNCHANGED <<vars, refused>>

Sole(c) == \E w \in Workflow : Handlers[EventAt(msg[c])] = {w}

\* The signal fails, as its workflow is not there, the resolver names none, or
\* Temporal does not answer. One of several is logged; a sole one is raised.
SignalRefused(c, w) ==
  /\ kind = "signal" /\ Awaiting(c, w)
  /\ refused' = refused \cup {<<EventAt(msg[c]), w>>}
  /\ pending' = [pending EXCEPT ![c] = @ \ {w}]
  /\ IF Sole(c) THEN HandlerRaises(c) ELSE UNCHANGED vars
  /\ UNCHANGED done

\* _handle_event returns.
EventHandled(c) ==
  /\ pending[c] = {}
  /\ HandlerReturns(c)
  /\ UNCHANGED <<pending, temporalVars>>

\* Mutant of Fail: the calls of the dead consumer go on.
FailUnnoticed(c) ==
  /\ CommitFails(c) \/ Crash(c)
  /\ UNCHANGED <<pending, temporalVars>>

\* The consumer dies or is reset, while calls may be waited for.
Fail(c) ==
  /\ CommitFails(c) \/ Crash(c)
  /\ pending' = [pending EXCEPT ![c] = {}]
  /\ UNCHANGED temporalVars

\* What the handler has no part in.
Idle == UNCHANGED <<pending, temporalVars>>

Elsewhere ==
  /\ \/ Rebalance \/ CalmDown
     \/ \E e \in Event : Produce(e)
     \/ \E c \in Consumer : Start(c) \/ Commit(c)
  /\ Idle

HandlerStep(c) ==
  \/ EventHandled(c)
  \/ \E w \in Workflow : \/ StartWorkflow(c, w) \/ StartRefused(c, w)
                         \/ SignalWorkflow(c, w) \/ SignalRefused(c, w)

Step ==
  \/ \E c \in Consumer : \/ HandlerStep(c) \/ Fail(c)
                         \/ \E p \in Partition : HandleEvent(c, p)
  \/ Elsewhere

LauncherNext == Step /\ UNCHANGED kind

LauncherSafety == LauncherInit /\ [][LauncherNext]_launcherVars

\* As in EventConsumer, and every call is answered.
LauncherFairness ==
  /\ WF_launcherVars(CalmDown /\ Idle /\ UNCHANGED kind)
  /\ WF_launcherVars(/\ Rebalance /\ \E p \in Partition : owner[p] = None
                     /\ Idle /\ UNCHANGED kind)
  /\ \A c \in Consumer :
        /\ WF_launcherVars(Start(c) /\ Idle /\ UNCHANGED kind)
        /\ WF_launcherVars(Commit(c) /\ Idle /\ UNCHANGED kind)
        /\ WF_launcherVars(HandlerStep(c) /\ UNCHANGED kind)
        /\ WF_launcherVars((\E p \in Partition : HandleEvent(c, p)) /\ UNCHANGED kind)

LauncherSpec == LauncherSafety /\ LauncherFairness

-----------------------------------------------------------------------------
\* What is lost is exactly what Temporal refused: once an event's offset is
\* committed, each of its workflows has been started or signalled, or the call
\* has failed and been logged (_handle_event; gather with return_exceptions).
CommittedIsAnswered ==
  \A p \in Partition : \A i \in 1..committed[p] : \A w \in Handlers[log[p][i]] :
    <<log[p][i], w>> \in done \cup refused

\* An event on its topic gets every one of its workflows, or a logged refusal.
EveryWorkflowAnswered ==
  \A e \in Event, w \in Workflow :
    w \in Handlers[e] /\ (\E p \in Partition : \E i \in DOMAIN log[p] : log[p][i] = e)
      ~> <<e, w>> \in done \cup refused
=============================================================================
