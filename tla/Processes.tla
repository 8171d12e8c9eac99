------------------------------- MODULE Processes -------------------------------
(***************************************************************************)
(* Processes: the scripts a deployment runs and the way of an event through*)
(* them: a request commits it, the post-commit task or the outbox beat     *)
(* publishes it, the launchers start or signal the workflows that their    *)
(* registry knows for it, the workers run them and their activities. Every *)
(* process fills a registry of its own by autodiscovery.                   *)
(*                                                                         *)
(* What goes on inside a step is the subject of other modules: Outbox (the *)
(* publication), Launchers (the consumption). An event type occurs once. A *)
(* handler stands for its workflow and for the one activity that runs in   *)
(* it. The prefix of an environment, put before every name, is left out,   *)
(* and so are the tags, which no script of the repository filters by.      *)
(***************************************************************************)
EXTENDS Naturals, Sequences, FiniteSets

CONSTANTS Handler, Event, Domain, Queue,
          Signalled,    \* the handlers that are signal handlers
          Limited,      \* those whose activity is not retried for ever
          DomainOf,     \* handler |-> the domain of the package it is in
          EventOf,      \* handler |-> its event type
          OwnQueue,     \* domain |-> the queue called after it
          DefaultQueue, \* "default-event-handler-queue"
          AllQueue,     \* "all-task-queue"
          All,          \* "all", in the place of a queue on the command line
          Wired,        \* the domains whose packages Container.wire imports
          NoQueue,      \* a handler is registered without a queue
          Layout,       \* what a deployment runs, see LayoutAssumption
          MaxAttempts,  \* maximum_attempts of a limited retry policy
          MaxFaults     \* how many things go wrong (bound)

Scripts == {"backend", "outbox_beat", "workflow_launcher", "signal_launcher",
            "worker", "allinone"}

ASSUME HandlersAssumption ==
  /\ IsFiniteSet(Handler) /\ IsFiniteSet(Domain)
  /\ Signalled \subseteq Handler /\ Limited \subseteq Handler
  /\ DomainOf \in [Handler -> Domain] /\ EventOf \in [Handler -> Event]

ASSUME BoundsAssumption == MaxAttempts \in Nat \ {0} /\ MaxFaults \in Nat

\* A layout says which queue the handlers are registered with, which script each
\* process runs, and the list it is given on the command line.
ASSUME LayoutAssumption ==
  \A l \in Layout :
    /\ l.queue \in [Handler -> Queue \cup {NoQueue}]
    /\ l.script \in [DOMAIN l.script -> Scripts]
    /\ l.args \in [DOMAIN l.script -> Seq(Domain \cup Queue \cup {All})]

ASSUME QueueAssumption ==
  /\ NoQueue \notin Queue /\ All \notin Domain \cup Queue
  /\ OwnQueue \in [Domain -> Queue \ {DefaultQueue, AllQueue}]
  /\ \A d1, d2 \in Domain : OwnQueue[d1] = OwnQueue[d2] => d1 = d2

\* The modules autodiscovery imports, three for every package.
Module == Domain \X {"workflows", "signals", "activities"}

VARIABLES
  layout,    \* the deployment
  status,    \* process |-> "down", "connecting" or "up"
  imported,  \* process |-> the modules its autodiscovery has imported
  event,     \* event |-> "none", "pending" in the outbox, or "published"
  offset,    \* <<launcher group, event>> that are committed
  run,       \* handler |-> the state of its last workflow run
  attempts,  \* handler |-> the attempts of the run's activity that failed
  raised,    \* handler |-> those of them in which the activity raised
  ran,       \* the handlers that have completed a run, or been signalled
  lost,      \* the handlers a launcher passed over, and why
  faults     \* what has gone wrong so far

procVars == <<layout, status, imported>>
runVars == <<run, attempts, raised, ran>>
vars == <<procVars, event, offset, runVars, lost, faults>>

Deployed == DOMAIN layout.script
Script(p) == layout.script[p]
Args(p) == layout.args[p]

TypeOK ==
  /\ layout \in Layout
  /\ status \in [Deployed -> {"down", "connecting", "up"}]
  /\ imported \in [Deployed -> SUBSET Module]
  /\ event \in [Event -> {"none", "pending", "published"}]
  /\ \A o \in offset : o[1].kind \in {"workflow", "signal"} /\ event[o[2]] = "published"
  /\ run \in [Handler -> {"none", "queued", "scheduled", "done", "failed"}]
  /\ attempts \in [Handler -> 0..MaxAttempts]
  /\ raised \in [Handler -> 0..MaxAttempts]
  /\ \A h \in Handler : raised[h] <= attempts[h]
  /\ ran \subseteq Handler
  /\ lost \subseteq Handler \X {"unknown", "refused"}
  /\ faults \in 0..MaxFaults

Init ==
  /\ layout \in Layout
  /\ status = [p \in Deployed |-> "down"]
  /\ imported = [p \in Deployed |-> {}]
  /\ event = [e \in Event |-> "none"]
  /\ offset = {} /\ lost = {} /\ ran = {} /\ faults = 0
  /\ run = [h \in Handler |-> "none"]
  /\ attempts = [h \in Handler |-> 0] /\ raised = [h \in Handler |-> 0]

-----------------------------------------------------------------------------
\* The registry of a process that imported the modules m.
WorkflowRegistry(m) ==
  {h \in Handler \ Signalled : <<DomainOf[h], "workflows">> \in m}
SignalRegistry(m) == {h \in Signalled : <<DomainOf[h], "signals">> \in m}
ActivityRegistry(m) ==
  {h \in Handler \ Signalled : <<DomainOf[h], "activities">> \in m}

InferredQueue == DefaultQueue
TaskQueue(h) == IF layout.queue[h] = NoQueue THEN InferredQueue ELSE layout.queue[h]

\* Mutant of EventHandlerMap: one workflow for an event.
EventHandlerMapOne(m, ds, e) ==
  LET H == {h \in WorkflowRegistry(m) : EventOf[h] = e /\ DomainOf[h] \in ds}
  IN  IF H = {} THEN {} ELSE {CHOOSE h \in H : TRUE}

\* The queries of a registry: ds is one domain, or all of them. A handler map is
\* asked for the event e.
EventHandlerMap(m, ds, e) ==
  {h \in WorkflowRegistry(m) : EventOf[h] = e /\ DomainOf[h] \in ds}
SignalHandlerMap(m, ds, e) ==
  {h \in SignalRegistry(m) : EventOf[h] = e /\ DomainOf[h] \in ds}
AllTaskQueues(m) == {TaskQueue(h) : h \in WorkflowRegistry(m)}
WorkflowsByQueue(m, q) == {h \in WorkflowRegistry(m) : TaskQueue(h) = q}
ActivitiesByDomain(m, ds) == {h \in ActivityRegistry(m) : DomainOf[h] \in ds}

\* The domain a queue is called after; for other names there is none.
DomainsNamed(q) == {d \in Domain : OwnQueue[d] = q}

-----------------------------------------------------------------------------
\* The launchers a process runs: their kind and the domains they are made for,
\* none given meaning all. The pair names the consumer group as well.
Launcher(kind, ds) == [kind |-> kind, domains |-> ds]

\* dict.update over the domains: the last one with a handler for an event wins.
Updated(handlers) ==
  LET given == {i \in DOMAIN handlers : handlers[i] # {}}
  IN  UNION {handlers[i] : i \in {k \in given : \A j \in given : j <= k}}

\* The event handler map of a launcher in a process with the modules m.
WorkflowMap(m, ds, e) ==
  IF ds = <<>> THEN EventHandlerMap(m, Domain, e)
  ELSE Updated([i \in DOMAIN ds |-> EventHandlerMap(m, {ds[i]}, e)])
SignalMap(m, ds, e) ==
  IF ds = <<>> THEN SignalHandlerMap(m, Domain, e)
  ELSE Updated([i \in DOMAIN ds |-> SignalHandlerMap(m, {ds[i]}, e)])
HandlersOf(m, l, e) ==
  IF l.kind = "workflow" THEN WorkflowMap(m, l.domains, e) ELSE SignalMap(m, l.domains, e)

HasHandlers(m, l) == \E e \in Event : HandlersOf(m, l, e) # {}

\* allinone makes a pair for every domain that some queue is called after.
AllInOneLaunchers(m) ==
  LET named == UNION {DomainsNamed(q) : q \in AllTaskQueues(m)}
  IN  {l \in {Launcher(k, <<d>>) : k \in {"workflow", "signal"}, d \in named} :
         HasHandlers(m, l)}

LaunchersOf(p, m) ==
  CASE Script(p) = "workflow_launcher" -> {Launcher("workflow", Args(p))}
    [] Script(p) = "signal_launcher" -> {Launcher("signal", Args(p))}
    [] Script(p) = "allinone" -> AllInOneLaunchers(m)
    [] OTHER -> {}

\* The queues a worker polls, and what it registers for one of them: of two
\* entries for one queue the last.
WorkerQueues(p, m) ==
  IF Script(p) \notin {"worker", "allinone"} THEN {}
  ELSE IF Script(p) = "allinone" \/ Args(p) = <<>> THEN AllTaskQueues(m)
  ELSE {IF Args(p)[i] = All THEN AllQueue ELSE Args(p)[i] : i \in DOMAIN Args(p)}

GivenAll(args) ==
  \E i \in DOMAIN args : args[i] = All /\ \A j \in DOMAIN args : j > i => args[j] # AllQueue
ServesAll(p, q) == Script(p) = "worker" /\ q = AllQueue /\ GivenAll(Args(p))

\* Mutant of WorkerActivities: allinone's filter_by_task_queues.
WorkerActivitiesNamed(p, m, q) == ActivitiesByDomain(m, DomainsNamed(q))

WorkerActivities(p, m, q) ==
  IF ServesAll(p, q) \/ (Script(p) = "worker" /\ q = DefaultQueue) THEN ActivityRegistry(m)
  ELSE ActivitiesByDomain(m, DomainsNamed(q))
WorkerWorkflows(p, m, q) ==
  IF ServesAll(p, q) THEN WorkflowRegistry(m) ELSE WorkflowsByQueue(m, q)

-----------------------------------------------------------------------------
Fault(n) == faults + n <= MaxFaults /\ faults' = faults + n

\* A process whose script needs the modules m.
Begin(p, m, s) ==
  /\ imported' = [imported EXCEPT ![p] = m]
  /\ status' = [status EXCEPT ![p] = s]
  /\ UNCHANGED <<layout, event, offset, runVars, lost>>

\* autodiscover: a module that cannot be imported is passed over in silence.
Discovered == {m \in SUBSET Module : Cardinality(Module \ m) <= MaxFaults}
Autodiscover(p, m) ==
  /\ Fault(Cardinality(Module \ m))
  /\ Begin(p, m, "connecting")

\* Container.wire imports the packages it finds before that, and does raise.
Wire(m) == Wired \X {"workflows", "signals", "activities"} \subseteq m

\* The web server and the beat know no handlers; a Kafka that does not answer
\* at their start does not stop them.
StartBackend(p) == Script(p) = "backend" /\ Begin(p, {}, "up") /\ UNCHANGED faults
StartBeat(p) == Script(p) = "outbox_beat" /\ Begin(p, {}, "up") /\ UNCHANGED faults

\* A launcher without any handler returns.
StartWorkflowLauncher(p, m) ==
  /\ Script(p) = "workflow_launcher" /\ Autodiscover(p, m)
  /\ HasHandlers(m, Launcher("workflow", Args(p)))
StartSignalLauncher(p, m) ==
  /\ Script(p) = "signal_launcher" /\ Autodiscover(p, m)
  /\ HasHandlers(m, Launcher("signal", Args(p)))

\* A worker without queues returns.
StartWorker(p, m) ==
  /\ Script(p) = "worker" /\ Autodiscover(p, m) /\ Wire(m)
  /\ WorkerQueues(p, m) # {}
StartAllInOne(p, m) == Script(p) = "allinone" /\ Autodiscover(p, m) /\ Wire(m)

Start(p) ==
  /\ status[p] = "down"
  /\ \/ StartBackend(p) \/ StartBeat(p)
     \/ \E m \in Discovered :
          \/ StartWorkflowLauncher(p, m) \/ StartSignalLauncher(p, m)
          \/ StartWorker(p, m) \/ StartAllInOne(p, m)

\* Mutant of ConnectWorkers: the second connection has lost its configuration.
ConnectWorkersOnce(p) ==
  /\ Script(p) \in {"worker", "allinone"} /\ status[p] = "connecting" /\ faults = 0
  /\ status' = [status EXCEPT ![p] = "up"]
  /\ UNCHANGED <<layout, imported, event, offset, runVars, lost, faults>>

\* Temporal answers: the launchers and the workers run with the maps made at
\* the start. While it does not, the bootstraps try again every three seconds.
ConnectWorkers(p) ==
  /\ Script(p) \in {"worker", "allinone"} /\ status[p] = "connecting"
  /\ status' = [status EXCEPT ![p] = "up"]
  /\ UNCHANGED <<layout, imported, event, offset, runVars, lost, faults>>
ConnectLauncher(p) ==
  /\ Script(p) = "workflow_launcher" /\ status[p] = "connecting"
  /\ status' = [status EXCEPT ![p] = "up"]
  /\ UNCHANGED <<layout, imported, event, offset, runVars, lost, faults>>
ConnectSignalLauncher(p) ==
  /\ Script(p) = "signal_launcher" /\ status[p] = "connecting"
  /\ status' = [status EXCEPT ![p] = "up"]
  /\ UNCHANGED <<layout, imported, event, offset, runVars, lost, faults>>
Connect(p) ==
  ConnectWorkers(p) \/ ConnectLauncher(p) \/ ConnectSignalLauncher(p)

Up(p, scripts) == Script(p) \in scripts /\ status[p] = "up"

\* A connection breaks, and the bootstrap's loop begins anew.
Disconnect(p) ==
  /\ Up(p, Scripts \ {"backend", "outbox_beat"}) /\ Fault(1)
  /\ status' = [status EXCEPT ![p] = "connecting"]
  /\ UNCHANGED <<layout, imported, event, offset, runVars, lost>>

\* A process dies; it is started again, with a registry of its own.
Die(p) ==
  /\ status[p] # "down" /\ Fault(1)
  /\ status' = [status EXCEPT ![p] = "down"]
  /\ imported' = [imported EXCEPT ![p] = {}]
  /\ UNCHANGED <<layout, event, offset, runVars, lost>>

-----------------------------------------------------------------------------
\* A request of the web server commits an event.
Request(p, e) ==
  /\ Up(p, {"backend"}) /\ event[e] = "none"
  /\ event' = [event EXCEPT ![e] = "pending"]
  /\ UNCHANGED <<procVars, offset, runVars, lost, faults>>

Published(e) ==
  /\ event[e] = "pending"
  /\ event' = [event EXCEPT ![e] = "published"]
  /\ UNCHANGED <<procVars, offset, runVars, lost, faults>>

\* The publisher that initialize() has registered, after the commit.
PublishAfterCommit(p, e) == Up(p, {"backend"}) /\ Published(e)
\* The publisher of start_outbox_publisher.
PublishByPoll(p, e) == Up(p, {"outbox_beat", "allinone"}) /\ Published(e)

\* Those of a launcher's domains that are registered for e in the code.
Meant(l, e) ==
  {h \in Handler : /\ EventOf[h] = e /\ (h \in Signalled <=> l.kind = "signal")
                   /\ l.domains = <<>> \/ \E i \in DOMAIN l.domains : l.domains[i] = DomainOf[h]}

\* A launcher takes an event of a topic it has subscribed to: a start opens a
\* run or finds one open, a signal arrives, and the errors of both are logged.
\* The offset is committed, unless the process or the connection fails first.
Consume(p, l, e, refused, committed) ==
  LET known == HandlersOf(imported[p], l, e)
      sent  == known \ refused
      open  == {h \in sent : run[h] \in {"queued", "scheduled"}}
      unknown == Meant(l, e) \ (WorkflowRegistry(imported[p]) \cup SignalRegistry(imported[p]))
  IN  /\ known # {}
      /\ Fault(Cardinality(refused) + IF committed THEN 0 ELSE 1)
      /\ run' = [h \in Handler |-> IF h \notin sent \ open THEN run[h]
                                   ELSE IF h \in Signalled THEN "done" ELSE "queued"]
      /\ ran' = ran \cup (sent \cap Signalled)
      /\ lost' = lost \cup (refused \X {"refused"}) \cup (unknown \X {"unknown"})
      /\ offset' = IF committed THEN offset \cup {<<l, e>>} ELSE offset
      /\ UNCHANGED <<procVars, event, attempts, raised>>

\* The process is up: it consumes for each of its launchers.
ConsumeSome(p) ==
  /\ Up(p, {"workflow_launcher", "signal_launcher", "allinone"})
  /\ \E e \in Event, l \in LaunchersOf(p, imported[p]) :
       /\ event[e] = "published" /\ <<l, e>> \notin offset
       /\ \E refused \in SUBSET HandlersOf(imported[p], l, e), committed \in BOOLEAN :
            Consume(p, l, e, refused, committed)

-----------------------------------------------------------------------------
\* Whether a worker of p polls the queue of h.
Polls(p, h) ==
  Up(p, {"worker", "allinone"}) /\ TaskQueue(h) \in WorkerQueues(p, imported[p])
Offers(p, h) == h \in WorkerActivities(p, imported[p], TaskQueue(h))
elsewhere == <<procVars, event, offset, lost, faults>>

\* A worker that knows the workflow runs it until it awaits its activity; one
\* that does not answers with an error, and the task stays in the queue.
RunWorkflow(p, h) ==
  /\ run[h] = "queued" /\ Polls(p, h)
  /\ h \in WorkerWorkflows(p, imported[p], TaskQueue(h))
  /\ run' = [run EXCEPT ![h] = "scheduled"]
  /\ attempts' = [attempts EXCEPT ![h] = 0] /\ raised' = [raised EXCEPT ![h] = 0]
  /\ UNCHANGED <<ran, elsewhere>>

RunActivity(p, h) ==
  /\ run[h] = "scheduled" /\ Polls(p, h) /\ Offers(p, h)
  /\ run' = [run EXCEPT ![h] = "done"]
  /\ ran' = ran \cup {h}
  /\ UNCHANGED <<attempts, raised, elsewhere>>

\* Mutant of FailAttempt: the attempts that failed already are not compared.
FailAttemptUnlimited(h) ==
  /\ run[h] = "scheduled"
  /\ attempts' = [attempts EXCEPT ![h] = @ + 1]
  /\ UNCHANGED <<run, ran, elsewhere>>

\* An attempt fails; the policy of the workflow decides whether it was the last.
FailAttempt(h) ==
  /\ run[h] = "scheduled" /\ attempts[h] < MaxAttempts
  /\ attempts' = [attempts EXCEPT ![h] = @ + 1]
  /\ run' = IF h \in Limited /\ attempts'[h] = MaxAttempts
            THEN [run EXCEPT ![h] = "failed"] ELSE run
  /\ UNCHANGED <<ran, elsewhere>>

\* The activity raises, or does not return in time (where that has no limit, it
\* changes nothing that is modelled).
ActivityRaises(p, h) ==
  /\ h \in Limited /\ FailAttempt(h) /\ Polls(p, h) /\ Offers(p, h)
  /\ raised' = [raised EXCEPT ![h] = @ + 1]
\* The worker that gets the task has no activity of that name.
ActivityUnknown(p, h) ==
  FailAttempt(h) /\ Polls(p, h) /\ ~Offers(p, h) /\ UNCHANGED raised

Next ==
  \E p \in Deployed :
    \/ Start(p) \/ Connect(p) \/ Disconnect(p) \/ Die(p) \/ ConsumeSome(p)
    \/ \E e \in Event : Request(p, e) \/ PublishAfterCommit(p, e) \/ PublishByPoll(p, e)
    \/ \E h \in Handler : \/ RunWorkflow(p, h) \/ RunActivity(p, h)
                          \/ ActivityRaises(p, h) \/ ActivityUnknown(p, h)

\* restart: unless-stopped, the loops of the bootstraps and of the poller, and
\* Temporal, which gives a task that waits to a worker that polls. Each kind of
\* progress is made finitely often, so it need not be fair to every process.
Fairness ==
  /\ WF_vars(\E p \in Deployed : Start(p) \/ Connect(p))
  /\ WF_vars(\E p \in Deployed, e \in Event : PublishByPoll(p, e))
  /\ WF_vars(\E p \in Deployed : ConsumeSome(p))
  /\ WF_vars(\E p \in Deployed, h \in Handler : RunWorkflow(p, h) \/ RunActivity(p, h))

Spec == Init /\ [][Next]_vars /\ Fairness

-----------------------------------------------------------------------------
\* The launchers of the layout that are to serve a handler.
Serving(h) ==
  {l \in UNION {LaunchersOf(p, Module) : p \in Deployed} :
     h \in Meant(l, EventOf[h])}
Lost(h) == \E why \in {"unknown", "refused"} : <<h, why>> \in lost

\* An event that every launcher of a handler's domain has left behind has been
\* given to that handler, also where two domains handle one event, unless a
\* launcher had not imported the handler or Temporal refused it.
NoHandlerSkipped ==
  \A h \in Handler :
    (Serving(h) # {} /\ \A l \in Serving(h) : <<l, EventOf[h]>> \in offset)
      => run[h] # "none" \/ Lost(h)

\* A workflow with a limit on its attempts fails only because its activity has
\* raised each time, never because of the workers: whichever polls the queue the
\* workflow was started on has the activity too (worker.py chooses workflows by
\* queue, activities by the domain the queue is called after).
FailedOnlyByItself ==
  \A h \in Handler : run[h] = "failed" => raised[h] = MaxAttempts

\* A process that runs without a module of the handler's package.
Impaired(h) ==
  \E p \in Deployed :
    status[p] # "down" /\ Script(p) \notin {"backend", "outbox_beat"}
      /\ \E k \in {"workflows", "signals", "activities"} : <<DomainOf[h], k>> \notin imported[p]

\* A committed event reaches all its handlers, over whatever deaths and broken
\* connections, unless one of the named mishaps befalls the handler.
EveryEventIsHandled ==
  \A h \in Handler :
    event[EventOf[h]] # "none"
      ~> (h \in ran \/ run[h] = "failed" \/ Lost(h) \/ Impaired(h))
=============================================================================
