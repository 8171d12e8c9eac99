---------------------------- MODULE ProcessesProofs ----------------------------
(***************************************************************************)
(* Proofs about Processes, for any handlers, domains and layouts. Two of   *)
(* the theorems hold of the deployments described by OneDomainEach and     *)
(* QueuesMatch; what goes wrong in the others TLC shows.                   *)
(***************************************************************************)
EXTENDS Processes, FiniteSetTheorems, SequenceTheorems, TLAPS

\* No launcher of the deployments is given several domains.
OneDomainEach ==
  \A l \in Layout : \A p \in DOMAIN l.script :
    l.script[p] \in {"workflow_launcher", "signal_launcher"} => Len(l.args[p]) <= 1

\* Every limited handler is in a package that is wired, and registered with the
\* queue called after its domain, or, where allinone.py does not run, with one
\* for which worker.py knows all activities.
QueuesMatch ==
  \A h \in Limited :
    /\ DomainOf[h] \in Wired
    /\ \A l \in Layout :
         \/ l.queue[h] = OwnQueue[DomainOf[h]]
         \/ \A p \in DOMAIN l.script :
              /\ l.script[p] # "allinone"
              /\ \/ l.queue[h] \in {NoQueue, DefaultQueue}
                 \/ l.queue[h] = AllQueue /\ (l.script[p] = "worker" => GivenAll(l.args[p]))

\* An offset is of an event of the launcher's kind that has been published.
OffsetsArePublished == \A o \in offset : o[2] \in Event /\ o[1].kind \in {"workflow", "signal"}

TypeInv == TypeOK /\ OffsetsArePublished
-----------------------------------------------------------------------------
(* Registries and handler maps. *)

LEMMA HandlersAreHandlers ==
  ASSUME NEW m, NEW l, NEW e PROVE HandlersOf(m, l, e) \subseteq Handler
  <1>1. \A ds : EventHandlerMap(m, ds, e) \subseteq Handler /\ SignalHandlerMap(m, ds, e) \subseteq Handler
    BY HandlersAssumption DEF EventHandlerMap, SignalHandlerMap, WorkflowRegistry, SignalRegistry
  <1>2. WorkflowMap(m, l.domains, e) \subseteq Handler /\ SignalMap(m, l.domains, e) \subseteq Handler
    BY <1>1 DEF WorkflowMap, SignalMap, Updated
  <1> QED
    BY <1>2 DEF HandlersOf

LEMMA LaunchersAreTyped ==
  ASSUME NEW p, NEW m, NEW l \in LaunchersOf(p, m)
  PROVE  l.kind \in {"workflow", "signal"}
  BY DEF LaunchersOf, AllInOneLaunchers, Launcher

\* With one domain, or with none named, nothing is lost of a handler map.
LEMMA OneDomainKeepsAll ==
  ASSUME NEW m, NEW l, NEW e, NEW h \in Meant(l, e),
         l.kind \in {"workflow", "signal"}, NEW n \in {0, 1}, DOMAIN l.domains = 1..n,
         l.domains = <<>> <=> n = 0,
         h \in WorkflowRegistry(m) \cup SignalRegistry(m)
  PROVE  h \in HandlersOf(m, l, e)
  <1> USE HandlersAssumption
  <1>1. h \in Handler /\ EventOf[h] = e /\ DomainOf[h] \in Domain /\ (h \in Signalled <=> l.kind = "signal")
    BY DEF Meant
  <1>2. CASE l.domains = <<>>
    BY <1>1, <1>2 DEF HandlersOf, WorkflowMap, SignalMap, EventHandlerMap, SignalHandlerMap,
       WorkflowRegistry, SignalRegistry
  <1>3. CASE l.domains # <<>>
    <2>1. DOMAIN l.domains = {1} /\ l.domains[1] = DomainOf[h]
      BY <1>1, <1>3 DEF Meant
    <2>2. ASSUME NEW f, DOMAIN f = {1}, h \in f[1] PROVE h \in Updated(f)
      BY <2>2 DEF Updated
    <2>3. CASE l.kind = "workflow"
      <3>1. h \in EventHandlerMap(m, {l.domains[1]}, e)
        BY <1>1, <2>1, <2>3 DEF EventHandlerMap, WorkflowRegistry, SignalRegistry
      <3> QED
        BY <1>3, <2>1, <2>2, <2>3, <3>1 DEF HandlersOf, WorkflowMap
    <2>4. CASE l.kind = "signal"
      <3>1. h \in SignalHandlerMap(m, {l.domains[1]}, e)
        BY <1>1, <2>1, <2>4 DEF SignalHandlerMap, WorkflowRegistry, SignalRegistry
      <3> QED
        BY <1>3, <2>1, <2>2, <2>4, <3>1 DEF HandlersOf, SignalMap
    <2> QED
      BY <2>3, <2>4
  <1> QED
    BY <1>2, <1>3

LEMMA RegistriesAreHandlers ==
  ASSUME NEW m
  PROVE  /\ WorkflowRegistry(m) \subseteq Handler \ Signalled
         /\ ActivityRegistry(m) \subseteq Handler \ Signalled
         /\ SignalRegistry(m) \subseteq Signalled
  BY DEF WorkflowRegistry, ActivityRegistry, SignalRegistry

\* What may fail is counted in natural numbers.
LEMMA MishapsAreCounted ==
  /\ \A m \in SUBSET Module : Cardinality(Module \ m) \in Nat
  /\ \A r \in SUBSET Handler : Cardinality(r) \in Nat
  <1>1. IsFiniteSet({"workflows", "signals", "activities"})
    <2>1. {"workflows", "signals", "activities"} = ({"workflows"} \cup {"signals"}) \cup {"activities"}
      OBVIOUS
    <2>2. IsFiniteSet({"workflows"})
      BY FS_Singleton
    <2>3. IsFiniteSet({"workflows"} \cup {"signals"})
      BY <2>2, FS_AddElement
    <2>4. IsFiniteSet(({"workflows"} \cup {"signals"}) \cup {"activities"})
      BY <2>3, FS_AddElement
    <2> QED
      BY <2>1, <2>4
  <1>2. IsFiniteSet(Module)
    BY <1>1, HandlersAssumption, FS_Product DEF Module
  <1>3. \A m \in SUBSET Module : IsFiniteSet(Module \ m)
    BY <1>2, FS_Difference
  <1>4. \A r \in SUBSET Handler : IsFiniteSet(r)
    BY HandlersAssumption, FS_Subset
  <1> QED
    BY <1>3, <1>4, FS_CardinalityType

LEMMA FaultsAreBounded ==
  ASSUME faults \in 0..MaxFaults, NEW n \in Nat, Fault(n)
  PROVE  faults' \in 0..MaxFaults
  BY BoundsAssumption DEF Fault

-----------------------------------------------------------------------------
(* The steps, cut by what they may change. *)

StepOf(p) ==
  \/ Start(p) \/ Connect(p) \/ Disconnect(p) \/ Die(p) \/ ConsumeSome(p)
  \/ \E e \in Event : Request(p, e) \/ PublishAfterCommit(p, e) \/ PublishByPoll(p, e)
  \/ \E h \in Handler : \/ RunWorkflow(p, h) \/ RunActivity(p, h)
                        \/ ActivityRaises(p, h) \/ ActivityUnknown(p, h)

\* A start either needs no modules, or imports some of them.
LEMMA StartsBegin ==
  ASSUME NEW p \in Deployed, Start(p)
  PROVE  \/ Begin(p, {}, "up") /\ Script(p) \in {"backend", "outbox_beat"} /\ UNCHANGED faults
         \/ \E m \in SUBSET Module :
              /\ Begin(p, m, "connecting") /\ Fault(Cardinality(Module \ m))
              /\ Script(p) \in {"worker", "allinone"} => Wire(m)
  BY DEF Start, StartBackend, StartBeat, StartWorkflowLauncher, StartSignalLauncher,
     StartWorker, StartAllInOne, Autodiscover, Discovered

LEMMA InitIsTyped == Init => TypeInv
  BY BoundsAssumption DEF Init, TypeInv, TypeOK, OffsetsArePublished

LEMMA StepIsTyped ==
  ASSUME TypeInv, NEW p \in Deployed, StepOf(p) PROVE TypeInv'
  <1> USE BoundsAssumption DEF TypeInv, TypeOK, OffsetsArePublished
  <1>1. CASE Start(p)
    <2>1. CASE Begin(p, {}, "up") /\ UNCHANGED faults
      BY <2>1 DEF Begin, runVars, Deployed
    <2>2. ASSUME NEW m \in SUBSET Module, Begin(p, m, "connecting"), Fault(Cardinality(Module \ m))
          PROVE  TypeInv'
      <3>1. faults' \in 0..MaxFaults
        BY <2>2, MishapsAreCounted, FaultsAreBounded
      <3> QED
        BY <2>2, <3>1 DEF Begin, runVars, Deployed
    <2> QED
      BY <1>1, <2>1, <2>2, StartsBegin
  <1>2. CASE Connect(p)
    BY <1>2 DEF Connect, ConnectWorkers, ConnectLauncher, ConnectSignalLauncher, runVars, Deployed
  <1>3. CASE Disconnect(p)
    BY <1>3 DEF Disconnect, Fault, runVars, Deployed
  <1>4. CASE Die(p)
    BY <1>4 DEF Die, Fault, runVars, Deployed
  <1>5. CASE ConsumeSome(p)
    <2>1. PICK e \in Event, l \in LaunchersOf(p, imported[p]) :
            /\ event[e] = "published"
            /\ \E r \in SUBSET HandlersOf(imported[p], l, e), c \in BOOLEAN : Consume(p, l, e, r, c)
      BY <1>5 DEF ConsumeSome
    <2>2. PICK r \in SUBSET HandlersOf(imported[p], l, e), c \in BOOLEAN : Consume(p, l, e, r, c)
      BY <2>1
    <2>3. r \in SUBSET Handler /\ HandlersOf(imported[p], l, e) \subseteq Handler
      BY HandlersAreHandlers
    <2>4. faults' \in 0..MaxFaults
      <3>1. Cardinality(r) + (IF c THEN 0 ELSE 1) \in Nat
        BY <2>3, MishapsAreCounted
      <3> QED
        BY <2>2, <3>1, FaultsAreBounded DEF Consume
    <2>5. \A o \in offset' : o[1].kind \in {"workflow", "signal"} /\ o[2] \in Event /\ event[o[2]] = "published"
      <3>1. l.kind \in {"workflow", "signal"}
        BY LaunchersAreTyped
      <3>2. offset' \subseteq offset \cup {<<l, e>>}
        BY <2>2 DEF Consume
      <3> QED
        BY <2>1, <3>1, <3>2
    <2>6. run' \in [Handler -> {"none", "queued", "scheduled", "done", "failed"}]
      BY <2>2, <2>3 DEF Consume
    <2>7. ran' \subseteq Handler /\ lost' \subseteq Handler \X {"unknown", "refused"}
      <3>1. Meant(l, e) \subseteq Handler
        BY DEF Meant
      <3> QED
        BY <2>2, <2>3, <3>1, HandlersAssumption DEF Consume
    <2> QED
      BY <2>2, <2>4, <2>5, <2>6, <2>7 DEF Consume, procVars, Deployed
  <1>6. ASSUME NEW e \in Event, Request(p, e) \/ PublishAfterCommit(p, e) \/ PublishByPoll(p, e)
        PROVE  TypeInv'
    <2>1. /\ event' \in [Event -> {"none", "pending", "published"}]
          /\ \A f \in Event : event[f] = "published" => event'[f] = "published"
          /\ UNCHANGED <<procVars, offset, runVars, lost, faults>>
      BY <1>6 DEF Request, PublishAfterCommit, PublishByPoll, Published
    <2> QED
      BY <2>1 DEF procVars, runVars, Deployed
  <1>7. ASSUME NEW h \in Handler,
               \/ RunWorkflow(p, h) \/ RunActivity(p, h)
               \/ ActivityRaises(p, h) \/ ActivityUnknown(p, h)
        PROVE  TypeInv'
    <2>1. CASE RunWorkflow(p, h)
      BY <2>1 DEF RunWorkflow, elsewhere, procVars, Deployed
    <2>2. CASE RunActivity(p, h)
      BY <2>2 DEF RunActivity, elsewhere, procVars, Deployed
    <2>3. CASE ActivityRaises(p, h)
      BY <2>3 DEF ActivityRaises, FailAttempt, elsewhere, procVars, Deployed
    <2>4. CASE ActivityUnknown(p, h)
      BY <2>4 DEF ActivityUnknown, FailAttempt, elsewhere, procVars, Deployed
    <2> QED
      BY <1>7, <2>1, <2>2, <2>3, <2>4
  <1> QED
    BY <1>1, <1>2, <1>3, <1>4, <1>5, <1>6, <1>7 DEF StepOf

LEMMA StutterIsTyped == TypeInv /\ UNCHANGED vars => TypeInv'
  BY DEF TypeInv, TypeOK, OffsetsArePublished, vars, procVars, runVars, Deployed

LEMMA NextIsAStep == Next <=> \E p \in Deployed : StepOf(p)
  BY DEF Next, StepOf

LEMMA AlwaysTyped == Spec => []TypeInv
  <1>1. TypeInv /\ [Next]_vars => TypeInv'
    BY StepIsTyped, StutterIsTyped, NextIsAStep
  <1> QED
    BY <1>1, InitIsTyped, PTL DEF Spec

\* The variables of every deployment keep their types: no process but those of
\* the layout has a registry, no attempt is counted beyond the limit of a policy,
\* and an offset is committed only for an event that has been published.
THEOREM TypeCorrect == Spec => []TypeOK
  <1>1. TypeInv => TypeOK
    BY DEF TypeInv
  <1> QED
    BY <1>1, AlwaysTyped, PTL

-----------------------------------------------------------------------------
(* NoHandlerSkipped. An offset is committed only after every handler that it *)
(* concerns was given the event or is on record as lost; a handler that was  *)
(* given one never returns to "none", and no loss is taken back.             *)

GivenOrLost == \A o \in offset : \A h \in Meant(o[1], o[2]) : run[h] # "none" \/ Lost(h)

\* What a launcher of the layout can be asked for.
LEMMA LaunchersHaveOneDomain ==
  ASSUME OneDomainEach, TypeOK, NEW p \in Deployed, NEW m, NEW l \in LaunchersOf(p, m)
  PROVE  \E n \in {0, 1} : DOMAIN l.domains = 1..n /\ (l.domains = <<>> <=> n = 0)
  <1>1. CASE Script(p) \in {"workflow_launcher", "signal_launcher"}
    <2>1. l.domains = Args(p)
      BY <1>1 DEF LaunchersOf, Launcher
    <2>2. Args(p) \in Seq(Domain \cup Queue \cup {All}) /\ Len(Args(p)) <= 1
      BY <1>1, LayoutAssumption DEF TypeOK, Args, Script, Deployed, OneDomainEach
    <2>3. ASSUME NEW S, NEW s \in Seq(S), Len(s) <= 1
          PROVE  Len(s) \in {0, 1} /\ DOMAIN s = 1..Len(s) /\ (s = <<>> <=> Len(s) = 0)
      <3>1. Len(s) \in Nat /\ DOMAIN s = 1..Len(s)
        BY <2>3
      <3>2. s = <<>> <=> Len(s) = 0
        BY <2>3, EmptySeq
      <3>3. Len(s) \in {0, 1}
        BY <2>3, <3>1
      <3> QED
        BY <3>1, <3>2, <3>3
    <2> QED
      BY <2>1, <2>2, <2>3
  <1>2. CASE Script(p) = "allinone"
    <2>1. PICK d : l.domains = <<d>>
      BY <1>2 DEF LaunchersOf, AllInOneLaunchers, Launcher
    <2> QED
      BY <2>1
  <1> QED
    BY <1>1, <1>2 DEF LaunchersOf

\* Whoever the offset concerns has been given the event, or is lost, by the end
\* of the step that commits it.
LEMMA ConsumptionSkipsNobody ==
  ASSUME OneDomainEach, TypeInv, NEW p \in Deployed, NEW e \in Event,
         NEW l \in LaunchersOf(p, imported[p]),
         NEW r \in SUBSET HandlersOf(imported[p], l, e), NEW c \in BOOLEAN,
         Consume(p, l, e, r, c), NEW h \in Meant(l, e)
  PROVE  (run[h] # "none" \/ Lost(h))'
  <1>1. h \in Handler
    BY DEF Meant
  <1>2. CASE h \notin WorkflowRegistry(imported[p]) \cup SignalRegistry(imported[p])
    <2>1. <<h, "unknown">> \in lost'
      BY <1>2 DEF Consume
    <2> QED
      BY <2>1 DEF Lost
  <1>3. CASE h \in r
    <2>1. <<h, "refused">> \in lost'
      BY <1>3 DEF Consume
    <2> QED
      BY <2>1 DEF Lost
  <1>4. CASE h \in WorkflowRegistry(imported[p]) \cup SignalRegistry(imported[p]) /\ h \notin r
    <2>1. h \in HandlersOf(imported[p], l, e)
      BY <1>4, LaunchersAreTyped, LaunchersHaveOneDomain, OneDomainKeepsAll DEF TypeInv
    <2> QED
      BY <1>1, <1>4, <2>1 DEF Consume
  <1> QED
    BY <1>2, <1>3, <1>4

\* No step takes a run away or forgets a loss.
LEMMA GivenStaysGiven ==
  ASSUME TypeInv, NEW p \in Deployed, StepOf(p), NEW h \in Handler, run[h] # "none" \/ Lost(h)
  PROVE  (run[h] # "none" \/ Lost(h))'
  <1>1. CASE Start(p) \/ Connect(p) \/ Disconnect(p) \/ Die(p)
    <2>1. run' = run /\ lost' = lost
      <3>1. CASE Start(p)
        BY <3>1, StartsBegin DEF Begin, runVars
      <3> QED
        BY <1>1, <3>1 DEF Connect, ConnectWorkers, ConnectLauncher, ConnectSignalLauncher,
           Disconnect, Die, runVars
    <2> QED
      BY <2>1 DEF Lost
  <1>2. CASE ConsumeSome(p)
    <2>1. PICK e \in Event, l \in LaunchersOf(p, imported[p]) :
            \E r \in SUBSET HandlersOf(imported[p], l, e), c \in BOOLEAN : Consume(p, l, e, r, c)
      BY <1>2 DEF ConsumeSome
    <2>2. lost \subseteq lost' /\ (run[h] # "none" => run'[h] # "none")
      BY <2>1 DEF Consume
    <2> QED
      BY <2>2 DEF Lost
  <1>3. CASE \E e \in Event : Request(p, e) \/ PublishAfterCommit(p, e) \/ PublishByPoll(p, e)
    <2>1. run' = run /\ lost' = lost
      BY <1>3 DEF Request, PublishAfterCommit, PublishByPoll, Published, runVars
    <2> QED
      BY <2>1 DEF Lost
  <1>4. ASSUME NEW k \in Handler,
               \/ RunWorkflow(p, k) \/ RunActivity(p, k)
               \/ ActivityRaises(p, k) \/ ActivityUnknown(p, k)
        PROVE  (run[h] # "none" \/ Lost(h))'
    <2>1. lost' = lost /\ \E s \in {"scheduled", "done", "failed"} : run' = [run EXCEPT ![k] = s] \/ run' = run
      BY <1>4 DEF RunWorkflow, RunActivity, ActivityRaises, ActivityUnknown, FailAttempt, elsewhere
    <2> QED
      BY <2>1 DEF Lost, TypeInv, TypeOK
  <1> QED
    BY <1>1, <1>2, <1>3, <1>4 DEF StepOf

\* Whom an offset concerns is settled by the code, not by a registry.
LEMMA StepSkipsNobody ==
  ASSUME OneDomainEach, TypeInv, GivenOrLost, NEW p \in Deployed, StepOf(p)
  PROVE  GivenOrLost'
  <1>1. ASSUME NEW o \in offset, NEW h \in Meant(o[1], o[2]) PROVE (run[h] # "none" \/ Lost(h))'
    <2>1. h \in Handler
      BY DEF Meant
    <2> QED
      BY <2>1, GivenStaysGiven DEF GivenOrLost
  <1>2. CASE ConsumeSome(p)
    <2>1. PICK e \in Event, l \in LaunchersOf(p, imported[p]) :
            \E r \in SUBSET HandlersOf(imported[p], l, e), c \in BOOLEAN : Consume(p, l, e, r, c)
      BY <1>2 DEF ConsumeSome
    <2>2. PICK r \in SUBSET HandlersOf(imported[p], l, e), c \in BOOLEAN : Consume(p, l, e, r, c)
      BY <2>1
    <2>3. offset' \subseteq offset \cup {<<l, e>>}
      BY <2>2 DEF Consume
    <2>4. \A h \in Meant(l, e) : (run[h] # "none" \/ Lost(h))'
      BY <2>2, ConsumptionSkipsNobody
    <2>5. \A o \in offset' : \A h \in Meant(o[1], o[2]) : (run[h] # "none" \/ Lost(h))'
      BY <1>1, <2>3, <2>4
    <2> QED
      BY <2>5 DEF GivenOrLost, Meant
  <1>3. CASE ~ConsumeSome(p)
    <2>1. offset' = offset
      <3>1. CASE Start(p)
        BY <3>1, StartsBegin DEF Begin
      <3>2. CASE ~Start(p)
        BY <1>3, <3>2 DEF StepOf, Connect, ConnectWorkers, ConnectLauncher, ConnectSignalLauncher,
           Disconnect, Die, Request, PublishAfterCommit, PublishByPoll, Published,
           RunWorkflow, RunActivity, ActivityRaises, ActivityUnknown, FailAttempt, elsewhere
      <3> QED
        BY <3>1, <3>2
    <2>2. \A o \in offset' : \A h \in Meant(o[1], o[2]) : (run[h] # "none" \/ Lost(h))'
      BY <1>1, <2>1
    <2> QED
      BY <2>2 DEF GivenOrLost, Meant
  <1> QED
    BY <1>2, <1>3

\* Where no launcher is given two domains, an event that every launcher of a
\* handler's domain has left behind was given to that handler, unless a launcher
\* had not imported it or Temporal refused it: no death, broken connection or
\* repetition lets an offset pass over it.
THEOREM NoHandlerSkippedCorrect == ASSUME OneDomainEach PROVE Spec => []NoHandlerSkipped
  <1>1. Init => GivenOrLost
    BY DEF Init, GivenOrLost
  <1>2. TypeInv /\ GivenOrLost /\ [Next]_vars => GivenOrLost'
    <2>1. TypeInv /\ GivenOrLost /\ Next => GivenOrLost'
      BY StepSkipsNobody, NextIsAStep
    <2>2. GivenOrLost /\ UNCHANGED vars => GivenOrLost'
      BY DEF GivenOrLost, Meant, Lost, vars, runVars
    <2> QED
      BY <2>1, <2>2
  <1>3. GivenOrLost => NoHandlerSkipped
    BY DEF GivenOrLost, NoHandlerSkipped, Serving
  <1> QED
    BY <1>1, <1>2, <1>3, AlwaysTyped, PTL DEF Spec

-----------------------------------------------------------------------------
(* FailedOnlyByItself. A worker that runs has imported every wired package, *)
(* and so has the activity of a limited handler whenever it polls the queue *)
(* the workflow was started on.                                             *)

\* The runs of the handlers: a signal handler has no workflow, a limited one has
\* failed only with its last attempt, and all its attempts have raised.
RunsInv ==
  /\ \A h \in Signalled : run[h] \in {"none", "done"}
  /\ \A h \in Handler : run[h] = "failed" => h \in Limited /\ attempts[h] = MaxAttempts
  /\ \A h \in Limited : run[h] \in {"scheduled", "failed"} => attempts[h] = raised[h]

WiredInv ==
  \A p \in Deployed :
    Script(p) \in {"worker", "allinone"} /\ status[p] # "down" => Wire(imported[p])

LEMMA LimitedIsOffered ==
  ASSUME QueuesMatch, TypeOK, WiredInv, NEW p \in Deployed, NEW h \in Limited \ Signalled,
         Up(p, {"worker", "allinone"})
  PROVE  Offers(p, h)
  <1> USE HandlersAssumption, QueueAssumption, LayoutAssumption
  <1> DEFINE q == TaskQueue(h)
  <1>1. h \in ActivityRegistry(imported[p])
    <2>1. DomainOf[h] \in Wired /\ Wire(imported[p])
      BY DEF QueuesMatch, WiredInv, Up
    <2>2. <<DomainOf[h], "activities">> \in imported[p]
      BY <2>1 DEF Wire
    <2> QED
      BY <2>2 DEF ActivityRegistry
  <1>2. DomainOf[h] \in Domain /\ layout \in Layout
    BY DEF TypeOK
  <1>3. CASE layout.queue[h] = OwnQueue[DomainOf[h]]
    <2>1. q = OwnQueue[DomainOf[h]] /\ q \notin {DefaultQueue, AllQueue}
      BY <1>2, <1>3 DEF TaskQueue
    <2>2. DomainOf[h] \in DomainsNamed(q)
      BY <1>2, <2>1 DEF DomainsNamed
    <2>3. WorkerActivities(p, imported[p], q) = ActivitiesByDomain(imported[p], DomainsNamed(q))
      BY <2>1 DEF WorkerActivities, ServesAll
    <2> QED
      BY <1>1, <2>2, <2>3 DEF Offers, ActivitiesByDomain
  <1>4. CASE layout.queue[h] # OwnQueue[DomainOf[h]]
    <2>1. /\ Script(p) = "worker"
          /\ \/ layout.queue[h] \in {NoQueue, DefaultQueue}
             \/ layout.queue[h] = AllQueue /\ GivenAll(Args(p))
      BY <1>2, <1>4 DEF QueuesMatch, Up, Script, Args, Deployed
    <2>2. q = DefaultQueue \/ (q = AllQueue /\ GivenAll(Args(p)))
      BY <2>1 DEF TaskQueue, InferredQueue
    <2> QED
      BY <1>1, <2>1, <2>2 DEF Offers, WorkerActivities, ServesAll
  <1> QED
    BY <1>3, <1>4

LEMMA StepKeepsWired ==
  ASSUME TypeInv, WiredInv, NEW p \in Deployed, StepOf(p) PROVE WiredInv'
  <1> USE DEF WiredInv, Script, Deployed, Wire
  <1>1. CASE Start(p)
    <2>1. CASE Begin(p, {}, "up") /\ Script(p) \in {"backend", "outbox_beat"}
      BY <2>1 DEF Begin, TypeInv, TypeOK
    <2>2. ASSUME NEW m \in SUBSET Module, Begin(p, m, "connecting"),
                 Script(p) \in {"worker", "allinone"} => Wire(m)
          PROVE  WiredInv'
      BY <2>2 DEF Begin, TypeInv, TypeOK
    <2> QED
      BY <1>1, <2>1, <2>2, StartsBegin
  <1>2. CASE Connect(p) \/ Disconnect(p)
    <2>1. /\ layout' = layout /\ imported' = imported /\ status[p] # "down"
          /\ \E s \in {"up", "connecting"} : status' = [status EXCEPT ![p] = s]
      BY <1>2 DEF Connect, ConnectWorkers, ConnectLauncher, ConnectSignalLauncher, Disconnect, Up
    <2> QED
      BY <2>1 DEF TypeInv, TypeOK
  <1>3. CASE Die(p)
    BY <1>3 DEF Die, TypeInv, TypeOK
  <1>4. CASE ~(Start(p) \/ Connect(p) \/ Disconnect(p) \/ Die(p))
    <2>1. UNCHANGED procVars
      BY <1>4 DEF StepOf, ConsumeSome, Consume, Request, PublishAfterCommit, PublishByPoll, Published,
         RunWorkflow, RunActivity, ActivityRaises, ActivityUnknown, FailAttempt, elsewhere
    <2> QED
      BY <2>1 DEF procVars
  <1> QED
    BY <1>1, <1>2, <1>3, <1>4

\* A run whose handler stays as it was, whatever becomes of the others.
LEMMA StepKeepsRuns ==
  ASSUME QueuesMatch, TypeInv, WiredInv, RunsInv, NEW p \in Deployed, StepOf(p) PROVE RunsInv'
  <1> USE HandlersAssumption, BoundsAssumption DEF RunsInv, TypeInv, TypeOK
  <1>1. CASE UNCHANGED <<run, attempts, raised>>
    BY <1>1
  <1>2. CASE ConsumeSome(p)
    <2>1. PICK e \in Event, l \in LaunchersOf(p, imported[p]) :
            \E r \in SUBSET HandlersOf(imported[p], l, e), c \in BOOLEAN : Consume(p, l, e, r, c)
      BY <1>2 DEF ConsumeSome
    <2>2. /\ UNCHANGED <<attempts, raised>>
          /\ \A h \in Handler : run'[h] = run[h] \/ run'[h] = (IF h \in Signalled THEN "done" ELSE "queued")
      BY <2>1 DEF Consume
    <2> QED
      BY <2>2
  <1>3. ASSUME NEW h \in Handler, RunWorkflow(p, h) PROVE RunsInv'
    <2>1. h \notin Signalled
      BY <1>3, RegistriesAreHandlers DEF RunWorkflow
    <2> QED
      BY <1>3, <2>1 DEF RunWorkflow
  <1>4. ASSUME NEW h \in Handler, RunActivity(p, h) PROVE RunsInv'
    BY <1>4 DEF RunActivity, elsewhere
  <1>5. ASSUME NEW h \in Handler, ActivityRaises(p, h) PROVE RunsInv'
    BY <1>5 DEF ActivityRaises, FailAttempt
  <1>6. ASSUME NEW h \in Handler, ActivityUnknown(p, h) PROVE RunsInv'
    <2>1. h \notin Signalled
      BY <1>6 DEF ActivityUnknown, FailAttempt
    <2>2. h \notin Limited
      BY <1>6, <2>1, LimitedIsOffered DEF ActivityUnknown, Polls
    <2> QED
      BY <1>6, <2>2 DEF ActivityUnknown, FailAttempt
  <1>7. CASE \/ Start(p) \/ Connect(p) \/ Disconnect(p) \/ Die(p)
             \/ \E e \in Event : Request(p, e) \/ PublishAfterCommit(p, e) \/ PublishByPoll(p, e)
    <2>1. UNCHANGED <<run, attempts, raised>>
      <3>1. CASE Start(p)
        BY <3>1, StartsBegin DEF Begin, runVars
      <3>2. CASE ~Start(p)
        BY <1>7, <3>2 DEF Connect, ConnectWorkers, ConnectLauncher, ConnectSignalLauncher,
           Disconnect, Die, Request, PublishAfterCommit, PublishByPoll, Published, runVars
      <3> QED
        BY <3>1, <3>2
    <2> QED
      BY <1>1, <2>1
  <1> QED
    BY <1>2, <1>3, <1>4, <1>5, <1>6, <1>7 DEF StepOf

\* Where the queues match the domains, a workflow with a limit on its attempts
\* fails only because its activity raised each time: no worker that polls its
\* queue is without the activity, however the processes start, die and connect.
THEOREM FailedOnlyByItselfCorrect == ASSUME QueuesMatch PROVE Spec => []FailedOnlyByItself
  <1> DEFINE Inv == WiredInv /\ RunsInv
  <1>1. Init => Inv
    BY HandlersAssumption, BoundsAssumption DEF Init, WiredInv, RunsInv
  <1>2. TypeInv /\ Inv /\ [Next]_vars => Inv'
    <2>1. TypeInv /\ Inv /\ Next => Inv'
      BY StepKeepsWired, StepKeepsRuns, NextIsAStep
    <2>2. Inv /\ UNCHANGED vars => Inv'
      BY DEF WiredInv, RunsInv, Script, Deployed, Wire, vars, procVars, runVars
    <2> QED
      BY <2>1, <2>2
  <1>3. Inv /\ TypeInv => FailedOnlyByItself
    BY DEF RunsInv, FailedOnlyByItself, TypeInv, TypeOK
  <1> QED
    BY <1>1, <1>2, <1>3, AlwaysTyped, PTL DEF Spec
=============================================================================
