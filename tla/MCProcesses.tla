------------------------------ MODULE MCProcesses ------------------------------
(***************************************************************************)
(* Instances of Processes. As in the repository, two domains handle one    *)
(* event and the handler of the user domain has a limited retry policy; a  *)
(* signal handler is added.                                                *)
(***************************************************************************)
EXTENDS Processes, TLC

CONSTANTS user, blob, Avatar, Log, Signal, Completed,
          default, all, userQueue, blobQueue

MCDomainOf == [h \in {Avatar, Log, Signal} |-> IF h = Log THEN blob ELSE user]
MCEventOf == [h \in {Avatar, Log, Signal} |-> Completed]
MCOwnQueue == [d \in {user, blob} |-> IF d = user THEN userQueue ELSE blobQueue]

CONSTANTS web, beat, starter, starter2, signaller, worker, one

Inferred == [h \in {Avatar, Log, Signal} |-> NoQueue]
Own == [h \in {Avatar, Log, Signal} |-> MCOwnQueue[MCDomainOf[h]]]

\* Every process runs without arguments but those that are named.
With(script, named) ==
  [p \in DOMAIN script |-> IF p \in DOMAIN named THEN named[p] ELSE <<>>]

\* docker-compose.yml, with a signal launcher
ComposeScripts == web :> "backend" @@ beat :> "outbox_beat" @@ starter :> "workflow_launcher"
                    @@ signaller :> "signal_launcher" @@ worker :> "worker"
Compose == [queue |-> Inferred, script |-> ComposeScripts, args |-> With(ComposeScripts, <<>>)]

\* a launcher for every domain, a worker given the queues of the domains
SplitScripts == ComposeScripts @@ starter2 :> "workflow_launcher"
Split == [queue |-> Own, script |-> SplitScripts,
          args |-> With(SplitScripts, starter :> <<user>> @@ starter2 :> <<blob>>
                          @@ signaller :> <<user>> @@ worker :> <<userQueue, blobQueue>>)]

\* allinone.py, with handlers that name their domain's queue
SingleScripts == web :> "backend" @@ one :> "allinone"
Single == [queue |-> Own, script |-> SingleScripts, args |-> With(SingleScripts, <<>>)]

\* worker.py --task-queues all, with handlers registered for that queue
Everything == [queue |-> [h \in {Avatar, Log, Signal} |-> all], script |-> ComposeScripts,
               args |-> With(ComposeScripts, worker :> <<All>>)]

MCLayout == {Compose, Split, Single, Everything}

\* workflow_launcher.py --domains user,blob
TwoDomains == [queue |-> Inferred, script |-> ComposeScripts,
               args |-> With(ComposeScripts, starter :> <<user, blob>>)]
MCDomainsLayout == {TwoDomains}
=============================================================================
