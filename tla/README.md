# A TLA+ model of python-backend-template

The repository is a FastAPI and SQLAlchemy backend template built around an
event framework: domain events are written to an *outbox* table in the
transaction that raises them, published to Kafka, consumed by *launchers*, and
turned into Temporal workflows and signals whose activities call the domain
services again. This directory models that machinery, checks it with TLC and
proves with TLAPS what is safety. Paths below are relative to the repository.

## 1. Inventory

| part | state | operations | what is hard | what makes it correct |
|---|---|---|---|---|
| Transactional outbox (`pami_event_framework/persistence`) | open transactions, outbox rows, events collected per context | `@Transactional`, `_flush_events`, `save_event`, `get_pending_events`, `mark_as_published`, `increment_retry_count`, `delete_published_events` | commit and rollback against publishers, several publishers, death between send and mark | nothing committed is lost, nothing uncommitted is sent |
| Outbox publisher (`tasks/outbox_publisher.py`, `outbox_beat.py`) | the batch it holds | `publish_once`, polling loop, post-commit task | batches with partial failure, lost connections | claims exclude each other, duplicates have a cause, the outbox drains |
| Kafka producer (`kafka/producer.py`) | `_started`, `_producer` | `start`, `stop`, `publish_dict`, reset and retry | tasks that share one object and await in between | its flag tells the truth, clients are closed, True means appended |
| Kafka consumer (`kafka/consumer.py`) | `_started`, `_consumer`, positions | `consume`, commit, reset | rebalances under a running handler, failed handlers, crashes | committed means handled, order per partition, nothing is skipped |
| Workflow and signal launchers (`launcher/`) | calls under way | `_handle_event`, `_start_workflow`, `_signal_workflow` | redelivery, partial failure of several calls, Temporal's identifier rules | every event reaches its workflows, or a logged refusal |
| Autodiscovery and processes (`autodiscovery.py`, `bootstrap/`, the scripts) | a registry per process, connections | `autodiscover`, handler maps and filters, start, retry, restart | two handlers of one event, domain filters, modules that fail to import | every registered handler is served by some process |
| Sessions (`persistence/session.py`, `temporal/activity_helpers.py`) | scoped session per context, two engines | `get_session`, `session_factory`, nesting of `@Transactional` | a unit of work inside another, reads on a replica | one unit of work is one transaction |
| Users (`app/user`) | user rows, linked accounts, roles, avatar status in Redis | registration, profile, roles, avatar | check-then-insert, nested units, whole-aggregate saves, retried activities | unique names and accounts, events that tell the row, an approval that means an avatar |
| Captcha (`core/helpers/captcha.py`) | Redis keys with expiry | store, verify, delete | non-atomic Redis sequences | spent only on an account |
| Authentication (`app/auth`) | tokens, linked WeChat identities | bind, login, refresh | racing binds, tokens that outlive roles | an identity belongs to one user, roles age out |
| Blobs (`app/blob`) | blob rows, references, stored objects | upload, promote, process, delete, signed download | two stores that are not one transaction, late workers | a row has its object, a download is what was signed |
| Object storage (`app/blob/adapter/output/storage`) | buckets and objects | put, delete, copy, stream, URL on three providers | methods that are several requests | the answer says what happened |
| HTTP API, configuration, logging, migrations, helpers | none of their own | — | — | parsing, I/O and static data |

The parts interact in a line. A request or an activity runs a unit of work that
writes rows and events; a publisher process or a post-commit task moves the
events to Kafka through the producer; a consumer group hands them to a launcher;
the launcher starts a workflow in Temporal; a worker's activity runs the next
unit of work.

## 2. The modules

| module | models | source |
|---|---|---|
| `EventDelivery` | the abstract promise: durable when committed, delivered at least once, nothing else delivered | — |
| `Outbox` | units of work and publishers over one outbox table | `persistence/transactional.py`, `base_aggregate_repository.py`, `outbox_repository.py`, `tasks/outbox_publisher.py` |
| `KafkaProducer` | the shared producer object, from await to await | `kafka/producer.py` |
| `EventTopics` | topics, partitions and the consumer group's members, as the next two see them | `kafka/config.py` |
| `EventConsumer` | a consumer group running `consume(handler)` | `kafka/consumer.py` |
| `Launchers` | `EventConsumer` with the handlers that start or signal workflows, and Temporal as they see it | `launcher/` |
| `Processes` | the scripts of a deployment, what each discovers, and an event's way through them | `autodiscovery.py`, `bootstrap/`, `worker.py`, `allinone.py`, `*_launcher.py`, handlers of both domains |
| `Accounts` | the user table, and the requests that race on it | `app/user`, `app/auth`, `core/helpers/captcha.py`, `scripts/` |
| `Users` | one user: aggregate, events, avatar activity, tokens | `app/user`, `app/auth`, `core/helpers/token.py` |
| `StorageAdapters` | the object storage behind its port, request by request | `app/blob/adapter/output/storage` |
| `Blobs` | `StorageAdapters` with blob rows, references, units of work and downloads | `app/blob` |
| `OutboxProofs`, `KafkaProducerProofs`, `EventConsumerProofs`, `LaunchersProofs`, `ProcessesProofs`, `AccountsProofs`, `UsersProofs`, `BlobsProofs` | theorems, one module per component | — |
| `MC*` | instances for TLC | — |

### Outbox

`unit` and `flushed` are the transaction of a `@Transactional` method and the
rows it has flushed; `row` is the committed status of an event's outbox row;
`held`, `todo`, `marked`, `current`, `result` are the local state of one
`publish_once`: the rows its `SELECT ... FOR UPDATE SKIP LOCKED` returned, those
not yet sent, those its open transaction has set to PUBLISHED, and the event
whose send has just returned. `connected` says whether its transaction is alive
in the database, whatever the publisher believes. A publisher is a poller
(`Beat`) or the task a request spawns after its commit (the task bears the
request's name); an `Activity` is a unit of work in a process that registered no
publisher. Every statement of the publisher that the database or Kafka answers
is an action; a send is one action with the outcomes that `publish_dict` has
according to `KafkaProducer` (property `PublishContract`).

Faults are counted in `faults` and bounded by `MaxFaults`: a process dies or a
task never runs (`crash`), the database drops a connection, so that its locks
are gone and the publisher finds out at its next statement (`connection`), a
statement raises (`statement`), an acknowledgement of Kafka is lost (`lostAck`).

### KafkaProducer

An action is the code between two awaits. `client` holds the state of every
`AIOKafkaProducer` object, `current` and `started` are the two fields, `mine` is
the object a suspended task is waiting for. Tasks may start, use, reset and stop
the object in any order. The model has no counter: a client that is closed and
referenced by nobody is used again as a new one.

### EventConsumer and Launchers

`log`, `committed`, `owner` are the broker's; `position` is the owner's; a
rebalance gives every partition to some live member and fetches positions anew
from the committed offsets, beside a handler that may be running. `commit()` is
called without arguments: it commits the position of every partition of the
current assignment. `handed` and `raised` record the messages whose handler has
ended, and those whose handler has only ever raised. `calm` is set once, after
which no fault happens; liveness is stated of what follows.

`Launchers` extends `EventConsumer` and adds the calls a handler is waiting
for (`pending`) and what came of them (`done`, `refused`). `kind` says whether the
group starts or signals. The calls for one event proceed in any order
(`asyncio.gather`); one that fails is logged and dropped, but a sole signal handler
re-raises; "already started" counts as success.

### Processes

A deployment (`layout`) gives every process its script and command line, and every
handler its queue. Each process fills a registry of its own: `imported` are the
modules its autodiscovery got through, and the operators `EventHandlerMap`,
`WorkflowMap`, `WorkerQueues`, `WorkerActivities` and so on are the queries the
scripts make of it. An event is committed by a request, published after the commit
or by the beat, consumed by every launcher that subscribes to it (`offset`), and
its workflows are queued, run and retried (`run`, `attempts`). What happens inside
a publication or a consumption is the business of `Outbox` and `Launchers`.
A fault is a module that fails to import, a death, a broken connection, a refused
start or an offset that is not committed.

A worker is given queues, or `all` (`All`), for which it polls `all-task-queue` with
every workflow and activity of its registry (`ServesAll`). A queue merely *named* so
is one like the others: its workflows are those registered for it, its activities
those of a domain called "all", of which there is none.

### Accounts

`user` is the committed table: a row has a nickname, a phone and the linked
accounts (`links`). `dirty` is what a request's open transaction has flushed and
not committed, `View` the table as that transaction reads it. `ask` is the call
being served, `at` the await it is suspended at; `who`, `found`, `copy`, `seen`
are its local state: the user it has settled on, whether its openid was linked
already, the aggregate it has loaded and changed, and the row that `save()` has
selected. `code` is the captcha in Redis. One action is the code between two
awaits:

| action | code |
|---|---|
| `Ttl`, `Store` | `send_registration_captcha`: time to live, then the new code |
| `Verify`, `Ensure`, `Insert`, `CommitUser`, `SpendCode` | `register_with_captcha` around the transactional `create_user` |
| `ByUnion`, `ByOpenid`, `ByPhone`, `Owner`, `Linked` | the lookups and checks of `bind_and_login`, `login_or_register` and the script |
| `Load`, `Reread`, `Flush`, `CommitUnit` | load an aggregate, change it, `save()`, commit |
| `Die` | the task or its process ends: the transaction is rolled back |

Three facts about libraries carry the model. PostgreSQL runs at READ COMMITTED: a
read sees what is committed, a flush waits for the transaction that holds one of
its keys (`Blocked`) and fails if the key is then taken (`Conflicts`). Reader and
writer are the same database, as in `.env.example`. And SQLAlchemy's identity map
is weak: the row behind a loaded aggregate is not kept, so `save()` selects it
anew and writes the whole aggregate over it; what others have committed in between
is taken for a difference and overwritten (`Merge`).

A user is named by the email it was created with: for a mini-app user that email
is made from the openid. A `profile` call without a nickname stands for every
operation that loads a user and saves columns that are not modelled (profile
fields, roles, avatar).

### Users

One user, for users meet only in what `Accounts` models. `agg` is the aggregate a
task has loaded and changed, with the events its methods raised; `seen` the row
that `save()` selects anew; `late` the columns others have committed since the
load, and `raced` those that some unit then saved over (both are history: no
action reads them). `told` is the user that a reader of the committed events knows.

| action | code |
|---|---|
| `Serve`, `Load` | a request or attempt loads the user and calls one method of the aggregate (`Create`, `AssignRoles`, `UpdateProfile`, `SetAvatar`) |
| `Reread`, `Flush`, `Commit` | `save()`: select, write the whole aggregate over it, flush under PostgreSQL's locks and constraints, commit rows and events together |
| `Complete`, `Attempt`, `TimeOut`, `Approve` | the avatar workflow: started, its activity attempted, given up, and after the commit the approval in Redis |
| `Fail` | the call raises or its worker dies; Temporal retries up to `maximum_attempts` |
| `Login`, `Refresh`, `Tick` | tokens with the roles of the moment, refreshed without a look at the row, and their expiry |

An attempt that has timed out runs on beside its successor. Columns that
`update_profile` treats alike are one, `bio`. A sign-in's tokens live the configured
`AccessLife` and `RefreshLife`; the one `/refresh-token` gives out is encoded without
an `expire_period` and lives `DefaultLife`, the helper's 3600 s, whatever is configured.

### StorageAdapters and Blobs

A method of an adapter is the list of requests it awaits (`call[r].todo`): MinIO
and S3 ask whether the object exists before they delete it, MinIO may have to make
the bucket. `provider` chooses the list, so one module covers the three. The
answers are those a caller can tell apart.

In `Blobs` a request runs one use case: upload (bytes first, then row, and with
an owner the reference), a row without bytes, promotion (copy, flush, delete the
source, commit), the processing steps, deletion, a signed download or a URL.
`task[r]` holds its place, the row it loaded (`base`), the aggregate (`row`) and its
outcome; `rows`, `refs` and `told` (the last status event of a blob) are committed
state. A flush locks its row; a unit that fails leaves the store as it is.

`save()` is two steps, as in `Users`, for the same reason: the row behind a loaded
aggregate is not kept. `Select` reads the row anew (`seen`), or finds that it must
insert; `domain_to_orm` then assigns every column of the aggregate, and the flush
writes those that differ from `seen` (`Writes`, `Merged`). A column that another unit
has committed between load and select is therefore written back as it was loaded:
`kind`, `status` and the locator. An UPDATE or DELETE is of the row that was selected
(`Key` tells it from one inserted since under the same blob): if that is gone the
UPDATE fails, and the DELETE, of which the code wants no count, finds nothing
(`Matches`).

## 3. What the runs check

| run | question | bounds |
|---|---|---|
| `outbox_safety` | is anything lost, invented or claimed twice? | 2 events, 2 requests, 1 activity, 1 poller, batch of 2, 2 faults of any kind |
| `outbox_liveness` | is everything delivered, and is the outbox an `EventDelivery`? | 3 events, one of them rejected every time, 1 request, 1 poller, batch of 2, 1 fault |
| `producer` | does `publish_dict` keep its contract; with one caller, are the fields consistent, and does it recover? | 1 or 2 tasks, 3 clients |
| `producer_wedge` | finding: concurrent `start()` calls | 2 tasks, 3 clients |
| `consumer_skipped` | finding: a failed message is skipped | 2 members, 2 partitions, 3 messages |
| `launcher` | committed means handled and answered, in order; offsets grow; every message is handed over and answered | 2 launchers of either kind, 2 events in 1 partition, 2 workflows |
| `processes` | does every committed event reach its handlers, whatever the deployment? | 4 deployments, 3 handlers of one event in 2 domains, 3 attempts, 1 fault |
| `processes_domains` | finding: `--domains user,blob` drops a handler | 1 deployment |
| `accounts` | do checks and constraints keep users apart, are accounts created whole, is a captcha spent only on an account? | 2 requests at a time, one after another without end; 1 email, 2 identities of one person, 1 phone, 2 nicknames, 1 code |
| `accounts_overwrite` | finding: a concurrent save takes a linked identity away | as above |
| `users` | do the events tell the row, does an approval mean an avatar, do lost roles age out? | 2 tasks, 2 requests and 2 attempts of 1 avatar, 3 ticks, token lifetimes of 1 (sign-in) and 2 |
| `blobs` | is every row without bytes, orphan and odd status explained by a unit that failed or saved a stale copy, do references name blobs, do downloads serve what was signed? | 3 requests and a blob from before, 1 reference, 3 providers, 1 fault, 3 ticks |

Two publishers, one batch boundary and two faults are enough for each hazard of
the outbox: a duplicate needs one publisher that dies or is cut off between send
and commit and another that claims the same row; two faults show them combined.
A batch of two with two or three events has full and partial batches. With the
producer, two tasks reach every pair of suspended awaits. With the consumer, two
partitions are needed where one commit must cover both, two messages in one
partition because a skipped one needs a successor, two members because a partition
must change hands.
With the processes, two domains that handle one event are what the repository has;
the four deployments are the compose file, one split by domain, `allinone.py`
with handlers that name their domain's queue, and a worker given `all` with handlers
that name `all-task-queue`. With the shipped handlers, which all use the default
queue, `allinone.py` derives no domain: it runs the outbox publisher and a worker
that polls the default queue with the workflows and no activity, and no launcher. A
worker given `all` then polls a queue to which nothing is started. No run has these
two arrangements: no event would be handled.
With the accounts, every race is between two requests that check and then write,
and any number may have gone before; two identities with one phone and one
unionid let each lookup find either user, and a nickname both want makes the
third constraint bite.
With the users, two overlapping units show every way one save meets another's
commit, and an attempt beside its own retry; the proofs lift the bounds.
With the blobs, every inconsistency takes a unit that fails or is overtaken
between store and commit, a second one that overtakes it and a third that looks.
They say what may be wrong and why, not that nothing is: a promotion that is rolled
back after its delete leaves a row without bytes, and so does a unit that loaded the
blob before a promotion and saves it after, which also leaves the promoted object
without a row; a promotion that loaded `ready` before a failure was committed writes
`ready` back and tells nobody. `LostOnlyByPromotion`, `OrphansAreAccounted` and
`StatusFollowsLifecycle` name these cases (`Carried`, `Overwrote`, `Stale`), and every
other is excluded.

`DuplicatesNeedFaults` says more than at-least-once: the number of copies of an
event exceeds one by at most the number of faults that have happened, so without
faults delivery is exactly once however the publishers interleave.

### Fairness

A publisher that has started `publish_once` runs on (the event loop schedules
it), the poller polls, a consumer and its handler run on, a process that died is
restarted (the bootstraps loop for ever, and the compose file restarts
containers; for `allinone.py` and the signal launcher, which it does not run, the
same policy is assumed), and a rebalance ends. A send that the poller tries again and again
while Kafka accepts the event succeeds one day: this is strong fairness of
`SendOk` for pollers only. `Processes` asks for each kind of progress to be made
by some process, not by each. No fairness is assumed of requests (they may never
commit, and `Accounts`, `Users` and `Blobs` have safety properties only), of faults,
or of housekeeping. `RecoversFromOutage` is conditional on the broker staying up,
`EveryEventIsHandled` excepts handlers that a named mishap befell (a module that
some process could not import, a start that Temporal refused).

### Findings

The violation runs show where code and documentation disagree: concurrent
`start()` calls of the producer can leave it started with no client, and every
later event of the process refused until it is restarted (`producer_wedge`); the
next commit covers a failed message (`consumer_skipped`); a save of an aggregate
loaded before another request linked an identity deletes that link, although the
use case comments that it loads and saves once so that nothing is overwritten
(`accounts_overwrite`); a launcher for several domains merges their handler maps
with `dict.update`, which drops the handler of one (`processes_domains`).
Each quotes the line it contradicts in `PROJECT.json`.

## 4. What is proved

Every invariant and every safety action property of the passing runs is a theorem
too, for all values of the constants, under the named assumptions of the modules
only; the two theorems that need more say so in their statement. The assumptions
that are more than typing: the producer is shared by finitely many tasks (one
process has no more), handlers and domains are finite, `NoQueue` is not the name of
a queue, every domain has a queue of its own, and a download signature is asked
for with a lifetime of a second to a week, which is what the code clamps it to.
Where an invariant is called `Inv`, it is inductive.

`OutboxProofs`: `Inv` strengthens the invariants with what relates a publisher's
local state to the table: what a live publisher holds is PENDING and held by
nobody else, what it has marked is on Kafka and among what it holds, what its last
send acknowledged is on Kafka. `NoEventLost` is not inductive alone because
`CommitBatch` turns `marked` into PUBLISHED: one must know that marks are only
given to events with a copy. From `Inv` follow `NoEventLost`, `NoPhantomEvent`,
`ExclusiveClaim` and `ClaimIsFresh`, and that every step of `Outbox` is a step or
a stutter of `EventDelivery` (`ImplementsDelivery`).
`DuplicatesNeedFaults` needs an account of debts (`DupInv`): the copies of an event,
plus the publishers without a connection that may still send it (`Ghosts`), plus
one if no live transaction knows of a copy (`Due`), are at most one more than the
faults that have happened. A lost connection or acknowledgement raises the left
side by one at the price of one fault; a send moves a unit from one term to another.
Beside it stand that two units never flush one event, and that what a publisher
has marked is no longer in its `todo`.

`KafkaProducerProofs`: `CallInv` says what a suspended call knows: the first send
starts with no copy, the second with one at most, and only an acknowledged send
makes the result `acked`. That gives `PublishContract` for any number of tasks that
disturb each other, because a result depends on the call's own sends and never on
the shared fields. `SoleInv` says what a caller that is alone knows of the fields at
each of its awaits (`Known`), and that every running object is the current one or
its own (`Reachable`); `OneCaller` is then `callers = {t}`, which is where
finiteness is used.

`EventConsumerProofs`: `Inv` says what a position means: everything below it has
been handed over, but for the message its owner is working on. A commit by a
member that has just finished therefore covers only handled messages, also in
the partitions it was given during the handler, whose positions are the committed
offsets. From it follow `CommitCoversHandled`, `HandedInOrder` and that committed
offsets never move back.

`LaunchersProofs`: every step of a launcher is a step or a stutter of a consumer
(`ImplementsConsumer`), so the above holds of launchers too. `AnswersInv` adds that
a message whose handler has ended had all its calls answered, and that of a
message under way only the `pending` calls have not been; an answer is never undone and
the log only grows. With `CommitCoversHandled` it gives `CommittedIsAnswered`, for any
handler map.

`ProcessesProofs`: `NoHandlerSkipped` holds of deployments in which no launcher is
given two domains (`OneDomainEach`; `processes_domains` shows why), and
`FailedOnlyByItself` of those whose limited handlers are registered with their
domain's queue, or, where `allinone.py` does not run, with the default one, or with
`all-task-queue` if the workers are given `all` (`QueuesMatch`). The layouts of the `processes` run satisfy both. The first is an
invariant by itself once strengthened to a single launcher (`GivenOrLost`): an
offset is committed in the step that gives the event to the launcher's handlers,
and with one domain the handler map keeps them all (`OneDomainKeepsAll`). For the
second, `WiredInv` says that a process that is up as worker has imported the
modules the wiring names, without which it dies, so that the worker that runs a
workflow offers its activity (`LimitedIsOffered`), and `RunsInv` that a limited
run's attempts were all raised by its activity.

`AccountsProofs`: `NothingShared` rests on what transactions have in hand. `Local`
says which call can be at which await and what it has found there; `Backed` that
the keys an open transaction claims are free in the table (`Free`), and that it
creates a row if and only if there is none; `Disjoint` that two transactions never
hold one key, which is PostgreSQL's waiting (`Blocked`). A commit then makes the
claims of one transaction the table's, and the others' stay free. `NoHalfAccount`
also needs that an aggregate loaded from a mini-app user carries the very link by
which the user is named (`KeepsOwn`), so that no merge takes it away, though it may
take others (`LinksStay`); for this a user links an identity once (`LinkedOnce`).
`CodeSpentOnAccount` follows from `Backed`: who is about to spend a code has
committed its user.

`UsersProofs`: three inductive invariants above the types. `EventsInv` says what a
unit in flight has in hand: in the columns nobody has committed since it loaded,
the aggregate is what its events make of the row, and the row `save()` selected is
the row; a unit that creates knows there is none. `EventsTellTheState` is not
inductive without it, as `Commit` writes a whole aggregate and publishes only
events; with it, a commit writes into each such column just what the events say,
because what an event does to a column depends on that column alone
(`HearColumn`, `MergeColumn`). No lock or constraint is needed for it.
`ApprovedInv` adds that a unit of the activity carries its blob as avatar, and any
other unit the row's; `RolesInv` that every token's roles were the row's in some
tick from which its lifetime counts: an access lifetime for an access token of a
sign-in, a refresh lifetime for a refresh token, and the helper's default more for one
it was renewed into. From them follow `EventsTellTheState`,
`ApprovedIsBound` and `RolesAgeOut`, for any number of handlers, requests, blobs and
attempts and any lifetimes.

`BlobsProofs`: `Inv` has a part for the store, which `StorageAdapters` keeps by itself
(`StoreOK`: what remains of a method's requests fits its kind, and its answer is
true of something it has seen), one for each place where a unit stands (`TasksInv`:
the row it loaded, what it makes of it, the call it is inside), and what relates
store and database: an object holds the bytes of the blob its key was minted for
(`ObjectsInv`), what a unit has stored is there until it commits and what a
promotion has deleted is not (`BytesInv`), a row that is flushed is locked and its
presence known (`LocksInv`), and a locator in a committed row was minted by a
committed unit (`RowsInv`). `LostOnlyByPromotion` needs these because a delete by
one unit and a commit by another meet in a row that neither looks at: `LocksInv` has
it that a promotion whose delete is under way holds a row it has found (`Finds`), and
that what other units have flushed does not touch this row before it commits; what a
unit saves over it later is `Carried`. That such a unit only brings back what a
promotion deleted is `Kept`, in `TasksInv`: the object of a locator that a unit has
loaded is there, or a promotion is deleting it or has (`Unstoring`). The proof
splits a step in three: one that changes neither store nor rows (`PlainStep`,
`PlainKeeps`), a request of the store (`StorageSteps`, `StorageKeeps`), and a commit
(`CommitCases`, `CommitKeeps`). From `Inv` follow the six invariants of the run, and
`StatusFollowsLifecycle` as an action property. An orphan is excused by a unit that
overwrote a row only if that unit wrote another locator into it, and did not promote
this very object (`Overwrote`).

Only model-checked, because the prover has no support for ENABLED: everything
about fairness, that is `AtLeastOnce`, `OutboxDrains`, the liveness part of
`DeliverySpec` (its safety is `ImplementsDelivery`), `RecoversFromOutage`,
`EveryMessageHanded`, `EveryWorkflowAnswered` and `EveryEventIsHandled`. The
properties of the violation runs are false and have no theorem.

## 5. Not modelled

- The thumbnail cache, image processing and `head_object`: caches and pure
  library calls that no other state depends on.
- Collecting garbage: `find_gc_candidates` has no caller. It would list referenced
  temporary blobs too, although `upload_temp` promises that a reference protects
  them.
- The callers of promotion and of the processing steps are outside the repository;
  `Blobs` lets them come in any order. The blob activities only log.
- Methods of the user aggregate that no service calls (enable, disable, revoke,
  set password, unlink), and the cache decorators, used by nothing.
- The status of an avatar is APPROVED or absent: nothing writes REJECTED. It is
  per user, not per avatar, so that an earlier avatar's approval shows while a
  later one is processed, and it expires after a day; `ApprovedIsBound` claims no
  more than the code gives. The workflows of two avatars of one user are not
  ordered by anything; the run has one.
- Order across events: no document promises any.
- Reads on a replica: every module has one database.
- The local storage adapter never awaits, so each of its methods is one step.
- Environment prefixes and handler tags; HTTP parsing, response shapes, logging,
  settings, migrations.

## 6. Plan

1. Done: outbox, producer, consumer, launchers, processes, the user table with
   captcha and mini-app binding, one user with avatar and tokens, blobs over the
   object storage; proofs of every safety property that holds.
2. Proofs next: an abstract blob store that `Blobs` refines but for the named
   exceptions; the step-by-step part of the liveness arguments (what each helpful
   action achieves while nothing else can undo it), which needs no ENABLED.
3. Open questions for models: two people's calls that bind one phone or one
   unionid at the same time, two avatars of one user, a replica that lags.
