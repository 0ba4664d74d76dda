# Verification of brainyping

TLA+ models, TLC configurations and TLAPS proofs for brainyping, a distributed
uptime monitor: a scheduler asks for checks, workers in several regions run
them, a collector stores the answers, a status monitor derives status changes
and a retention job removes old answers. Paths below are relative to the
repository, `cmd/...` and `pkg/...` under `src/`.

## The system

| Part | State it keeps | Operations | Talks to |
| --- | --- | --- | --- |
| scheduler `cmd/scheduler` | gocron jobs, `schedulerPaused` | load checks, start, `queue()`: publish, then mark as in flight | request queues (topic exchange), `checks_inflight` |
| worker `cmd/worker` | one Go channel, a pool of goroutines with the request each has in hand, statuses | acknowledge, retry, publish the answer, cool down, exit | its region's request queue, the response queue |
| response collector `cmd/response_collector` | delivery in hand, `saveBuffer`, `RequestIdsToRemoveFromInFlight`, clocks | receive, hand over, acknowledge, save a batch, delete markers, exit | response queue, `responses`, `checks_inflight` |
| queuehelper, consumer side `pkg/queuehelper` | consumer connection | connect, consume into a Go channel, reconnect, cancel, close | RabbitMQ |
| queuehelper, publisher side | publisher connection and channel, `channelMutex`, `reconnectingMutex` | publish, reconnect, publish again | RabbitMQ; called by worker goroutines and scheduler jobs |
| response retention `cmd/response_retention` | threshold and time found of the running `clean()` | find, delete, wait | `responses` |
| status monitor `cmd/status_monitor` | statuses by check, marker, two write buffers | read responses after the marker, detect changes, write changes and current status | `responses`, status collections |
| heartbeat `pkg/heartbeat` | sequence, ticker | start, pulse, stop | `heartbeats` |
| settings and boot `pkg/settings`, `pkg/initapp` | environment of each process, from `.env` and `settings` | import at boot, read for life | `settings` |
| migrations `cmd/migrate`, `pkg/migrations` | the engine's ledger, the calls still to make | up, down, half-way and again | every collection |
| dbhelper, admin | indexes by collection | create, truncate, drop | every collection |
| bulk loader `cmd/bulk_loader` | buffer of records | delete, read, save | `checks` |

### What is hard

* **Acknowledging early.** A worker acknowledges a request before it runs it
  (`cmd/worker/main.go:217`), the collector a response before it is saved
  (`cmd/response_collector/main.go:111`). The broker's guarantee ends there;
  what remains is memory, and two shutdown procedures.
* **Redelivery.** An acknowledgement can be written and never reach the
  broker. The request is then run twice under one id, and the second response
  meets a unique index whose violation ends the collector. If `responses` was made by
  its migration there is no such index, and it is stored twice.
* **Two writes, no transaction.** The scheduler publishes and then marks, the
  collector saves and then deletes the mark. Every crash between two of these
  steps leaves something for somebody else.
* **Clocks.** The collector's auto-flush, grace period and exit delay are
  independent settings that together decide whether a graceful exit loses data.
* **A moving collection.** The retention decides by time what to delete while
  the collector inserts.
* **A derived marker.** The status monitor stores nowhere how far it has read:
  it reads on after the response of the last change it inserted, and what it
  reads again must not become a second change.
* **A copy made late.** Its two writers are sent the id of a check and copy the
  status when they take the id, not when the change happened.
* **Collections made in pieces.** Drop, create and index are separate calls of
  several programs, and MongoDB itself makes a missing collection, without
  indexes, for the first that writes to it.
* **One connection for all.** The goroutines of a process publish on one channel.
  The one whose publish fails replaces connection and channel under the others,
  inside two nested mutexes, and a second failure ends the process.
* **Migrations that stop half-way.** An up is a row of inserts under a unique key,
  and the engine notes it at the end. Run again it may be refused by what the first run
  left.
* **A copy for life.** A program copies the settings at boot and ends at the first key
  it misses, however late it looks.
* **A load against a boot.** The bulk loader deletes and inserts checks under
  the same ids each time, while the scheduler reads them once for its lifetime, in batches
  that are ahead of its jobs. Both stop reading at an error as they do at the end: neither
  `scanner.Err()` nor `cursor.Err()` is ever called.

The hazards, each at its line and with the properties that cover it, are in
`PROJECT.json`.

### What makes each part correct

| Part | Properties |
| --- | --- |
| worker | only a crash or a lost answer costs a request; every extra answer is paid for by a fault; a shutdown ends |
| collector | what is acknowledged is in memory of a live process or saved; no duplicate insert without a fault; a marker is deleted after its response is saved; a partial batch is saved in time; a graceful exit saves all |
| scheduler with collector | a marked request stays in flight until its response is saved; markers only move forward |
| pipeline | a request that reached a queue is saved in the end |
| publisher | goroutines exclude one another and publish on the latest connection; a loss that was noticed is survived; nothing is sent twice; every call ends |
| settings, migrations, boot | the engine's ledger tells the truth about the records; a migration is refused for known reasons only; a boot on a complete database finds all it needs |
| retention | only expired responses are deleted, oldest first, and the backlog stays bounded |
| collections | a collection has its unique index, and with it no two records of one key, except after three known events |
| bulk loader, scheduler's boot | an undisturbed load leaves the checks of the lines it has read, which are the whole file unless the scanner met an error; a boot that reads an indexed collection has a job for each check that was there when it began to read |
| status monitor | no late save of an old status; no response passed over, whatever was killed where; a restart at rest neither loses nor repeats a change; both collections end up at the latest response |

## Modules

| Module | Models | Notes |
| --- | --- | --- |
| `QueueConsumer` | one consumer connection | a record and operations on it, used by worker and collector |
| `Backbone` | the queues and the two collections the processes share; fault budget; history variables | |
| `Scheduler` | `cmd/scheduler` | a firing is known by the request id it will use |
| `Worker` | `cmd/worker` | also runs alone (`WSpec`), fed by any source of requests |
| `Collector` | `cmd/response_collector` | |
| `CheckPipeline` | the three together | refines `CheckLedger` |
| `CheckLedger` | abstract: what scheduler and collector promise about a request | |
| `CollectorTiming` | the collector with its clocks | Collector's actions, guards added |
| `Publisher` | `publish()` of `pkg/queuehelper` and its callers' `FailOnError` | refines `PublishContract` |
| `PublishContract` | abstract: what a call of `publish()` comes to | what `Scheduler` and `Worker` assume of it |
| `Settings` | the migrations of `settings`, `cmd/admin` on it, `importSettings` and `GetEnv` | |
| `ResponseRetention` | `cmd/response_retention` | |
| `StatusMonitor` | `cmd/status_monitor` | fed by inserts of responses in any order |
| `Collections` | one collection's life: `cmd/admin`, migrations, `dbhelper`'s maintenance, `cmd/bulk_loader`, the scheduler's load | |
| `WorkerProofs`, `CollectorProofs`, `PipelineProofs`, `ResponseRetentionProofs`, `StatusMonitorProofs`, `CollectionsProofs`, `PublisherProofs`, `SettingsProofs` | proofs | `WorkerProofs` holds those of `QueueConsumer`, `CollectorProofs` those of `CollectorTiming` |
| `MC*` | bounds for TLC | |

Operators whose comment begins with "Mutant of" are not part of any model:
each is a bug that one property must find when it replaces the definition it
is a mutant of.

### How state and actions correspond to the code

**Consumer link.** `StartConsumingMessages` copies deliveries from the AMQP
library into a bounded Go channel. A link has the state of its connection
(`open`, `closed`, or `stalled`: the channel is closed, the connection is
not), whether the goroutine listens, the Go channel, the messages the broker
handed out and has not seen acknowledged (`unacked`), and those of them whose
`Ack` returned nil but has not reached the broker (`acking`). Deliveries in the
library's own buffer count as still in the queue: the broker would take them
back just the same. When the link is cut, all `unacked` messages return to the
queue, also those in `acking`, and what waits in the Go channel becomes stale: its
`Ack` fails. An orderly `Close` flushes the acknowledgements, a dead
process may not.

**Worker.** One action per branch of the select in `worker()`: `Take`
(acknowledge; on an error leave it to the redelivery), `Attempt` (one turn of
the retry loop, whose outcome is arbitrary), `PublishAnswer`, `GoroutineStop`
(ctx.Done after the grace period). `WorkerExit` waits for all goroutines, as
`allWorkersGracefullyEnded` does, and returns the unacknowledged rest to the
queue. The Go runtime's random choice between ready select cases is the
choice between enabled actions. Requests are delivered in any order. `Outcomes` is what
`checks.ProcessCheckFromQueue` can come to: HTTP itself is a choice between three.

**Collector.** `recv` and `saver` are the program counters of the two
goroutines. `HandOver` is the rendezvous on the unbuffered channel together
with the test that follows in the saver; `SaveResponses`, `SaveDuplicate` and
`DeleteMarkers` are the flush. The buffer of records and the list of ids to
remove always hold the same ids and are one variable. An insert that does not
finish leaves any prefix of the batch that the unique index permits
(`SavedPart`). `CollectorStartDeaf` is a boot whose `Consume` fails, which
`main` does not look at: the process runs and receives nothing. A process that ends takes its memory with it (`Vanish`). The constant
`UniqueIndex` says how `responses` was made: by the collector's boot or by admin
(TRUE), or by its migration (FALSE).

**Scheduler.** `Fire` includes the early returns for a paused scheduler and
for a check without regions, `PublishRequest` the random region and the topic
exchange's silent drop, `MarkFails` the error that is only printed.

**Publisher.** One action per statement of `publish()` that another goroutine can
see: lock, read the channel, publish, lock again, test `IsClosed`, dial, open the channel, read
it again, publish again, return with the deferred unlocks. A link is `open`, `broken` (the socket is
dead and the library does not know), `stalled` (channel closed, connection not) or `closed`; a publish on a
broken one succeeds without effect or fails. `fate` follows the message of each call.
`PublishContract` has a step for each outcome that `Scheduler` (`PublishRequest`,
`LoseRequest`, `SchedulerCrash`) and `Worker` (`PublishAnswer`, `LoseAnswer`, `WorkerCrash`) assume, so that these modules
need no connection to publish on.

**Settings.** Five migrations stand for the ones of the repository: one makes the
collection, two insert plainly (`populate` with a key before and a key after the
one that is removed later, and `regions`), `limits` deletes before it inserts, `remove` takes a key back. Each is
the calls it still has to make; `SaveNewSett` and `SaveManyRecords` are inserts one at a
time. The engine is a library of which the model takes only that it runs one
migration at a time and notes it at the end; it may accept any order, and `disorder`
notes that it did. A failing call and the `FailOnError` inside `SaveNewSett` come to the
same: nothing is noted. What `.env` sets wins over the collection. Values are left out.

**Faults.** `Spend` charges every crash, loss, cut, database error and
shutdown to a budget, so the state space is finite and a property can say which
faults it tolerates (`NoFault`). A shutdown is in the list because
what it loses is a question of its own.

**Retention.** `Find` states what sort, skip and projection return: the time
of the record that has exactly `Batch` records before it in some order by time.

**Status monitor.** Responses are numbers, in the order of their ids. One action
per statement that another goroutine can see: the reader's find (`FindResponses`) and
its sends, `Detect` with the two sends that a change starts, and for each
writer the copy (`TakeCurrent`, `BufferChange`) and the save. `batch` is a set: what the
find returned and the reader has not sent, taken in the order of the sort. A status keeps the
ids of the responses that set it (`resp`, `since`) in place of times; the
durations computed from them are left out. `Start` is the load of the saved
statuses followed by the recovery of the marker. It is assumed that the cursor of
`loadLastKnownStatus` delivers all statuses: the code does not look at its error
(`cmd/status_monitor/dbhelper.go:124`), and goes on with part of them. After a cancellation the three loops stop
at any turn of theirs and `Exit` follows when both writers have
stopped: the two seconds that the code waits are taken to be enough for a
save; if they are not, the exit is a `Crash`, which is always possible. The
retention does not delete responses that were not read: it keeps them for days.
`happened` notes what a property has to exclude: a process that ended with a
change in transit, and an id inserted below an older one (ids come from the
clocks of the processes that made them).

**Collections.** An operation (`admin`'s menus, an up or down, the boot of the
collector) is the sequence of database calls it has still to do, chosen when it tests
whether the collection is there; calls of others come in between, and it
ends at the first that fails. `Inserted` is any insert, and makes the
collection if it is missing. `bare` is a history variable: how a collection
came to lack its index. One name stands for all collections whose migrations make the
same calls: `checks` for `checks_inflight` and `settings` too. An upsert of a heartbeat is an
insert of a key that may be there already, since two upserts without an index can both insert.
A loader is at a line of its file, with a buffer of records; a record is its check's number
and the second before the first start time in which it falls. All of them belong to one owner.
The scanner may end before the file does (`ScanFails`): the loader flushes and succeeds all the
same, and `scanErr` remembers it for the properties.
The scheduler's load is three parties. The server has a cursor over the natural order and
sends batches of `FetchSize`; it closes the cursor with the first batch that is not full (`Fetched`).
A goroutine asks for the next batch when the channel has taken the last record of this one
(`AsksForMore`). `main` makes a job for one record at a time (`ScheduleNext`) and is done when the
channel is closed (`ScheduleEnd`). What is between the first and the last of these is `ahead`. A drop kills
an open cursor and a batch may fail, which the code takes for the end; records already sent still get
their jobs. `found` remembers the checks that were there when the cursor was opened. `alone` and `disturbed` note
what the properties exclude: another load or a drop; a delete, a drop or a failed batch. A user who asks for zero requests per second is not modelled.

## What the runs check

| Run | Question | Bounds |
| --- | --- | --- |
| `worker` | do requests survive, is every copy of a request and so every extra answer paid for, does a shutdown end | 1 process, 2 goroutines, 2 requests, prefetch 2, channel 1, 2 attempts, 3 faults (two graceful stops) |
| `pipeline` | invariants, no loss in the collector, no unprovoked failure, refinement of the ledger | 2 requests, a region with a queue and one without, 1 worker, batch 2, any 1 fault |
| `pipeline_live` | everything routed is saved, markers go away | as `pipeline`, one graceful worker stop |
| `collector_timing` | clocks: nothing lost at exit, shutdown ends, batches are flushed | 2 responses, batch 2, grace 2, auto-flush 2, exit delay 1, 2 faults out of six kinds |
| `collector_defaults` | the same with the default settings: **violated** | 5, 10 and 2 seconds |
| `retention` | only expired, oldest first, bounded backlog | 4 responses, batch 2, retention 2, lag 1, time 5, 1 error |
| `monitor` | invariant, no stale save, no response passed over, changes accounted for over a restart, do both collections reach the latest response | 2 checks, 3 responses inserted in any order, 2 processes, find limit 2, channels of 1, buffer of 2 |
| `monitor_changes` | is every change recorded: **violated** | as `monitor` |
| `collections` | is the index kept, is a load complete as far as it has read | each kind of collection, 2 loaders, 2 lines, 1 a second, batch 2, cursor batch 2, 1 failing call, 2 other records |
| `collections_load` | is a load complete, does the scheduler load all that was there | `checks`, 1 loader, 4 lines, 2 a second, batch 3, cursor batch 2, 1 failing call |
| `publisher` | invariant, losses survived, the contract, every call ends | 3 goroutines, 4 calls, 3 losses |
| `settings` | does the ledger tell the truth, why is a migration refused, does a boot find all | 5 migrations, 6 commands, 2 failures or uses of admin, 1 program, a key in `.env` |

Why these bounds: two requests are the least with which a batch can hold a
duplicate in front of another record, or one request can be in the channel while another is
in a goroutine's hand; a channel of one with a prefetch of two has both a full channel and a
delivery behind it; a second worker process adds only redelivery to
somebody else, which redelivery to the restarted process already shows, and
the proofs cover any number. Three faults allow a cut, a redelivery and a crash
on top. For the monitor, three responses are the least that fill a find and
leave one for the next, change a check twice before the writer has looked,
and leave a gap below two ids; with two checks a buffer of two can hold both or one
of them twice. The second process is the restart; what a third could find in the database the
second finds too. For a collection, two loaders are the least that overlap and a third would only
overlap one of them again, so `collections` has two, with two lines that meet under the unique index.
`collections_load` has one loader and a longer file: four lines in batches of three have a full batch and a flush, two a
second have a second that ends inside a batch and one at its end, and the cursor's batches of two make a boot of
one, two or three batches, the last of them empty or not, before, between and after the loader's.
One failing call is enough for any one operation to stop anywhere,
and the next to find what it left. Three goroutines are one that reconnects, one that waits for a mutex
and one that comes after; three losses break the first connection, the one dialled for it and the next,
so that the second publish fails too. Six commands make all five
migrations and one of them again; a failure and an emptied collection can hit the same one. `pipeline` has a single fault, of any kind: what
sequences of faults do is left to the proofs, which hold for any number; `collector_timing` adds two faults and
the clocks.
`collections` uses the symmetry of the loaders. `monitor` checks liveness, for which
TLC's symmetry is not sound: `OneOfEachKind` instead fixes check and result of the first response, which stands for all of them
since the model treats checks and results alike. `monitor_changes` has no liveness and uses the
symmetry of the checks. Every action of every module fires in some passing run.

Deadlock is checked in `settings` and `retention`: elsewhere, when all requests are answered, the budget is spent
or the clock has reached its bound, the model stops, as it should.

### Findings

* `collector_defaults`: the grace period is documented as "time to wait before
  closing the application to make sure all buffered responses are saved"
  (`pkg/migrations/20220202214331_populate_setings_collection.go:35`). The exit
  waits for the receiver only. With the defaults a response that arrives shortly before SIGTERM is
  acknowledged, buffered and lost. It is safe where
  auto-flush < grace period + exit delay, which is what `collector_timing` shows on
  an instance.
* `monitor_changes`: no fault is needed. A check changes, and changes again
  before `writeStatusChangesToDbBuffer` has taken its id from the channel
  (`cmd/status_monitor/main.go:199-201`): the second change is inserted twice, the
  first never. `ChangesAccounted` shows that at least their number is right.
  A second weakness is beyond that run: a process killed between the save of a current
  status and the insert of its change has lost the change for good, since its
  successor starts from the new status. Its marker, however, is older, so it may detect
  changes that it has already seen, and in the wrong direction. Hence the condition `happened = {}`
  in `ChangesAccounted`.

Seen while modelling, and not the subject of a run:

* The migration of `responses` makes two plain indexes of
  its own and not the unique index on `requestid`, which is on "the list of indexes that should
  be present in the collection" (`pkg/dbhelper/dbhelper.go:128`); it is the cause `migrated` of `bare`, which `IndexKept` excepts. The collector makes it only if the
  collection is missing when it boots. The same can happen to `checks`,
  `checks_inflight` and `settings` after a failure: a migration that stopped between create and
  index is run again, finds the collection and succeeds. Only `heartbeats` is made anew.
* `scanner.Scan()` returns false at the end of the file, on a read error and on a line of more
  than 64 KiB, and the loader does not ask which (`cmd/bulk_loader/main.go:77-119`). It flushes and prints
  "Import completed" (line 131), with the earlier checks deleted and part of the new ones there.
  `LoadComplete` is what holds: the checks of the lines read, each once and in its second.
* The scheduler reads its cursor once (`cmd/scheduler/dbhelper.go:42-56`), and nobody looks at the cursor's error. What a
  loader saves after the last batch was sent has no job until the scheduler is restarted, although `main`, which
  is to "put each check in the scheduler" (`cmd/scheduler/main.go:58`), may still be at the first record: MongoDB
  sends up to 101 records in the first batch, and closes the cursor if these are all. `SchedulerLoads`
  is what holds: the checks that were there when the cursor was opened have their jobs.
* The collector decodes every message into one variable
  (`cmd/response_collector/main.go:95,104`), and `json.Unmarshal` reuses the slice that is there:
  the records that wait in `saveBuffer` share the array of `RedirectsHistory` and show the redirects of a later
  message when they are saved. The worker resets its variable for fear of this
  (`cmd/worker/main.go:226-227`). The model takes a record for its request id.
* `SaveNewSett` and `DeleteSettingByKey` end the process through `FailOnError` in the middle of a
  migration (`pkg/settings/settings.go:79,88`), where the migrations say "Don't exit, panic or try any other way to
  stop the process". To the ledger it makes no difference.
* `InitQueueWorker` tests the consumer's `initialised` for the publisher's connection too.
* The comment on `clean()` says that records with a time ">=" the one found are deleted
  (`cmd/response_retention/main.go:63`); the lines around it and the code mean "<=".
* A duration in nanoseconds is multiplied by `time.Second` in `cmd/status_monitor/main.go:264`.

### Fairness

`WFairSpec`, `Fairness` of the pipeline, `CTFairSpec` and the monitor's `FairSpec` assume weak fairness of goroutines
(the Go scheduler runs what can run, and a select with a ready `ctx.Done` case
takes it eventually), of the broker's deliveries and acknowledgements, and of
time. Nothing is assumed of faults, signals or restarts: `EventuallySaved` and
`MarkerCleared` therefore say "if all processes are up from some point on".
`pipeline_live` allows no fault but a graceful worker shutdown, since a lost
message is never sent again by this system, a collector that failed is
not restarted by itself, and a stalled link never recovers alone. `Settles`
says "if the monitor stays up from some point on and nothing in `happened` took
place"; responses are finitely many, so there is a latest one.

The publisher's `FairSpec` assumes weak fairness of every step of `publish()` and
strong fairness of its lock: a `sync.Mutex` hands itself to a goroutine that has waited for a millisecond, so nobody
waits for ever behind a stream of others. Nothing is assumed of connections or of the
broker, since every step after the lock ends anyhow.

A marker may outlive its response: if worker and collector are faster than the
scheduler's insert, the delete comes before the insert. `MarkerCleared` is
stated for markers that are there in time; `CheckLedger` permits the other
order and nothing else.

## What is proved

For all values of the constants (any number of requests, regions, processes,
goroutines, faults, any batch, channel and prefetch size), every safety and action
property that a passing run checks. Each invariant named below is also checked by a run.

* `WorkerProofs`. First, what the operations on a link do to `unacked` and `acking`. Then
  `WSpec => []WInv` and `WSpec => []NoRequestLost`. The
  request-survival property is not inductive: when the broker settles an acknowledgement it
  forgets the request, so the invariant must already know that a goroutine has it or
  has answered it (`AckedIsTaken`). That in turn needs `DownIsIdle`, so that a
  start does not wipe a goroutine at work, and `JobSane`, so that what
  a goroutine publishes is a request. Second, `[]OnceInv` and from it `[]AnswersPaidByFaults`, by counting
  (`CopiesPaid`): a copy of the request at the broker, unless its acknowledgement is on its way, the goroutines
  that hold it and its answers are together no more than one and the faults so far. A `Take` moves one
  of these to another because the broker has a request once (`BrokerOnce`) and
  a link hands it out once (`DeliveredOnce`); only a fault makes an acknowledged one count again.
* `PipelineProofs`: `Spec => []PInv`, `[]LostStayInFlight`,
  `[]NoRequestLost` and the refinement `Spec => LedgerSpec` for the composed system. The worker lemmas are about a
  worker step in whatever system it runs, so the composition needs only that
  the other processes take nothing out of the request queues
  (`OutsideStepInv`). `LostStayInFlight` rests on `SavedBeforeDeleted`: a batch
  whose markers are being deleted is in the database (`CollectorProofs`). The refinement needs in
  addition `OnlyAsked`: whatever is in a queue, a link, a goroutine's hands or the buffer was
  published, which no component can say alone, since each may be fed by
  anything. With it, saving is a step of the ledger; clearing is one because it is limited to what
  was saved, and a turn of the scheduler is one by its own program counter.
  Second, `[]POnce`, which joins the worker's `OnceInv` to the collector's part of the same idea: as long as nothing
  has been answered twice and no fault can repeat a delivery, a response is in one place only, between queue, link, hand, buffer and collection
  (`CollectorOnce`). From it come `[]AnswersPaidByFaults` for the whole system,
  `[]NeverFailsUnprovoked` (a duplicate key needs a second response) and `[]NoResponseLost` (a response leaves one of
  these places only for the next).
* `CollectorProofs`, on `CollectorTiming`: `CTSpec => []TimingInv`, which ties the clocks to each other (`ClocksAgree`: with
  records in the buffer, the last save is no less long ago than the last message and, once the receiver has
  stopped, longer ago than the grace period and the time since); and, with the one assumption `AutoFlush < Grace + ExitDelay`, `CTSpec =>
  []GracefulExitSavesAll`. The default settings falsify the assumption; `collector_defaults` is what
  happens then.
* `PublisherProofs`: `Spec => []PublisherInv`, `[]SurvivesLoss` and the refinement
  `Spec => ContractKept`. `NoStaleChannel` rests on `Exclusive` and `Together`: who replaces
  the channel holds the lock. `SurvivesLoss` is a count: a connection that is replaced or spoilt has cost a
  loss (`Spoilt`), a second publish is on a second connection and an error has its reason
  (`Explained`), and a dial begins on a closed connection (`DialsWhenClosed`), so that
  a process that ends has lost two.
* `SettingsProofs`: `Spec => []SettingsInv`, `RefusalExplained` and `[]BootFindsAll`. That the ledger tells the truth is
  not inductive: a migration makes its calls one by one and is noted at the end, so the
  invariant says which calls it has still to make (`Prepared`) and what those behind it have done to the records
  (`Progress`), unless somebody emptied the collection under it. `Orderly` and `Explained` tie the ledger to the
  history, so that a migration that begins again finds what it left. `populate` and `remove` decide one key
  between them: `SpreadGone` is what is known of it while one of them is unsettled. A refused insert then
  means a record that no deletion of the same run had taken away.
* `ResponseRetentionProofs`: the invariant that the threshold and the time
  found lie in the past, and from it that only expired responses are deleted
  and oldest first.
* `StatusMonitorProofs`: `Spec => []MonitorInv`, and from it `NoUpdateLost`,
  `NothingPassedOver` and `ChangesAccounted`. The writer's part speaks of the last write of a check,
  which is the copy in hand or else the record (`LastWrite`), and needs
  `DownIsEmpty` for a start to begin without a copy from an earlier
  process. The reader's part is inductive only as a whole: what lies before the marker was sent
  (`SentUpToMarker`), a batch has no gap (`BatchInOrder`), the channel keeps
  the order (`ChannelInOrder`); and for a restart, every status that was ever copied or
  saved cites a handled response (`CitesHandled`), so a recovered
  marker is one. The changes' part (`ChangesInv`) holds while `happened` is empty. A response is a change
  exactly if it is new and differs from the status in memory, because that is the status of all handled responses of
  the check since its last change (`RememberedIsTrue`), and because what is still to be handled comes after
  every change detected (`ToHandleInOrder`), so one that is read again is after the last change of its check
  and repeats it. The latter survives a restart because the latest change of all checks is the last on its way to the
  collection (`LatestIsLast`), hence the marker; and the former because a process that ends at rest has, by
  `NoUpdateLost`, saved what it remembered.
* `CollectionsProofs`: `Spec => []CollectionsInv`, `[]IndexKept`, `LoadComplete` and `SchedulerLoads`. That no
  operation leaves a collection bare by itself rests on `IndexFollows`: in whatever is left of any operation,
  a create is followed by an index, and an operation that stops there says so in `bare`. `IdleIsEmpty` is
  needed so that a new operation does not overwrite calls still to be made. Of a load, the invariant says that
  line, second and place in the second agree (`Counted`), that a load that is alone works on a collection in which nobody else
  does (`WorksAlone`), and that what is stored, followed by the buffer, is the file up to the line
  (`LoadedSoFar`). A loader that flushes is at the last line or has met an error of the scanner, which is all that `LoadComplete`
  can promise. Of the scheduler it says (`Sound`) that what the cursor has sent are the first records of the
  collection, that those which are not `ahead` any more have their jobs, and that an exhausted cursor has sent all of
  `found`. Inserts only add behind; a job in the way of the next one would be a record with the same key, which the
  unique index excludes; and when nothing is ahead and the cursor is exhausted, `found` has its jobs.

The assumptions are those of the modules: `LinkAssumption`,
`BackboneAssumption`, `WorkerAssumption`, `CollectorAssumption`, `TimingAssumption`,
`RetentionAssumption`, `MonitorAssumption`, `CollectionsAssumption`,
`PublisherAssumption` (`NoOne` is no goroutine) and `SettingsAssumption`. `RetentionAssumption` says that a response waits in the collector's
buffer for less than the retention period (seconds against days).

Only model-checked: liveness (the prover has neither fairness nor
ENABLED), which is `ShutdownCompletes`, `EventuallySaved`, `MarkerCleared`, `CollectorShutdownCompletes`,
`PartialBatchSaved`, `BacklogBounded`, `Settles` and `EveryCallEnds`; and, since TLC's counterexamples need no proof, the
properties of the two runs that find a violation.

## Not modelled, and the plan

Not modelled because there is nothing to check: screen statistics, menus,
HTTP itself, name formatting, the NTP query, the status API. The heartbeat is a ticker whose every
turn is one upsert, which `Collections` has as a writer (`Write`); no program reads what
it writes. The firing times of gocron and the migration engine are libraries.

Planned, in this order:

1. Lemmas towards liveness that are safety: what the fairness of `EventuallySaved` and `Settles` moves, and that
   nothing moves it back.
2. What the decoders of messages and records reuse from one to the next (`RedirectsHistory`, `Regions`).
3. The order of the answers of one check, by the times of the workers and not by id.
