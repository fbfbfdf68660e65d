# TLA+ model of fcp-sfd-comms

`fcp-sfd-comms` takes requests to email farmers from an SQS queue, hands them to
GOV.UK Notify, follows up what became of each email, retries those that failed and
tells subscribers of an SNS topic about every stage. This directory holds TLA+ modules
of that pipeline, TLC configurations that check them on small instances, and TLAPS
proofs of what matters most. Paths are relative to the repository.

## 1. Inventory

| Component | State | Operations | Interacts with |
|---|---|---|---|
| Consumer (`src/messaging/inbound/comms-request/`) | the batch in hand, the message being processed | poll, parse and dispatch, validate, check idempotency, log, publish *received*, send, record and publish the outcome, schedule a retry on 5xx, delete the batch | queue, log, Notify, topic |
| Status job (`src/jobs/`) | a mutex per process, the pending list of a run | cron tick, fetch pending, ask Notify, record, publish, decide on a retry, schedule it or publish *retry expired* | log, Notify, topic, queue |
| Notification log (`src/repos/notification-log.js`, `src/db/`) | MongoDB collection, unique index on (`message.id`, `message.source`) | idempotency check, insert, update status, find original, list pending | read from a secondary, written on the primary without retried writes |
| Outbound (`src/messaging/outbound/`, `src/messaging/sns`, `sqs`) | none | build and publish events, send retry messages | topic, queue; every error is logged and swallowed |
| Vocabulary (`src/constants`, `src/utils/errors.js`, `src/schemas`) | none | status sets, status-to-event map, retry window, schema | all |
| Startup and shutdown (`src/index.js`, `src/api`, `messaging/inbound/inbound.js`) | how far the process is, what `startServer` returned | start server, index, consumer, cron; the stop event; the end of the process | all |
| Dead letter queue (`floci/init.sh`) | how often SQS handed out each message | redrive after three receives | queue |
| Debug log redaction (`src/utils/debug-log.js`) | one module-level flag | redact nested data | publish |
| HTTP API, logging, configuration | none that matters | health route, log lines, constants | - |
| Lookup scripts (`scripts/notify-find-by-*.js`) | the pages read so far | page through Notify's list, by date or reference after reference | Notify |
| Sonar report (`scripts/sonar-scan.js`) | a worker pool | scan, quality gate, accepted issues and their changelogs, exit code | docker, SonarCloud |

What is hard here: SQS delivers at least once and to any instance; reads come from a
secondary that may lag; a failed write may have been applied; a call to Notify may fail
after the email was accepted; every message is completed, so an error loses it; consumer
and job work on one log with nothing between them but statuses; a process may die between
any two awaits, and does so at every deployment, since stopping waits neither for a batch
nor for a run; a chain of retries is tied together by a correlation id only. Beside the
pipeline: a flag of the debug log outlives the call that set it, the lookup scripts page
through a list that changes under them, and eight workers share two variables.
`PROJECT.json` lists the hazards at their lines, with the properties that watch them.

What makes each component correct:

* consumer: one email per (source, id); a request is logged before it is sent; nothing
  valid is lost or stuck without a fault; events in order;
* status job: one run at a time and the mutex always given back; a final status is final;
  only what Notify reported is announced; every failure is retried or reported as expired,
  within the window of the first request, and what was reported as expired is not retried;
* the whole: one live email per request through all retries; retries bounded and not
  early; one outcome told of each message, never one the log does not hold; every request
  ends in an event; and what publishers, customers and subscribers can tell of all this
  is what `NotificationLifecycle` promises;
* startup and shutdown: no request is lost to a process that ends or never came up; what
  was interrupted is answered for after the restart; only interruptions fill the dead
  letter queue;
* scripts: everything found once, nothing left out, an error never passed for a result;
  an exit code that says what was read of gate and comments.

## 2. Modules

| Module | Models |
|---|---|
| `CommsTypes` | statuses, events, messages, builders, `checkRetryable`; no state |
| `NotificationLog` | `docs` (primary), `replica` (what a secondary holds), the repository's calls |
| `NotificationLifecycle` | the abstract specification: requests accepted, emails sent, verdicts settled, outcomes announced |
| `CommsPlatform` | `queue`, `topic`, `emails`, `now`; publishing and sending; the publishers, Notify, replication and the clock as environment steps; the refinement mapping to `NotificationLifecycle` |
| `CommsRequest` | `consumer[p]`: one action per stretch of code between two awaits of `handleCommRequestMessages` and `processV1CommsRequest` |
| `StatusCheck` | `mutex[p]`, `job[p][r]`: the cron callback and `checkNotifyStatusHandler`, again one action per await |
| `CommsService` | both in every process over one platform |
| `ServiceLifetime` | `CommsService` inside processes that start, stop and end: `phase`, `server`, and the receive counts and dead letters of SQS |
| `DebugLog` | `redactObjectsProperties` and the flag it shares between calls |
| `NotificationSearch` | both lookup scripts over a list of Notify that grows and changes |
| `SonarReport` | `sonar-scan.js`: scanner, gate, paging, worker pool, exit code |
| `PlatformProofs` | lemmas about log and platform: what an update, an insert, a publish and a queued retry leave true |
| `CommsRequestProofs` | theorems about `CommsRequest`: one email per request, the claim of a consumer, the refinement |
| `StatusCheckProofs` | theorems about `StatusCheck` |
| `ServiceProofs` | theorems about `CommsService`: what consumers and jobs keep of each other's promises, and retries: delay, chain of emails, window, bound |
| `OutcomeProofs` | theorems about how requests end in `CommsService`: verdicts, answers to failures, the refinement |
| `LifetimeProofs` | theorems about `ServiceLifetime`, and those of `CommsService` that hold across restarts |
| `SearchProofs` | theorems about `NotificationSearch`: pages, cursor and days |
| `SonarProofs` | theorems about `SonarReport`: paging, worker pool and exit code |
| `MC...` | instances for TLC (`SonarReport` needs none) |

Correspondence with the code. `consumer[p].pc` names the await the consumer stands at:
`check` and `insert` are the two repository calls of `v1.js`, `received` the publish,
`send` the Notify call, then `sent`/`sending` is `processNotifySuccess` and
`failed`/`failure`/`retry` is `processNotifyError`. `Complete` is `completed.push` of the
handler: each catch block of the code leads there. In the same way `job[p][r].pc` follows
`checkNotifyStatusHandler`, `processStatusUpdate` and `checkRetry`. `PROJECT.json` maps
each definition to its lines.

In `ServiceLifetime`, `phase[p]` follows the statements of `index.js`: `down` before
`startServer`, `indexing` while the index is built, `started` once consumer and cron are
started (lines 12-13), whatever became of the server, `running` once the stop handler is
registered (lines 15-18), `stopping` and `stopped` after the stop event (in `stopping` the
receive that was under way may still bring a batch). `startServer` returns `undefined` if
the server cannot be created: then `server.events` throws in `RegisterStop`, and the
process ends with consumer and cron started and perhaps a batch SQS has handed out. A
server whose `start` failed is returned like any other; it is `created`, and the handler
is registered on it. What hapi and hapi-pulse do is modelled from how `index.js` and
`pulse.js` use them: the stop event runs the handler, and then the process exits, whatever
consumer and job are at. `mishaps` is history: it counts what may bring a message back that
a consumer had in hand, that is ends of processes, deletes that fail, and deliveries of a
message some process still holds, whose visibility timeout (60 s in `init.sh`, nothing in
`consumer.js` extends it) ran out. `NotificationSearch` has one
action per page or error of `fetchNotifications` and `fetchByReference`; `SonarReport` one
per awaited call and one per answer to a worker.

The abstraction. `NotificationLifecycle` has no queue, processes, replicas or faults. It
has four histories and four actions: a request is accepted once, an accepted request is
handed to Notify once, a verdict on it is settled once for all, and only the settled
verdict is announced. `CommsPlatform` maps `docs` to what was accepted, `emails` to what
was sent, the finished statuses in `docs` to the verdicts and the final events in `topic`
to the announcements; `RefinesLifecycle` says that every step of the detailed model is one
of the four or leaves the histories as they are.

Abstractions. A message is its key, type, correlation id and whether it parses and is
valid; template, recipient and personalisation travel unchanged. `Event.about`, `faulted`
(the messages whose handling met a fault) and the order of `topic` are history: the code
never reads them. Notify's notification id is an index into `emails`. The queue is a set of
entries with the time they become due: a standard SQS queue keeps no order, and redelivery
covers duplicates. An update whose filter matches nothing succeeds without effect, as
`updateOne` does. In `DebugLog` an object is the sequence of its fields and a string is
redacted or not (how much of it is kept is left out); in `NotificationSearch` a
notification is its place in Notify's list with creation time, status, template and
reference, and a page is the set of its notifications, since Notify orders it. `Status`
stands there for every filter Notify applies itself: the search by date hands `--status`,
`--type` and `--reference` to `getNotifications` and never looks at them again. `ToDay` is
`None` without `--to`. In
`SonarReport` a changelog is the kinds of items in it. Reading arguments and printing are
left out of the scripts, as are the details of failed conditions, issues and hotspots that
`sonar-scan.js` only prints.

Faults. `Faults` selects what may go wrong: `db` (a call throws; a write may have been
applied), `lag` (reads come from `replica`), `sns`, `sqs` (publish, send or delete fails),
`notify` (a call fails without response, or with 5xx after the email was accepted, or the
status cannot be had), `redelivery` (a message in flight is delivered again), `crash` (a
process loses its memory and comes back).

Mutants. Definitions whose comment starts with "Mutant" are slips the code could have
(a missing guard, a wrong filter, an error swallowed). They are not part of any
specification; each shows that a property fails when the code is wrong in that way.

## 3. Runs

| Run | Instance | Shows |
|---|---|---|
| `request_redelivery` | one request, two processes, every fault | types; `AtMostOneEmail` and `ExclusiveSender`; `RecordedBeforeSent`; `StrandedOnlyByFault`; `DroppedOnlyByFault`; `ReceivedThenOutcome`; `RefinesLifecycle` |
| `status_retry` | a failed request and its retry on the way; two callbacks; lag, failing database, SQS, Notify, crashes | types; `OneRunAtATime`; `TruthfulOutcome`; `RetryOnlyAfterFailure`; `FailureAnswered`; `WindowFromFirstRequest`; `ExpiryIsFinal`; `MutexReleased` (liveness) |
| `status_instances` | one notification, two instances of the job, lag | `OutcomeSettles` (liveness) |
| `service_faults` | one request and its retries; failing database, SQS, Notify, redelivery, crashes | `OneLiveEmailPerRequest`; `RetriesBounded`; `RetryNotEarly`; `FinalEventOnce`; `RefinesLifecycle` |
| `service_stale` | the same with lag and redelivery | `OneLiveEmailPerRequest`; `OneOutcomeTold`; `FinishedIsFinal`; `RefinesLifecycle` |
| `service_settled` | one request, no faults | `EveryRequestSettled` (liveness) |
| `lifetime` | a request and a message that cannot be parsed, batches of two, failing deletes, a process that ends, also before it runs | types; `DeadLettersNeedMishaps`; `KeptAcrossRestarts`; `AnsweredForAcrossRestarts` and `FollowedUpAcrossRestarts` (liveness) |
| `search` | both scripts, pages of two, up to four notifications | `SearchComplete`; `SearchSound`; `ReferencesReported`; `SearchEnds` (liveness) |
| `debug_redact` | every event with data nested two deep, one after the other | `PlainDataKept`; `FlatDataRedacted` |
| `sonar_pool` | up to three accepted issues on pages of two, two workers | `FlaggedExactly`; `ExitTellsWhatWasRead` |
| `request_retry_id`, `status_correlated` | | expected violations, section 5 |

Bounds. All bounds stand in guards, never in a state constraint.

* `Uuids`: the ids of the requests plus one fresh `_id` per document. The log holds at
  most three documents of a chain in the service runs; `RetriesBounded` allows two there
  without technical failures (window 2, delay 1), so the bound does not hide a violation.
* `MaxTime`: the clock stops there except to let the delay of a queued retry end, so that
  no retry is lost to the bound.
* `MaxEvents`: while fewer events have been published, the environment may redeliver,
  fail a delete or crash a process (`Room`), publishers may send invalid messages, and a
  run of the job may start from stale data. Afterwards the system runs on without these;
  what a redelivery or crash early in the life of a message can do has happened by then.
* `MaxTechnical`: technical failures Notify reports. The code retries them without end,
  so a chain is finite only if they are.
* `MaxReceives` is 2 for the 3 of `init.sh`, and `MaxMishaps` is 2: as many mishaps as it
  takes to exhaust the receives of a message, so that the dead letter queue does fill.
* `PageSize` is 2 for 250 and 500, with four notifications and three issues: a full page
  that is the last, one that is not, a short one and an empty one all occur. A day is one
  unit of the clock, with one before it and one after it. `Concurrency` is 2 for 8: more
  issues than workers, and answers in every order.
* Data nested two deep is the smallest that has an inner object return into a protected
  one; the flag's state after any event is met by every other.
* Two processes and two callbacks are the smallest numbers that race; a batch of two is
  the smallest in which one message affects the next. Requests of different keys do not
  interact but through batches; that keys are told apart by source and id is part of the
  proofs, which hold for any set of requests. `SYMMETRY` permutes ids that only
  the service draws, processes or callbacks, and is never used with liveness.

Fairness. Consumer and job steps are weakly fair: Node runs every ready continuation and
cron goes on ticking; that a call returns or fails is an assumption about the client
libraries. Receiving messages with a given id is strongly fair: SQS does not hide one
message for ever while delivering others, and without it a publisher that repeats its
request could starve a retry. In `ServiceLifetime` a platform starts processes again,
`index.js` runs to its end or throws, processes that were told to stop end, and a message
whose receives are used up goes to the dead letter queue in the end; that a process ends
otherwise is never fair, and `MaxMishaps` makes the ends cease. In `NotificationSearch` an
answer or an error comes to each call. Notify settles every email, time passes and the
secondary catches up (weakly fair). Crashes, redelivery and submissions are never fair.

What holds only within limits. `FinalEventOnce` is checked without lag: a stale pending
list does make the job publish an outcome again, to which `OneOutcomeTold` sets the limit
that it is the same outcome, for several instances too. When the window ends between two
looks at one failure, lag may have it retried first and reported as expired then; the other
order does not happen (`ExpiryIsFinal`). `FinishedIsFinal`, `ExpiryIsFinal` and the
refinement of the whole service are checked with one process: the mutex is per process, and
two instances can put a finished notification back to `sending` for a while
(`OutcomeSettles` says that it does not stay there), or decide about one failure on both
sides of the end of its window. Two instances of the whole service are beyond TLC here;
`status_instances` has two of the job, `request_redelivery` two of the consumer, and the
theorems of section 4 without `OneInstance` cover the rest: `AtMostOneEmail`,
`OneLiveEmailPerRequest`, `RetriesBounded`, `OneOutcomeTold`, `FailureAnswered` and others
hold for any number of instances on one index. In the same way `DeadLettersNeedMishaps` is
checked with one process, where failed deletes and ends are the mishaps, and proved for any
number, which hand messages out while another process holds them, too.
`FollowedUpAcrossRestarts` exempts the email of a process that ended between `sendEmail`
and the update that puts the notification id into the log: nobody ever asks Notify for it.
`KeptAcrossRestarts` and `AnsweredForAcrossRestarts` count a request as kept that a process
ended over and left in `pending-publish`. `SearchComplete` is checked with `--to` and on a
clock in UTC, and proved for that and for searches without `--to` on any clock (section 5).
`RetriesBounded` says nothing of technical failures, which the code retries without end.
`StrandedOnlyByFault` says what a fault costs: a request whose processing met one may stay
in `pending-publish`, which the job never looks at. `OneLiveEmailPerRequest` also holds
after a 5xx answer for an email that Notify accepted all the same, but only because the
retry of a 5xx is invalid (section 5). `EveryRequestSettled` counts that 5xx answer as an
end for the same reason. `FailureAnswered` leaves out SNS failures: a lost *retry expired*
event is not repeated. Like `StrandedOnlyByFault` and `DroppedOnlyByFault` it excuses the
messages whose handling met a fault (`faulted`): the code does not recover from a crash or
a failed write in the wrong place, and these properties say that only such a fault, and
only for the message it hit, has that effect.

## 4. Proofs

All theorems hold for any number of processes, requests, callbacks, notifications and
batches, for every set of faults and every bound; the assumptions are those named in the
modules (`PlatformAssumption`, `RequestAssumption`, `RunsAssumption`, ...).

Of `RequestSpec`, in `CommsRequestProofs`:

* `RequestTypeCorrect`: `[]RequestTypeOK`. The state of one process is replaced at a time
  (`ProcessUpdate`), each place of the pipeline keeps what it promises (`Placed`), and
  the repository's writes keep the log typed (`AddKeeps`, `UpdateKeeps` of
  `PlatformProofs`).
* `EmailsAreRecorded`: `[]RecordedBeforeSent`, with or without the unique index, from the
  invariant that a process between insert and send has its request in the log.
* `NoSecondEmail`, `SenderIsExclusive`: `KeysGuarded` implies `[]AtMostOneEmail` and
  `[]ExclusiveSender`.
* `NoneStranded`: `[]StrandedOnlyByFault`; `EventsInOrder`: `[]ReceivedThenOutcome`, also
  with `KeysGuarded`.
* `ConsumerImplementsLifecycle`: with `KeysGuarded`, `RefinesLifecycle`, the refinement of
  `NotificationLifecycle` by consumers, crashes and environment.
* `NoneDropped`: `DroppedOnlyByFault`, an action property, with or without the index.

`KeysGuarded` says what keeps two documents of one key out of the log: the unique index
(`UniqueIndex`), or, where `createIndex` could not build it and only logged that, a single
process that reads its own writes (`OneInstance /\ NoLag`).

The argument: `AtMostOneEmail` is not inductive, since two processes could both stand
before `sendEmail` with the same key. `ExclusiveSender` excludes that: who stands between
insert and send has its key in the log, no email with it, and no rival. Every step is of
one of three kinds (`RequestNextKind`): *quiet* (the messages of log and emails stay, no
process starts to own a request), *insert* or *accept*. Quiet steps keep the invariant.
An insert meets no document of its key (`InsertsFresh`), hence, by `RecordedBeforeSent`, no
email and, by `ExclusiveSender`, no other process that owns it. An accept adds the one
email of a key nobody else owns, and its owner ceases to own it. `InsertsFresh` is where
the index and the idempotency check part. With the index it holds because the insert of a
key that is there fails, and the check plays no part, stale or not. Without it, it is an
invariant of its own: the check looked at the log itself (`NoLag`), and from then until the
insert nobody else writes (`OneInstance`). Two processes, or one on a lagging secondary,
break it, and then two emails are sent (section 5).

What a subscriber sees: none of `StrandedOnlyByFault`, `ReceivedThenOutcome` and the
refinement is inductive by itself either. `ClaimInv` extends the exclusive
ownership from the insert to the end of the processing: a process that has a claim on a
request finds in its document and among its events exactly what its place in the pipeline
says (nothing but *received* before the outcome is recorded, that outcome afterwards), and
a document nobody claims is settled, or its request met a fault. A step then changes what
is *about* the key it works on and leaves everything *apart* from it as it was: the lemmas
come in such pairs, and the claim of another process is always apart, because claims are
exclusive. The refinement falls out step by step: an insert is `Accept`, since no document
has the key; `sendEmail` is `Send`, since the claim says no email was
sent; recording a failure is `Settle`, since the claim says the document is unsettled;
publishing it is `Announce`, since the claim says the document has that verdict; every
other step stutters.

Of `StatusSpec`, in `StatusCheckProofs`, from any well-typed set of tracked notifications:

* `StatusTypeCorrect`: `[]StatusTypeOK`; `OneRun`: `[]OneRunAtATime`.
* `OnlyWhatNotifySaid`: `[]TruthfulOutcome`; `NoHastyRetry`: `[]RetryOnlyAfterFailure`,
  with any number of processes on stale reads.

The argument: `StatusInv` says of every copy of a document, in the log, on the secondary, on
a pending list or in the hands of a run, that it is `Tied` to the email with its
notification id; and of every run, by `RunOK`, that from `record` on the status in its hand
is one Notify reported for that email, final ones being there still, because Notify never
changes a final status. That makes stale copies harmless: what ties a copy to its email
never changes. `MutexKind` is the other half: a step takes a free mutex with a new run,
gives it back with the end of the only run, or touches neither.

Of `ServiceSpec` with `KeysGuarded`, consumers and jobs over one log:

* `ServiceProofs`: `ServiceTypeCorrect` (the types of both), `ServiceSendsOnce`
  (`AtMostOneEmail`), `ServiceRecordsFirst` (`RecordedBeforeSent`), `ServiceStrandsNone`
  (`StrandedOnlyByFault`), `ServiceTellsTheTruth` (`TruthfulOutcome`),
  `ServiceRunsOneCheck` (`OneRunAtATime`), `ServiceDropsNone` (`DroppedOnlyByFault`), and
  `ServiceRetriesFailuresOnly` (`RetryOnlyAfterFailure`) if publishers send no retry
  messages with an id (`NoForeignRetries`): the property speaks of every such message in
  the queue.
* there too, of retries: `RetriesWait` (`RetryNotEarly`), `OneEmailAlive`
  (`OneLiveEmailPerRequest`), `WindowStartsOnce` (`WindowFromFirstRequest`) and
  `ChainsAreBounded` (`RetriesBounded`).
* `OutcomeProofs`: `FinishedStaysFinal` (`FinishedIsFinal`), `ServiceImplementsLifecycle`
  (`RefinesLifecycle`), `OneOutcomeEach` (`OneOutcomeTold`), `ExpiryStaysFinal`
  (`ExpiryIsFinal`) and `FailuresAnswered` (`FailureAnswered`).

The argument starts with `LogInv`. Consumer and job write to one log without a lock between
them, so neither keeps its own invariant by itself: an update of the job could undo the
insert of a consumer or put a document back to `pending-publish`. The notification id
decides who may write. Without one, a document is the consumer's: it is pending or failed
before it was sent (`NotesOK`). With one, it is the job's, and its status is one that
Notify reported. The job looks only for published statuses, and a stale copy it works on is
tied to its email, so what it writes lands in documents of the second kind; the consumer
writes into documents of the first kind, because a process between insert and outcome owns
its key (`OneHolder`, the exclusive ownership of `CommsRequestProofs`). `RequestTypeOK`,
`JobInv`, `NotesOK`, `PipelineInv` and `InsertsFresh` together are inductive for every step
of the service, and for messages that vanish from the queue (`ServiceStep`), which is what
a dead letter queue adds.

Retries. `OriginInv` says where a message comes from: a publisher, a consumer's own retry
(which has no id) or the job, which puts the id of the notification it repeats on the
retry and whose email has then failed. From this follows the delay: the entry in the
queue is due a delay after the notification was logged, and the time it is taken out is
no earlier. `ChainInv` follows the chain of emails: each but the last of them has a
successor whose message carries the id of its document. A new email extends the chain at
its end, and only there: two retries of one notification have the same key, so that one of
them at most gets into the log, and a retry of an earlier notification would repeat
one that already has a successor. Since a retry is only sent when its parent has failed,
all but the last of a chain have failed: `OneLiveEmailPerRequest`. `RootInv` puts the
first request of a chain at its beginning, in the log and, because a replica is a past of
the log, on every secondary that has anything of the chain; so the window is counted from
the same moment by everyone. `WindowInv` adds that emails of a chain are spaced by the
delay and that the parent of a retry after a temporary failure was logged in time;
`ChainsAreBounded` then maps the temporary failures of a chain one to one into the delays
that fit into the window.

Outcomes. Two instances have a mutex each, and a slow run of one may write an old status
over what another found out, so that finality is proved for `OneInstance` (any two
processes are the same; runs, crashes and redeliveries are as many as they like, and reads
as stale). `VerdictInv` says that the run that holds the mutex has fresh notifications in
hand, whatever it read; so a status is finished once, and every step of the service maps
to a step of `NotificationLifecycle` or a stutter: insert to `Accept`, `sendEmail` to
`Send`, an update that finishes to `Settle`, a final event to `Announce`.

What subscribers are told needs no mutex. `OutcomeInv` ties every final event to the
document of its message: if the document has a notification id, the event tells what Notify
said for good of that email; if it has none, the consumer gave up on the message, its
verdict is in the document, and no run ever looks at it, because the job only looks for
published statuses. A message has one document and a notification id one final status, so
two events of one message tell the same outcome, however many instances tell it and however
stale what they read: `OneOutcomeTold`.

`ExpiryStaysFinal` rests on `ExpiryInv`: a message reported as expired is one whose email
failed for a temporary reason and whose window, counted from where the log has its
beginning, was over at that time, and a run that is about to send a retry has not found
its message expired. The beginning of a window does not move (`RootInv`, on every
secondary that has anything of the chain), Notify's final status does not change and time
does not go back, so a later decision about the same failure, on a stale list or after a
restart, comes out the same. What is left is a decision made before and carried out after:
the mutex of one instance excludes it.

`FailuresAnswered` says that there is an answer at all, for any number of instances on
stale data. A failed notification is tracked from the update
that records the failure through the run's `publish`, `retry` and `resend` or `expire` to
the entry in the queue, into a consumer's hands and to the document of the retry.
What could break it on the way is named by its hypotheses: `calculateRequestDate` throws if
the request a message is correlated with is not in the collection that is read (`ReadInv`,
with `OwnCorrelation`, section 5); SNS may lose the expiry event; a failing database may
lose the retry after it left the queue, for which `faulted` then holds the retry and not
the notification it repeats (`AnsweredOrLost`, which allows that, holds with a failing
database too).

Of `LifetimeSpec` with `KeysGuarded`, in `LifetimeProofs`:

* `LifetimeTypeCorrect` (`LifetimeTypeOK`), `NoDeadLetterUnprovoked`
  (`DeadLettersNeedMishaps`) and `NoneLostAcrossRestarts` (`KeptAcrossRestarts`);
* `SafeAcrossRestarts`, `OneEmailAcrossRestarts`, `BoundedAcrossRestarts`,
  `OneOutcomeAcrossRestarts`, `ExpiryFinalAcrossRestarts`, `LifecycleAcrossRestarts`: what
  the whole service promises it keeps however often its processes end and start, at
  whatever step they are.

The argument: every step of a lifetime is a `ServiceStep` (`LifetimeStep`), so that the
invariants above carry over. `LifeInv` adds that a process that has not started its loops
rests: no consumer at work, mutex free. `HandInv` counts for the dead letter queue: a
message was received at most as often as there were mishaps, and once more while it is in a
consumer's hand. A batch that is worked off and deleted takes its messages out of the count;
any other way out of a hand is a mishap, and so is being handed out while in one.
`FailureAnswered` does not carry over: a retry may become a dead letter.

Of the lookup scripts, in `SearchProofs`, for any page size, number of pages, references
and any list that grows and changes between the pages:

* `SearchIsSound` (`SearchSound`) and `AllReferencesReported` (`ReferencesReported`), on a
  clock of any time zone; `SearchIsComplete` (`SearchComplete`) if `UtcOffset = 0` or
  `ToDay = None`.

The argument: a page is the newest `PageSize` of what was asked for, so it is closed
upwards among what is older than the cursor (`PageOf`), a short one is all of it, and the
cursor is its least element. That a set of ids has a least and a greatest element is not
proved by induction over its size: inclusion is well-founded on finite sets, so the set has
a smallest subset of those the claim is about (`LeastOf`, `GreatestOf`). `QueryUnderWay`
says that whatever was there at the first page and still has the status asked for was
found, is outside the range, or is older than the cursor; and that what was found is not.
New notifications are newer than every cursor, so what arrives between two pages moves
nothing; and since a status only goes from `sending` to `delivered`, what is expected can
stop to fit, and is then not promised any more, but not begin to again. Creation times grow
with ids, so that one notification before the range ends the search rightly. What is left
is arithmetic on days (`DatesAreDays`, `WithinIsOnDays`): with the clock in UTC the range
is whole days, on others it ends early; without `--to` it does not end.

Of `sonar-scan.js`, in `SonarProofs`, for any number of issues, pages and workers:

* `FlagsExactly` (`FlaggedExactly`) and, if `Killed \notin ScanCodes`, `ExitIsClean`
  (`ExitTellsWhatWasRead`).

The argument: `FoundInOrder` says that the pages fetched are a prefix of the server's
issues, and all of them once a page is the last. `IssuesGivenOut` says of the pool that
each issue below `nextIndex` is in the hands of a worker or has its own result under its
index, and that a worker without an issue has seen `nextIndex` past the end; so when all
workers are done every issue was looked at. `Decision` follows the exit code back to the
gate that was read and the flags, in both directions if the comments were read.

What the theorems assume of their constants, beside the assumptions of the modules, and
why the system may be assumed to meet it:

| Hypothesis | Says | Used by |
|---|---|---|
| `KeysGuarded` | `createIndex` built the index, or one process runs and reads up to date | all of the pipeline but `RequestTypeCorrect`, `EmailsAreRecorded`, `NoneDropped` and the theorems about `StatusSpec`; section 5 says what happens without |
| `DistinctWorkflows` | publishers start a workflow once | `OneEmailAlive`, `WindowStartsOnce`, `ChainsAreBounded`: two requests with one correlation id are two emails the customer is meant to get |
| `NamesFirst` | a request another one names as its origin is the beginning of its workflow | `WindowStartsOnce`, `ChainsAreBounded` |
| `RetryDelay > 0`, `TemporaryFailureTimeout > 0` | as `config/notify.js` has them (15 minutes, a week) | `ChainsAreBounded`: without a delay nothing is bounded, without a window the first email is one too many |
| `OwnCorrelation` | a request names no correlation but itself | `FailuresAnswered`; without it the failure is not answered, section 5 |
| `NoForeignRetries` | retries come from the service | `ServiceRetriesFailuresOnly` |
| `OneInstance` | one process, with any number of runs, restarts and stale reads | `FinishedStaysFinal`, `ServiceImplementsLifecycle`, `ExpiryStaysFinal`, `LifecycleAcrossRestarts`, `ExpiryFinalAcrossRestarts`: a second process has a mutex of its own |
| `KnownTypes` | types of valid requests are in `processorMap` | `NoneLostAcrossRestarts`: others are dropped without a trace |
| `UtcOffset = 0` or `ToDay = None` | the script runs on a clock in UTC, or without `--to` | `SearchIsComplete`; section 5 says what happens otherwise |
| `Killed \notin ScanCodes` | no signal ends the scanner | `ExitIsClean`; section 5 says what happens otherwise |
| a fault not in `Faults` | that dependency answers | `FailuresAnswered` (SNS, database), `NoneLostAcrossRestarts` (database) |

`RunsAssumption` has `None \notin Doc`: the marker for "no notification in hand" is not a
notification.

Only model-checked:

* liveness (`OutcomeSettles`, `MutexReleased`, `EveryRequestSettled`,
  `AnsweredForAcrossRestarts`, `FollowedUpAcrossRestarts`, `SearchEnds`): fairness and
  `ENABLED` are beyond the prover;
* `FinalEventOnce`: without replication lag a final event is published once;
* `DebugLog`, whose redaction is a `RECURSIVE` operator on nested data: what it returns
  for data of every depth needs an induction over the data;
* the two expected violations, of which a counterexample is the proof.

## 5. Where the code disagrees with its documents

With a run each:

* A 5xx answer of `sendEmail` schedules a retry without an id
  (`process-notify-error.js:40` passes no `retryId`); the service's own validation
  refuses it. Run `request_retry_id`, property `RetryHasId`.
* A first request with a correlation id of its own is never retried nor reported expired
  once it fails: `calculateRequestDate` looks for a logged request with that id and
  throws. Run `status_correlated`, property `FailureAnswered`.

Seen in the models when a constant or a property is changed as said, without a run kept
for it:

* The service starts without its unique index if building it fails
  (`src/db/create-index.js:16`). With `UniqueIndex = FALSE` two processes that check a
  redelivered request before either logs it both send it: `AtMostOneEmail` fails. One
  process on a lagging secondary does so as well; one that reads up to date does not
  (`NoSecondEmail`).
* `parseArgs` of `notify-find-by-date.js:72` reads `--to` as midnight UTC and moves it to
  the end of the day on the script's own clock. With `UtcOffset = 1`, a clock ahead of UTC
  as in British Summer Time, the end of the last day is not searched: `SearchComplete`
  fails, whichever clock counts the days.
* `redactObjectsProperties` resets its flag after a nested object, not to what it was
  (`debug-log.js:21`): strings that follow in a protected parent are logged as they are.
  `FlatDataRedacted` is restricted to protected objects without inner objects for that
  reason.
* `README.md:287` says of `npm run sonar`: "Exit code is `0` when the gate passes and all
  suppressed issues are commented, `1` otherwise." If the accepted issues or their comments
  cannot be fetched, `sonar-scan.js:522-524` logs that and goes on as if none lacked its
  comment: exit code 0. In `SonarReport`, `script.exit = 0 => Unjustified = {}` fails in
  this way; it holds where the comments were read, which is what `ExitTellsWhatWasRead`
  says.
* `sonarScan` ends with exit code 0 when the scanner was ended by a signal and the quality
  gate cannot be read: `process.exit(null)` (`sonar-scan.js:509`). With `Killed` in
  `ScanCodes`, `ExitTellsWhatWasRead` fails. A scan that fails before its upload while an
  earlier scan's gate is OK ends with 0 as well; the properties speak of the gate that was
  read.

Order of steps in `README.md`, against which the code and the properties stand:

* Lines 50-53 and 110-111 (and the diagram, lines 92-93) have a status update published
  first and stored then. `processStatusUpdate` (`handler.js:21-26`) and the consumer store
  first; `RefinesLifecycle` requires that order, since `Announce` takes only a settled
  verdict. What the code's order costs is that a crash in between loses the event; what the
  documented order would cost is an event the log does not hold.
* Lines 98-100 and 114 have a retry sent to Notify before it is stored, "in parallel". A
  retry is a request of its own, which the consumer logs before it sends it (`v1.js:33-46`);
  `RecordedBeforeSent` requires that, and `AtMostOneEmail` rests on it.

## 6. Not modelled, and what could follow

Not modelled: the HTTP API (one stateless route), logging and correlation ids for log
lines, configuration and connection setup, which keep no state a property could be about;
argument parsing and output of the scripts; the other queues and topics `init.sh` creates.
`StatusCheck` assumes that every call of Notify returns or fails: nothing in the repository
bounds how long it takes, and one that never settles keeps the mutex.

What could follow: which of the theorems for one instance hold for several if an update
of the status job names the status it replaces; requests of one workflow that share a
correlation id; a retry delay beyond the SQS limit.
