# Formal models of open-fdd

open-fdd collects building telemetry at the edge, stores it in a Parquet historian, runs
fault detection over it and sends operators' commands back to devices. This directory holds
TLA+ models of the parts whose correctness depends on the order of steps, on failures and on
restarts, the TLC configurations that check them, and proofs checked by TLAPS.

## The system

| Part | Source | State it keeps | Operations | What is hard |
|---|---|---|---|---|
| Telemetry ingest and live historian | `services/central/src/{ingest,live_historian}.rs`, `crates/fdd_store/src/{micro_batch,parquet_parts,historian}.rs` | pending batches per (building, equipment), `seen_messages`, latest persisted time; Parquet parts and the watermark file | deliver, buffer, threshold flush, timed flush, drain, start | partial flushes, redelivery, crashes between part and watermark, one bad key |
| Compaction | `crates/fdd_store/src/compaction.rs` | files of a monthly partition: visible, hidden candidates, tombstones | plan, merge, retire, publish, roll back, delete | no lock between compactors, stale plans, a gap readers can see, failures after publication |
| Legacy migration | `crates/fdd_store/src/migration_exec.rs` | staging tree, receipts, published parts | fingerprint, stage, write receipt, publish, complete, verify | crash at every step, resumption, edited sources, overlapping runs, compaction of what was published |
| AFDD scheduler | `services/central/src/afdd_scheduler.rs`, `crates/fdd_store/src/afdd_scheduler.rs`, `edge/src/fdd/registry_api.rs`, `crates/fdd_rules/src/runner.rs` | one checkpoint file, a lock per scope, result files per scope and rule | scheduled cycle, run now, direct rule run | planning before locking, one checkpoint for all scopes, runs outside the lock, dropped handlers, partly written results |
| Commands | `services/central/src/{routes,ingest}.rs`, `services/fieldbus/src/mqtt_bridge.rs`, `crates/openfdd_contracts/src/command.rs` | pending commands, the last acknowledgement of each, the bounded deduper | issue, deliver, execute, acknowledge, expire | at-least-once delivery on both legs, overlapping and lost subscriptions, restarts, overwritten acknowledgements |
| Spool and bridge | `crates/openfdd_mqtt/src/{spool,client}.rs`, `services/fieldbus/src/mqtt_bridge.rs` | record files with sequence numbers, the client's queue | enqueue, trim, list, publish, remove | removal before the broker has the record, trimming, half-written files that keep their number |
| Jobs | `services/central/src/jobs.rs`, `routes.rs` | job, findings and run files, with revisions | patch, save findings, create run, update status, delete, recover | check-then-write without a lock, one temporary name for all writers, a deletion name by name under the hands of others |
| Actions log | `services/central/src/actions.rs`, `routes.rs` | a capped JSONL file | start, finish, delete, clear | pruning of running entries, lines cut short or without their end, short reads, dropped handlers |

How they interact: the fieldbus polls devices, spools telemetry and publishes it over MQTT.
Central's ingest task, a single tokio task, handles each delivered envelope, pushes its rows
into the live historian, and calls the historian once a second and at shutdown. The live
historian writes immutable Parquet parts and a watermark file. The AFDD scheduler reads the
watermark to choose its window and the SQL engine scans the parts. Compaction rewrites the
parts of a month, and migration adds parts made from older formats, both as offline operations
that nothing in the code serialises. Commands go the other way: central publishes, the
fieldbus executes, and acknowledgements arrive in the ingest task. Handlers of the REST surface
keep jobs and the actions log on disk.

## Modules

| Module | What it is |
|---|---|
| `WriteBehindStore` | what the live historian promises: rows are buffered, become durable, and are lost only with the process |
| `LiveHistorian`, `MCLiveHistorian` | the write path in detail, one action per storage operation; its instance for TLC |
| `Lists` | sorting and filtering as functions on positions, which `CompactionPlanner` and `ActionsLog` are built on and the prover can reason about |
| `CompactionPlanner`, `MCCompactionPlanner` | `plan_history` as a recursive function on the sorted small files; every partition, file by file, as its input |
| `ReadSurface` | what compaction promises a reader: rows of a partition are shown or hidden, never lost or shown twice |
| `Compaction`, `MCCompaction` | overlapping compactors on one partition, one action per storage operation; its instance, which takes its plans from `CompactionPlanner` |
| `RestartSafeCopy` | what migration promises: a source's contents are fixed once, its pieces appear once each, and it is done when all are there |
| `Migration`, `MCMigration` | runs of the migration over legacy sources, with edits, kills, overlaps and a compactor |
| `AfddScheduler`, `MCAfddScheduler` | the scheduler's timer, run-now requests and direct rule runs, from the reads before the lock to the checkpoint |
| `Commands` | central, the broker, the fieldbus and the device, and the way back |
| `Spool` | the bridge's tick, the spool directory and the MQTT client |
| `Jobs`, `MCJobs` | concurrent requests on one job's workspace, crash and recovery |
| `ActionsLog` | the log of rule runs under its lock, and the handlers around it |
| `<Module>_proofs` | the inductive invariants and the theorems of `LiveHistorian`, `Compaction`, `Migration`, `AfddScheduler`, `Commands`, `Spool` and `Jobs` |
| `Lists_proofs` | lemmas about `Lists` and recursion, and the theorems of `ActionsLog` and of the planner |

Definitions called mutants in a comment are what a plausible mistake in the code would look
like. No specification uses them; each is there to show that a property would notice.

### LiveHistorian

Handlers of the ingest task never interleave, so `op`, `stage`, `todo` and `months` hold the
position inside the one call in progress: `ingest` is `ingest_envelope`, `tick` is
`flush_due`, `drain` is `shutdown_flush`. Each storage operation is a step of its own,
because the process may be killed between two of them and any of them can fail.

| Variable | Code |
|---|---|
| `buffered[k][e]` | `MicroBatchHistorian.pending`: how often envelope `e`'s row is in key `k`'s batch |
| `due` | keys with `now - first_buffered_at >= flush_after` |
| `seen` | `AppState.seen_messages` |
| `latest` | `LiveHistorian.latest_persisted_timestamp_utc` |
| `reported` | the largest `last_timestamp_utc` of the reports collected so far |
| `copies[k][e]` | published parts that hold the row |
| `watermark` | `state/live-historian/latest-telemetry.json` |

`rejected`, `torn`, `deliveries`, `faults` and `stops` only observe or bound. An envelope has
one observation time and at most one row per key, as `normalized_batches` builds it. Part
contents are the rows; encoding, identity checks and file names are left out, since part
names are fresh UUIDs. A failed flush may leave its last part in the store: an object-store
PUT whose answer is lost.

### Compaction

Each run of `compact_history` is a process of its own: the code has no lock, and the module
comment leaves serialisation to a future coordinator. An operation is identified with the
file it would publish, because the operation id is in both the replacement's and the
tombstones' names. `place[f]` is where a file is: visible, a hidden candidate, retired to a
tombstone, deleted. `at[p]` is the loop index of the current pass. Files hold sets of
parts, the smallest thing whose loss or duplication can be told apart; a schema is a function
from columns to types, and nullability is left out. `Plan` is a parameter: the proofs assume
only that a group consists of visible files in the order of their names, the run uses
`plan_history`, and `PlansAreGroups` proves that of it.

The rollback renames in reverse order, and `Restore` and `Strand` are its two outcomes for a
tombstone. An error after publication (`ConfirmFails`) names the tombstones if the directory
sync failed and nothing if the file's metadata could not be read.

### Migration

A source is a number in path order, its contents a version that `Edit` counts up, and its rows
come in `Pieces[s]` parts: one per batch and month. `stage[m]` is where run `m` is in
`migrate_candidate`.

| `stage` | Code |
|---|---|
| `fingerprint`, `receipt` | the source is fingerprinted; its receipt is read, and decides |
| `clear`, `write`, `hash` | the staging tree is removed, a part is stored, its file is hashed |
| `record` | the receipt is written as staged, once the source has been checked again |
| `publish` | parts are renamed into `history/` one by one; then the staging tree is removed |
| `complete`, `verify` | the receipt is written as complete; the published parts are looked up |

`receipt`, `plan` and `planned` are the receipt file: its state, the parts it names, and the
fingerprint in it. Part names are fresh UUIDs. Parts are stored and receipts replaced whole, so
that each is a step; `Stop` is a kill or a failing call at any of them. `Merge` is all that
`Compaction` does to published parts, in one step. Discovery of sources and the readers of the
legacy formats are pure and left out.

### AfddScheduler

Every cycle is a task of its own, and its registry run a blocking thread: between two steps of
one, any other may move. `cycle[c].phase` is where cycle `c` is.

| `phase` | Code |
|---|---|
| `idle` | the timer waits for a tick; a request is not made yet |
| `plan` | `run_scheduled_cycle` has read the checkpoint (`known`), not the watermark |
| `lock` | a window that ends at `end` is planned, the scope lock not tried |
| `scan` | in `run_all_rules_with_overrides`, before the next of the rules in `todo`, or after the last |
| `write` | the query of the next rule has returned `rows`, its file is not written |
| `over` | a request is answered |

| Variable | Code |
|---|---|
| `history` | the Parquet tree the SQL session lists again for each query |
| `watermark` | `state/live-historian/latest-telemetry.json`, maintained by `LiveHistorian` |
| `checkpoint`, `due` | `analyzed_through_utc` of `state/afdd/scheduler-checkpoint.json`, and whether its `last_completed_at_utc` plus the interval is over |
| `results[s][r]` | `building=<s>/<r>.json` under the results directory |
| `holder[s]`, `guarded` | `scope_locks`, and the cycles whose `execute_cycle` has its `_guard` |

Telemetry is told apart by its time only; a time in `results[s][r]` says that the rule was run when
the scope's rows of that time were readable. `due` abstracts the clock. The live historian is two
actions: rows appear, late ones too, and the watermark moves to the latest time published, which is
what `WatermarkBacked` and `WatermarkMonotone` of `LiveHistorian` allow. A scope has one history
here. In the code a run for a building over `file://` reads the legacy `building=<id>` tree instead
(`registry_api.rs:1080`), which the live historian does not write: its results may hold less than
the model says. `flawed` observes which rule's last run for a scope failed or was cut short by a
crash: the program reports such a run as done, with `rules_failed`, and moves the checkpoint.
`RunRules` is POST /api/fdd/run, which calls the same registry without the lock. `Disconnect` is
the drop of a run-now handler at its await: its guard goes, its blocking thread stays. `unlocked`
counts these two. The start of a window is not modelled: rules read all readable history whatever
the window is. A graceful shutdown ends like a crash for the scheduler: `main` aborts its task.

### Commands

| Variable | Code |
|---|---|
| `pending[c]`, `ack[c]` | `AppState.pending_commands`, `AppState.command_acks` |
| `outbox`, `sent` | central's MQTT client: what it holds, and how much of it the broker has but never confirms |
| `inbox`, `doing` | the channel to the command loop, and the command it is at |
| `seen` | `CommandDeduper`, oldest id first |
| `replies`, `told` | the fieldbus's client, as `outbox` and `sent` |
| `central`, `edge` | connections; `deaf` is a client that reconnected by itself, without its subscriptions |

The broker confirms in order. Whether a sent message will be confirmed is chosen when it is
sent: one that is not is sent again after the break that must follow. The fieldbus subscribes
to its command topic in two overlapping filters, and a broker may deliver a message once for
each. `writes`, `handled`, `forgot` observe; `Expire` is the clock passing a command's
`expires_at` while it is on its way. Refusals of a request before it is stored change nothing
and are left out. So is the branch that answers `Executed` to a command of another protocol
without a write (`mqtt_bridge.rs:259-261`): central sends BACnet commands only
(`routes.rs:678`).

### Spool

`phase` is where the bridge loop is in its tick, and every file operation is a step that can
fail or be the last of the process. `disk[k]` is the file with sequence number `k`: a record,
`None`, or `Torn`, which no reader can parse. `OpensAt` is how a started process goes on
counting. `queue` and `sent` are the client, as in `Commands`; `session` is `dead` when its
event loop has ended, which the bridge sees at its next publication. `unsaved`, `trimmed`,
`abandoned` and `kept` observe what became of an envelope; one that a client abandoned may still
be on disk, and is then published again. A tick stores one envelope; the bacnet
and the rest envelope of a real tick are two of the model's without the publication between.

### Jobs

Requests are numbered and arrive in order. `stage[p]` is what comes next in request `p`: the
first load, the new run's own file, the second load, the revision check, and then the three
steps of `atomic_write_json`: create the temporary file, fill it, rename it. A deletion is at
`delete` before it looks for the directory, and at `unlink` from there until `remove_dir_all`
returns.

| Variable | Code |
|---|---|
| `file`, `tmp` | names in the job's directory, and the temporary name beside each, as numbers of files |
| `content[i]` | what file `i` holds; `torn` is text that cannot be parsed |
| `fd[p]` | the file request `p` has open, whatever its name is by now |
| `base[p]`, `expected[p]` | the document it loaded, with its change; the revision `save_job` must find |
| `crossed` | deletions in whose directory others have made a name since they began |
| `raced` | observes paths that two requests were about to write at once |
| `doomed`, `late` | observe whether a deletion ever began; whether one removed the directory while a request past its revision check had still to create its temporary file |

Files have identities because two writers share one temporary name: the second empties the
file under the first, the first's rename takes the second's text, and its own rename then
fails. A revision is the number of the request that wrote it, and `has` the changes a document
includes.

`remove_dir_all` lists the directory and removes its names one at a time. `Unlink` removes any one
of them, so that other requests meet every part of a job: a job.json without its runs, runs without
a job.json, a temporary name that goes before its rename. `RemoveDirectory` succeeds on an empty
directory only. `DeleteFails` is a failing operation, a directory that is not empty because a name
was made meanwhile (`crossed`), or one that another deletion took; what has not been removed stays.
A crash may come after any name. `DirectoryGone` is the writer's side: `create_dir_all` has
succeeded and the directory is gone when the file is made in it.

Dispositions, handoffs, creation and duplication write the same way and touch no other file; they
are not separate actions.

### ActionsLog

Operations hold one lock for as long as they read, change and write the file, so each is a
step. `handler[a]` is the request that action `a` belongs to, which can be dropped at its await.

A line is an entry, `Junk` that cannot be parsed, or `Garbled`, which is not UTF-8: labels have
characters of several bytes, and a cut may fall within one. `Read` skips junk and stops at a
garbled line, as `lines().map_while(Result::ok)` does. `writeln!` on a file writes the text and its
end separately, so an append that fails or is killed leaves nothing, a part of the text, or the
whole text without its end; `ragged` says that the last line has no end, and it may then be a
readable entry. The next line is joined to it, and the two become one that cannot be read. A read
that stops early (`StartReadsShort`, `FinishFails`, `DeleteFails`) is written back as the log.

## What the runs check

| Run | Result | Question |
|---|---|---|
| `live_historian` | pass | Does any order of deliveries, redeliveries, flushes, one failure and one stop lose an accepted row, move the watermark back or past the rows, or duplicate a row without a known cause? Do buffered rows reach the store without further traffic? |
| `compaction_planner` | pass | Do plans cover the small files in order, in minimal groups? |
| `compaction` | pass | With two compactors of two plans, a schema conflict, a failure and a kill: is every row in exactly one place from which it can be read or brought back, are columns kept, gaps closed or reported, and does one of two overlapping compactors succeed? |
| `migration` | pass | With two runs, a kill, an edit and a merge: does a lone run publish each piece once, is what is marked complete there, is it a restart-safe copy, and does running it again finish it? |
| `afdd` | pass | With a timer, an operator, two scopes, late telemetry, a failure, a crash, a dropped handler or a direct rule run: can the checkpoint claim telemetry that no scope's results were made from? Is a lock held by exactly the cycle it guards? Is every watermark analysed if only the timer's scope is run? |
| `afdd_starved` | violation | And if another scope is run? Then its checkpoint hides the telemetry from the timer. |
| `commands` | pass | With redelivery, a break, a crash or a panic: is a device written twice, is an unwritten command shown as executed, is every command that arrives answered, with its outcome? |
| `spool` | pass | With a failing file operation, a break and a stop: which envelopes are lost or delivered twice, in which order do they arrive, and does a tick empty the spool? |
| `spool_lost` | violation | Is a stored record on disk until the broker has it? Not once the client has queued it: its file is removed, the client ends, and the envelope is nowhere. |
| `jobs` | pass | With three requests, a failure, a crash and deletions that may stop after any name: is job.json what was answered, does it agree with the files beside it, does it stay deleted, and are interrupted runs failed? |
| `jobs_lost_update` | violation | Does a stale write raise a conflict? Not if both writers pass the check before either writes: both are answered with success, and one change is gone. |
| `actions_log` | pass | Do entries stay in order, does one go missing, or go from the list, without a cause, does anything removed or finished come back? |

### Properties worth knowing

* `AcceptedIsStored`: an envelope that would be dropped as a duplicate on redelivery has all
  its rows buffered or published. A batch must not be let go, or Ok returned, one row early.
* `WatermarkBacked` and `WatermarkMonotone`: the scheduler ends its window at the watermark;
  it always names a published row's time and survives restarts without going back.
* `DuplicateHasCause` of `LiveHistorian`: rows appear twice only after a torn flush, or after a
  redelivery of a rejected envelope or across a restart. These are behaviours of the code:
  flushes are not atomic over months, and `seen_messages` is not persisted.
* `RowsPartitioned`: visible files and the tombstones of operations that have not published
  hold every row exactly once. It is the state in which renaming those tombstones back
  repairs the partition after any crash.
* `SomeoneCompacts`: overlapping compactors do not abort each other, because inputs are
  retired in name order.
* `PublishedOnce` holds for runs that do not overlap. Two at once publish a source twice; the
  documentation gives the operation to a lone operator. `CompleteIsReadable` holds for
  overlapping runs too.
* `CheckpointCovered`: a checkpoint ahead of the results would make the timer skip telemetry
  for ever. It holds for *some* scope only, since the checkpoint does not say which, and only
  while no rules run outside the lock, since those may put back results of an older read.
* `LocksMatchRuns`: no two cycles hold a scope, and none leaves it locked. `try_lock` never
  waits, so a lock that stays would refuse every later cycle.
* `WrittenOnce`: a device is written twice for one command only if the deduper lost the id, to
  a restart or to newer commands.
* `AnswerIsOutcome` needs a command that was delivered once: the answer to a second copy
  (`Rejected`) replaces `Executed`.
* `LossHasCause` has two parts: an envelope that is nowhere was not written, trimmed or
  abandoned; and the limit took it only with `MaxRecords` newer ones made.
* `LossHasCause`, `ArrivesInOrder`, `DuplicateHasCause` of `Spool`: together they are what the
  broker sees of the spool through restarts, torn files and records that stay behind.
* `SavesAreExact`: the revision check is right about everything but two requests past it at
  once. It relates each answer to what is on disk, through failing writes, crashes and every part
  of a deletion. From the first step of a deletion on, job.json may be gone, also when the
  deletion fails and nobody is told that it was deleted; whenever it can be read it is exact.
* `SideFilesMatch` ends where a deletion begins, since the names go in any order: one that fails
  or dies half-way can leave a job.json that names runs and findings that are gone.
* `DeletedStaysDeleted` has one exception, `late`. `atomic_write_json` makes missing directories,
  so a request that has passed its check, and has nothing of job.json on disk yet, makes the job
  again. In every other position the deletion takes its temporary file or its load fails.
* `ShownStaysShown` is about the list an operator sees: neither junk nor a crash takes a shown
  entry away, but a line that joins it for want of its end does, and so does a short read.
* `RunningIsCurrent` needs no such condition: writers of run.json may meet in its temporary
  file, and every text that can result is from the current life of central, or is unreadable.

### Findings

Three comments or documents disagree with what the code does, and a run shows each: the
scheduler's checkpoint (`afdd_starved`), the durability of the spool (`spool_lost`), and the
revision check of jobs (`jobs_lost_update`).

Other behaviours met while modelling that no run states:

* while the store fails, a batch grows past `flush_rows` with every delivery, since `push_at`
  appends before it flushes; a key that can never be written holds back those after it
  (`micro_batch.rs:178`), and a sweep that fails on a later key drops the reports of earlier ones;
* after a published compaction an error may name no tombstone (`compaction.rs:299`), though the
  historian documentation says that it always does;
* once compaction has replaced a migrated part, every later migration run fails at that source
  (`migration_exec.rs:465`) and does not reach those after it; `RerunsFinish` excludes this;
* a scheduled cycle is planned before it tries the lock, so it may run again a window that a
  run-now has just analysed; the window is not passed to the rules (`registry_api.rs:1125`),
  and a direct rule run takes no scope lock (`routes.rs:959`);
* a command issued before central has a client stays stored and is never published, and one
  whose answer goes to a deaf central stays pending.

## Bounds

* Live historian: two keys and three envelopes suffice for a group to be buffered before the
  next is refused, a batch over two months, a threshold flush by a second push, a redelivery
  (two deliveries of `a` and `c`), and a sweep over two keys. One failure and one stop put
  either of them at each step.
* Planner: up to six files, sizes from 0 to 4 around the target 4, minimum 2 files.
* Compaction: four parts, two replacement names and two runs of two plans let plans overlap in
  every way, a plan be stale when its turn comes, and a replacement be compacted again. One kill
  and one failing call.
* Migration: two sources, of two parts and one, so that a run stops between two renames of a
  source and between two sources. Five names: three parts, one that is staged twice, and one
  merge. One kill, one edit, one merge, one overlap.
* AFDD: two scopes, the timer and one request are enough for a cycle to overlap with one of its
  own scope and of another, and for the older to end last. Two rules for a run to fail or be cut
  between them; two times for late rows and a watermark that moves during a cycle. One failure,
  one crash and one unlocked run at any step.
* Commands: two commands through a deduper of one id, so that one evicts the other; two
  subscriptions; one break, crash or panic of either side.
* Spool: four envelopes, two records and a queue of one, so that the spool overflows, the queue
  is full with records behind it, and sequence numbers restart; one failing operation, one
  break, one stop.
* Jobs: three requests, of which two may be at each step of a save while the third patches or
  deletes; deletions of several requests may overlap; one failing operation and one crash, hence
  two lives of central.
* Actions log: four actions through a log of two, so that entries are dropped while they run;
  one failing operation and one crash, so that one cut line, or an entry without its end, can be
  joined to by another cut one.
* Deadlock checking is off: the bounded traffic ends, and a stopped process need not restart.

The proofs have no bounds: every constant above is arbitrary there, within the assumptions.

## Fairness

* `LiveHistorian`: weak fairness of the steps of a call in progress (the task runs to the next
  await), of time passing for a key, and of the flush tick, which is an interval of the ingest
  loop. None for deliveries, stops or restarts.
* `Compaction`: weak fairness of the steps of a run that was started; none for starting one.
  A killed run takes no further steps.
* `Migration`: weak fairness of the steps of a run, and of an operator who runs the migration
  again. None for edits, merges or kills, which `RerunsFinish` excludes or bounds.
* `AfddScheduler`: weak fairness of the steps of each cycle (tasks and blocking threads of the
  runtime are scheduled), of the timer's two reads (the 30 second interval keeps ticking) and of
  time passing. None for telemetry, requests, dropped handlers or crashes.
* `Commands`: weak fairness of the command loop, of the fieldbus's client and of central's first
  connection. None for central's client or the bridge's connection.
* `Spool`: weak fairness of the loop's steps within a tick and of the client, which sends and
  reconnects. None for further samples: without points the loop publishes nothing.

## Proofs

Each component's proofs establish `Spec => []IInv` for an inductive invariant, in some cases a
second one on top of it, and derive the theorems from it. The type invariants are theorems
(`TypeCorrect`, `LogTypeCorrect`) and are not checked again in the runs.

| Module | Theorems | Property |
|---|---|---|
| `LiveHistorian_proofs` | `AcceptedSafe`, `WatermarkSafe`, `WatermarkNeverBack`, `DrainComplete`, `DuplicateSafe`, `WatermarkExact`, `Refinement` | `AcceptedIsStored`, `WatermarkBacked`, `WatermarkMonotone`, `DrainStoresAccepted`, `DuplicateHasCause`, `WatermarkExactWithoutFaults`, `ImplementsWriteBehindStore` |
| `Compaction_proofs` | `RowsSafe`, `SpentSafe`, `ColumnsSafe`, `WithheldSafe`, `SomeoneSafe`, `Refinement` | `RowsPartitioned`, `SpentWhenOutputVisible`, `ColumnsPreserved`, `WithheldIsReported`, `SomeoneCompacts`, `ImplementsReadSurface` |
| `Migration_proofs` | `CompleteSafe`, `PublishedSafe`, `Refinement` | `CompleteIsReadable`, `PublishedOnce`, `ImplementsCopy` |
| `AfddScheduler_proofs` | `LocksSafe`, `CheckpointSafe` | `LocksMatchRuns`, `CheckpointCovered` |
| `Commands_proofs` | `WrittenOnceSafe`, `ExecutedSafe`, `OutcomeSafe` | `WrittenOnce`, `ExecutedIsTrue`, `AnswerIsOutcome` |
| `Spool_proofs` | `LossSafe`, `OrderSafe`, `DuplicateSafe` | `LossHasCause`, `ArrivesInOrder`, `DuplicateHasCause` |
| `Jobs_proofs` | `SavesSafe`, `DeletedSafe`, `RunningSafe`, `SideFilesSafe` | `SavesAreExact`, `DeletedStaysDeleted`, `RunningIsCurrent`, `SideFilesMatch` |
| `Lists_proofs`, of `ActionsLog` | `LogOrderSafe`, `LogMissingSafe`, `LogShownSafe`, `LogNothingComesBack` | `OrderKept`, `MissingHasCause`, `ShownStaysShown`, `NothingComesBack` |
| `Lists_proofs`, of the planner | `PlannerCovers`, `PlannerMinimal`, `PlansAreGroups` | `PlansCoverSmallFiles`, `PlansAreMinimal` |

*LiveHistorian.* `AcceptedIsStored` is not inductive: while a call is in progress one must know
that the keys already worked on have the envelope's rows buffered or stored, that months already
published are in the store, and that reported times, `latest` and `watermark` are backed by
published rows. These are `CallOK`, `PartsOK`, `IngestOK`, `DrainOK`, `TimesBacked` and
`LatestOK`. `CauseInv`, on top of it, is about duplicates and the exact watermark. A row without
a cause for a duplicate is buffered once at most and published once, both only in the flush that
published it (`OnceOK`), and its envelope is accepted, rejected or in hand once it was delivered
(`KnownOK`). Until a fault or a stop, a published row is in the watermark, in the report the call
carries, or of the key being flushed, and no call returns with a report (`ExactOK`).

*Compaction.* The invariant says of each run which of its inputs are its own tombstones at each
stage (`RetireOK`, `RollbackOK`, `CleanOK`), that its candidate holds the rows of its inputs, and
that operations belong to one run each (`OperationsOK`). A step of one run moves only its own
replacement, a visible file, or its own tombstones; `OwnFile` shows once that this leaves the other
runs' claims alone, and `PublishStep` that the publication takes over the rows of exactly the
tombstones it replaces. Any planner will do that plans visible files. `DataInv` adds to it that a
replacement which exists has the rows of its tombstones; that a file has the columns of every part
in it, also of files that have gone since their schemas were read; and that without kills each row
out of view is accounted for (`Accounts`): its run is still retiring or rolling back over it, or
has named it in an error. The refinement looks only at which parts a reader sees: a step either
takes some away or gives some back, never both.

*Overlapping compactors.* `SomeoneCompacts` looks at the end of a history of runs that met; the
invariant must say, at every moment before the first publication, who will win. A run that gives
way, or gave up at files that agree, met a file that was out of view. Without failures and kills
`WithheldOK` says that some run accounts for that file: one that retires it, or one that is itself
rolling back. `SomeoneAhead` says that a run that is rolling back or gave up has another one ahead
that still retires and whose last tombstone is of a later file than any the first still holds.
When that one gives way in turn, it met a file later than all of its own (`InputsAscend`, the
only use of the order of the plans), so a run ahead of it is ahead of everyone behind it
(`GivesWay`, `OthersWay`). At rest nobody retires, so there has been a publication.

*Migration.* Two layers. `RunOK`, `ReceiptOK` and `StoreOK` hold however runs overlap: a run or a
receipt that names parts names those of the version it fingerprinted, and readable rows stay
readable; from them `CompleteIsReadable` follows. `AloneOK` holds as long as no runs overlapped:
at most one run is under way, a staged part is either in the plan of its receipt or not readable,
each piece is in one readable part, and what is readable of a source was planned. From it
`PublishedOnce` and the refinement follow, in which a receipt chooses the version and renames
show the pieces.

*AfddScheduler.* `LocksOK` relates each lock to its run and each guarded run to its lock.
`TimesOK` says that the ends of windows are times of readable rows. `CoveredOK` says that a run
has covered the end of its window with every rule it is done with, and, which makes it inductive,
that whatever a run of the checkpoint's scope is about to write still holds the time covered:
since rows are never removed, a later read contains an earlier checkpoint, even when an older
cycle of another scope moves the checkpoint back.

*Commands.* `DedupOK`: a command whose id the deduper never lost was written at most once, not
before it is remembered, and not while it is about to be written. `ReportsOK`: an `Executed` that
waits in the client, or that central holds, is of a written command. `OutcomeOK`: until something
breaks, the last unsent answer of a command handled once, or else what central holds, is its
outcome.

*Spool.* `DiskOK` bounds what is on disk by what was made, in the order of sequence numbers, with
`next_seq` above all of it; `AheadOK` says that a record on disk was sent before or is newer than
everything sent, which with `QueueOK` (the same of the client's queue) gives the order of arrival,
and `ListOK` and `AckOK` keep both true while the loop is between two records. `HasCause` and
`OldestTrimmed` are inductive with these: trimming takes the record of the lowest number while more
than `MaxRecords` are there, and by `DiskOK` each of the others is of a newer envelope. `CopiesOK`,
for the duplicates, says that until something breaks or stops, an envelope that was handed over and
is still on disk is about to be removed or could not be.

*Jobs.* `InodesOK` says that a file has one name and that what a request has open is under no name
it does not write, so that writers of different paths never meet. `LoneOK`, `RevisionsOK` and
`LoadedOK` hold as long as job.json was not raced: one request at most is past the check, the file
it has open is the one under the temporary name, unless a deletion has taken that name, and will
hold its text, revisions on disk are of requests that have ended, and an unchanged revision means
unchanged contents. The last is why a revision check is enough. `DeletedOK` says that after a
deletion there is neither a job.json nor a temporary file for it, and nobody who would create one:
the check that lets a request go on needs a job.json to read. `RunsOK` needs only `InodesOK`: every
text that a writer of run.json can put under its name is current. `SideInv`, on top of it, is about
the files beside job.json: the runs named, and those about to be, have their file (`RunRefsOK`);
and as long as no two writers met and no deletion began, either the writer of findings.json is not
answered with success, or job.json names it and all who wrote findings.json before will find
another revision than they expect (`WriterOK` in `FindingsOK`), also when requests fail halfway.
That is why it is harmless that findings.json is written before the revision is compared.

*Actions log.* Every operation makes new lines out of those it read, so the proof compares whole
sequences. `Within(new, lines)` says that each line of `new` is a line of `lines`, in their order,
perhaps spoiled or with the status of a finished action; filtering, pruning, short reads, joining
and rewriting each are one, and `OrderKept` survives any of them. `LogInv` adds that only started
actions have entries (`EntriesStarted`), that actions start in the order of their numbers
(`InTurn`), and that only a failure or a crash leaves a cut line (`CutsHaveCause`). With them an
entry that pruning drops has `Cap` entries behind it, all of actions started later (`PrunedStart`).
What is shown is the entries before the first garbled line (`ReadShows`): `ShowsStep` says that a
step shows only what was shown, finished or just started, which gives `NothingComesBack`, and
`GoneStep` goes through the ways a shown entry can go, which gives `ShownStaysShown`.

*The planner.* `InOrderSorts` proves that `InOrder` sorts: it is defined by ranks, and every
number up to the size of the set is the rank of one member. What a recursive function computes
for inputs of any length is an induction over data. The induction theorems of the library take an
operator and cannot be instantiated here, but `WFMin`, that a non-empty set of numbers has a
smallest, takes a set; `Induction`, `Recursion` and `BoundedRecursion` are derived from it, and
`PlannerRuns` proves the loop invariant `PlannedUpTo` of `plan_history`: after `n` small files the
groups so far are consecutive runs that end where the current group starts, each is full and none
of its beginnings is, nor is any beginning of the current one.

The assumptions are those the modules declare (`LiveHistorianAssumption`,
`CompactionAssumption`, `PlanAssumption`, `PlanOrderAssumption`, `MigrationAssumption`,
`AfddAssumption`, `CommandsAssumption`, `SpoolAssumption`, `JobsAssumption`,
`ActionsLogAssumption`, `PlannerAssumption`). TLC evaluates them in the runs. What they say of
constants is what the code is built with; `PlannerAssumption` is weaker than what
`ParquetCompactor::new` enforces (`compaction.rs:79-84`), and `PlanAssumption` and
`PlanOrderAssumption` are what `PlansAreGroups` proves of `plan_history` on finite partitions.

Only model-checked are the liveness properties (`EventuallyStored`, `GapCloses`, `RerunsFinish`,
`AnalysedAlone`, `ArrivedIsAnswered`, `TickDrains`), which the prover does not handle.

## Not modelled

* Power loss that reorders directory operations; the models stop a process, not the disk.
* The unbounded channel between the MQTT event loop and the ingest handlers, through which
  envelopes already acknowledged to the broker are lost in a crash.
* The legacy CSV mirror, counters, and the metadata, discovery and status topics.
* Of the scheduler: the status view, the catch-up label and the chunks of a backfill, which
  nothing calls; a run-now that cannot read the watermark, which changes nothing; the SQL ad-hoc
  runs; compaction of the store while rules read it.
* Of jobs: the WattLab files, and views (lists, fingerprints, staleness).
* Polling of REST devices and its circuit breaker: sequential, and tested directly. BACnet and
  Modbus drivers and the vendored BACnet transport: device I/O and third-party code.
* SQL, rules, REST decoding, CSV ingest, the legacy edge prototype, the frontend, the MCP
  server, the Python package and the deployment: pure computation over stored data, presentation
  or packaging. They are most of the repository's lines, and hold no protocol state of their own.

## Plan

What is left, in this order:

1. `Spool` composed with the ingest side of `LiveHistorian` through envelope identities: which
   of the duplicates of the one are absorbed by the `seen_messages` of the other.
2. Rules that read the store while `Compaction` hides rows from them.
