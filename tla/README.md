# Verification of the portable multi-agent plugin

This directory holds TLA+ modules that model the running plugin, the TLC configurations that
model-check them on small instances, and proofs that TLAPS checks for every value of the constants.
Paths are relative to the repository that is mounted at `src/`; its own sources are in `src/src/`.

Everything in the plugin runs in one JavaScript process, so there are no data races: a function runs
to its next `await` undisturbed. What is hard is everything that may happen *at* an `await` (another
call, an abort, a deadline, a disposal, a failing save), and what a process that died in between has
left on disk.

## Inventory

| Component | Source | State it keeps | Operations | Module |
|---|---|---|---|---|
| Dispatch admission | `agent-dispatch.mjs` 60-118 | lease map, FIFO of waiters, slot counter, deletion and disposal flags | reserve, cancel, activate, release, drain, reserveDeletion, dispose | `Admission`, abstract: `FifoPool` |
| Assignment dispatcher | `agent-dispatch.mjs` 119-503 | one record per run in memory and on disk, its child agent, its scope | delegate, compact, forget, referencedBy, read, list, dispose | `Dispatch` (not read, list) |
| Record store | `qualification.mjs` 26-129 | directories of numbered revision files, one queue per namespace | read, entries, save, remove | `RecordStore`, abstract: `RecordLog` |
| Batch runner, worker result | `batch.mjs`, `worker-result.mjs`, `plugin.mjs` 340-358 | the batch record, the chain of commits, what holds the runner | run, worker, commit, forget, withAssignmentDeletion, dispose | `Batch` |
| Qualification manager, probes | `qualification.mjs` 132-307, `probes.mjs` | busy keys, challenges, evidence records | qualify, echo, capability probes, forget, dispose | `Evidence` |
| Task engine | `engine.mjs` | loaded tasks, busy tasks, controllers | plan, run/resume, read, list, forget, dispose | `TaskEngine` (not list) |
| Task journal | `journal.mjs` | revision files per task, a queue per task | load, save, tasks, remove | `Journal` |
| Routes, verdict | `routes.mjs`, `verdict.mjs` | none (pure) | select a route, capacity, parse a reply, next cycle | `Routing`, `Verdict` |
| Plugin, cancellation | `plugin.mjs`, `cancellation.mjs` | the owners' managers, active tool calls | delegate, iterate, failover, release, teardown | `Iterate`, the guarded deletion in `Batch` |
| Governed pipeline (V2) | `governance/controller.mjs` 245-380, `contracts.mjs` 226-282, `store.mjs` 336-377, `host.mjs` 196-302 | journal of events, the controller's memory, epoch, workspace and custody | propose, decide, plan-review, author, seal, validate, review, commands, close | `Pipeline` over `GovernedState`, abstract: `GovernedJob` |
| The owner of a job (M4) | `governance/controller.mjs` 381-458 | mode, checkpoint, queue of controls, outstanding stages, epoch | launch, pause, resume, stop, fence, drain | `Continuity` |
| Delivery (M4B) | `governance/delivery.mjs`, `workspace.mjs` 1141-1150, 1190-1334 | phase, acceptance, qualification, the writer's handle, the output | accept, qualify, deliver, stop, cold inspection | `Delivery` |
| Workspace custody | `governance/workspace.mjs` 554-1189 | lock, working and sealed trees, queue of requests, leases, replicas, poison | begin, file requests, seal, transfer, lease, read, replica, revoke, close | `Custody` |
| Pinned runner | `governance/runner.mjs` 270-496 | one execution, its child, its receipt | execute, settle, stop, consume, close | `PinnedRunner` |
| Governance, the rest | `governance/*.mjs` | V1 reducer and controller, store files, host bookkeeping, probe policy, the tools | - | not modelled |
| Scripts, demo, tests | `scripts/`, `demo.mjs` | - | installation and acceptance tooling | not modelled |

How they interact: a tool call reaches the managers of its owner (`plugin.mjs` 60-72). `batch.mjs`
calls `delegate` of the dispatcher with `queue: true`, so that its two workers share the dispatcher's
two slots with direct calls. `delegate` takes a lease, saves its record through a record store, starts
a child through the host's `subagents` service, and disposes it. Both keep their records through
`createRecordStore`, each in a namespace of its own. Deleting an assignment holds the batch runner and
then the dispatcher's lease map, and reads both namespaces. Teardown disposes batches and dispatchers
and waits for them; it disposes task engines without waiting, so that a reloaded plugin may open a task's
files while the old engine still works on them. `plugin.mjs` selects a route from the evidence the qualification manager
saved, delegates, and loops over reviews and revisions. On the governed side the owner of a job wraps the V2 controller,
which appends to its journal, starts stages through the host, and holds one workspace at a time; a validator's commands go to
pinned runners on replicas of the sealed tree, and the delivery coordinator drives the same owner and copies out of the same custody.

Hard behaviours, with the lines where they bite, are the `hazards` of `PROJECT.json`. The most
important ones: commitments are saved before anything irreversible is started, and nothing that was
committed is ever repeated after a crash; a slot is held until a child has really gone; failing saves
leave memory and disk apart; deletion, reviews and batches refer to each other's records; queues and
disposal must neither lose nor strand anybody.

What makes each component correct:

- *Admission*: never more than two holders; no waiter lost, overtaken or left beside a free slot;
  deletion excludes everything; disposal resolves, and only when nothing is held.
- *Dispatcher*: a child starts only under a saved commitment, with fresh evidence of its own route, in
  a live scope; nothing is replayed; what a call returns is on disk; a finished record stays as it is.
- *Record store*: revisions are acknowledged saves, no two callers write the same one, nobody sees a
  half-written one, failures never lose an acknowledged one.
- *Batch*: no task is delegated twice; the record refers to every assignment made; `COMPLETED` means
  all; nothing is delegated after a stop; disposal leaves nothing under way.
- *Task engine and journal*: an attempt is committed before the provider is called and never called
  again; the engine never asks the journal for a transition that it refuses.
- *Governed pipeline*: the journal never refuses what the controller asks of it; attempts are bounded and never
  given back; judges read exactly what was sealed; readiness is earned by the last candidate alone, with every
  earlier blocker resolved; a close always resolves.
- *Evidence*: what a record claims beyond the base test rests on a route that passed it, by one echo of the child itself; no finding is lost to a conflict of
  revisions, and a deletion of expired evidence takes one that has not expired only when it was renewed while the deletion was under way.
- *Routes, verdict, plugin*: a reviewer is independent of the author wherever the evidence admits one; a revision is asked for by
  a coherent verdict on the very answer it revises; what is returned as verified was verified; nothing starts after the unload.
- *Owner of a job*: a checkpoint is taken up once and on record; what a fence ended commits nothing; a stop always resolves.
- *Workspace and runner*: the candidate is what was acknowledged and nothing later; a poisoned or revoked workspace does nothing
  more and keeps its lock; a pass comes from a child that ended by itself on the sealed files, with a complete report and before the deadline or a stop;
  nothing is left behind unnoticed.
- *Delivery*: at most once, never saying more than the journal, and uncertain for good when it was interrupted.

## The modules

`Admission` translates `createAdmission` operation by operation. `leases` is the lease map with each
lease's status, `pending` the queue, `active` the counter of the code (it is a variable of its own and
not derived, because a wrong counter is the bug to look for). `drain` is one action per loop iteration,
with `draining` excluding everything else, because a synchronous loop cannot be interleaved. `dispose`
is one action (close, abort, cancel) and `DisposeSettles` the promise it returned. `FifoPool` says the
same without leases, aborts and drain: holders, a queue, and that the queue forms only while the pool
is full.

`Dispatch` EXTENDS `Admission` and adds `delegate` (one action from one `await` to the next, `pc` being
the await), `forget` with its check and removal, `dispose`, and the environment: `ResultSettles` and
`DisposalSettles` are the host's child agent, `Expire` the clock passing an evidence's `expiresAt`,
`ScopeAborts` the caller's signal or the deadline, `SaveFails` a failing store, `Crash` the death of the
process. `compact` is one more kind of call on the same record. A record is abstracted to what decides: state, rounds committed, parts of answer, route,
evidence, subject, write access, finished. `disk` is the log of revisions, as `RecordLog` describes it:
`Dispatch` uses the abstract store, and its run `dispatch_one` checks that what it does to `disk` is what
that store allows.

`RecordStore` is the same store file by file: directory, exclusive creation, write, sync, removal in any
order, one queue, failures and crashes between any two steps. It implements `RecordLog`: a save becomes
visible when it is acknowledged, fails or is cut off.

`Batch` models one batch id with its run and worker loops (`pc` per thread), the chain of commits
(`commits`, `writing`), and the two kinds of deletion that take the runner. `Delegate`, `Assigned` and
`Answered` are its view of the dispatcher: the assignment's record is saved at some point of the call, or
not, and the call returns. What the dispatcher guarantees about that is `Dispatch`.

`Journal` is the store of direct tasks: numbered revision files, created exclusively, each journal serialising
its operations per task. Unlike `RecordStore` it reads the whole chain and refuses a revision that does not
follow its predecessor (`Normal`, `Follows` with the table `Successors`), and two journals may share the
files. `TaskEngine` EXTENDS it: `pc` is the await a `plan` or `run` stands at, `jobs` what it and readers and
deletions have asked of the journal. `memory` is the record object that a run mutates and the map `loaded`
shows, which differs from the files while a save is under way or after it failed. An answer is reduced to how
its stream ends. Several `Engines` are those of one owner across reloads and crashes, one open at a time.

`GovernedState` is the state that a governed job's journal carries and the table of transitions that the journal accepts:
`WellFormed` and `Follows` translate `validateStateV2` and `validateTransitionV2`, `FactsReady` is
`diagnosticFactsReadyV2`. Digests and identities disappear: an assignment is its role and generation, a candidate
the generation of its author, a result its outcome, the state of its blocker and what it cites. `Pipeline` is the controller
that produces those states. Its operations run one after the other through `track`, so that `pc` is the await at which the one under
way stands; `commit` is the append it waits for, which may be accepted, refused by the table, fail with or without the event on disk, or
come back to a controller that was stopped meanwhile. Beside it happen the child's tool calls (one submission, commands and the
commits of their evidence) and `Close`. `state` is the controller's memory and `journal` the disk; the two tables of the code, what
the controller asks for and what the journal accepts, are kept apart, so that `NeverRefused` compares them. `GovernedJob` says what
remains when the details go: granted once, a bounded number of attempts, authored and then judged. `docs/GOVERNANCE.md` 106
says "Reservation spends the attempt before actor creation" and that a setup failure "does not refund it"; that is `JobSpec`.

`Continuity` is the owner around that controller. The stages are reduced to what they commit and how their actor ends
(`ops`, with `validate` and `review` one kind of judge), so that what remains is `mode`, the queue of `controls`, `stopping`, the
epoch in `core`, and the commit under way in `save`. Each of the code's guards after an await is a conjunct at the step that follows it:
`Live`, the mode, the epoch, the identity of the checkpoint. Every failpoint is taken for an await. `Delivery` EXTENDS it with
the coordinator: `job` is the request under way, `copy` the custody's delivery writer, `output` what stands at the destination. `Inspected` is what
a cold inspection says of the same journal and output, so that the invariant compares the two.

`Custody` is the V2 workspace engine. A tree is a function from paths to texts, `Missing` and `Torn`; that somebody else changed one is
a set `tampered`, which `Intact` and `ScansTree` find out where the code scans. `phase` is what `authority.readCurrent()` answers, moved by the
environment. The queue of file requests, the seal, the reads, the replica, `close` and the lock are each one state of their own, since each may be at an
await at once. `PinnedRunner` EXTENDS it with one `execute()` and its child process, deadline, stop, receipt and close.

`Evidence` models several calls of `qualify` over one queue of store operations, with the child that answers challenges
as it likes. `Routing` and `Verdict` are pure modules, one operator per function of `routes.mjs` and `verdict.mjs`; `Iterate` EXTENDS
both and is the plugin's loop as one caller sees it, `loop.at` being the await, with delegations that are refused, or finish in any way
`Dispatch` allows, and with evidence that changes between any two of them.

Some operators come twice under similar names and with the same parameters. The first is a plausible
mistake, the second the code: the former is in no behaviour of the specification and is only there to
show that the named property would notice it.

## The runs

| Run | Instance | Distinct states | What it shows |
|---|---|---|---|
| `admission` | 6 keys, 2 slots, queue of 3 | 21,000 | the inductive invariant of the proofs, the refinement of `FifoPool`; waiters leave the queue and disposal resolves |
| `record_store` | 2 callers, 2 records with room for one, 2 revisions, 2 failures or crashes | 27,500 | no lost revision, no half-seen one, the refinement of `RecordLog`; every operation settles |
| `dispatch_one` | 1 run: read-only, writing or a compaction; 2 rounds, 1 alternate route, all results, expiring evidence, forced and unforced deletion, 1 crash | 328,000 | write-ahead commitment, no replay, child budget, durability of answers, authorisation of each launch, finality, `RecordLog`; every call returns |
| `dispatch_pair` | a run and its review on 1 slot, deletion, 1 crash | 3.3 million | slots outlive children until disposal has drained them, no dangling review |
| `dispatch_review` | a run of 2 rounds and a review in the second slot | violation | a review judges an answer that is still growing |
| `batch` | 2 workers, 2 tasks, failing commits, aborts, both deletions, any number of crashes | 854,000 | single delegation, references, finality, nothing after a stop, quiet disposal; every run ends and frees the runner |
| `task_engine` | 1 engine, 1 task of 2 rounds and a checkpoint, 1 further plan, 1 failing file operation or crash | 313,000 | no attempt is repeated, calls are saved before they are made, the engine keeps to the journal's table, what is shown is what is saved, a disposed engine calls nobody; every call returns |
| `pipeline` | 2 attempts, 1 command, blockers of the reviewer, failing appends and setups, close at any moment | 2.1 million | the journal refuses nothing, judges read the seal, readiness is earned, nobody waits for nobody, the refinement of `GovernedJob` |
| `evidence` | 2 routes with or without an expired or a valid record, 2 calls of qualify, the image probe with 2 colours, an attestation, 1 deletion, a lifetime of 2 and a deadline of 1 | 3.9 million | evidence is earned, no finding is lost to a conflict, a deletion of expired evidence takes what had expired or was renewed meanwhile |
| `iterate` | 3 tasks, 6 replies, 3 keys, 2 cycles, compaction, failover, 1 change of the evidence | 475,000 | launches are earned, reviews independent, results judged; the loop ends |
| `custody` | 1 file to create, replace or delete, a validator that reads, a queue of 2, 1 command with 2 tests and 5 things it may print, 1 change from outside | 695,000 | the candidate is the work, the end is sound, a pass is earned, nothing is left behind; everything settles |
| `delivery` | 2 attempts, 1 stage at a time, 1 pause, 2 controls at once, 1 failure | 144,000 | checkpoints, fences, a stop on record, one delivery or an uncertain one; every request ends |

An invariant or a property of a run that is a conjunction is one promise of a component, spelled out by named parts (`RunInv`, `BatchInv`,
`EngineInv`, `PipelineInv`, `CustodyInv`, `HonestStore`, `RecordsGrow`, `DeliveryHalts`, ...). The modules define each part on its own with its comment.
Where a component's safety is proved, the inductive invariant of the proof is the run's invariant (`IInv`, `RunInv`, `PipelineInv`, `EvidenceInv`, `LoopInv`) or consists of
parts of it (`StoreInv` after every step in `HonestStore`, `BatchStands` in `BatchInv`, `EngineStands` in `EngineInv`, `DeliveryStands` in `ControlsOnRecord`, the parts of `CustodyInv`), so that TLC checks the very formula that is proved.

### Bounds, and why they are enough

`Admission`: the guards only compare with `Slots` and `QueueLimit`; six keys fill both slots and the queue
and leave one caller to be refused. The run checks the invariant of the proofs, `IInv`, whole,
and leaves to them what follows from it (`FifoAdmission`, `ClosedStaysShut`). As for every component under "What is proved", the safety holds for any bounds, and
those of the run matter for its liveness and its mutants. `RecordStore`: two keys against room for
one make the namespace full with one caller outside; two revisions make a gap, an older end and the upper
bound; two failures make a failure after a failure. `Dispatch`: two
rounds are the first, which differs in `index = 0`, and a later one; one alternate allows a failover and
then none; a second run can be a review, a competitor or both; a compaction reads a finished record from elsewhere.
One crash is enough because a crash leaves nothing but the disk: a second one starts from a state that a single
crash reaches, apart from the histories. `Batch`: with two tasks the two workers either hold
one each or one takes both; a third task adds more of the same and more than 17 million states. Crashes are not
bounded, because a crash brings it back to states it already has. `TaskEngine`: the second of two rounds is
the last, so both outcomes of a long answer occur; a second plan (`MaxPlans`) meets what a deletion or a crash left of the
first; a crash counts as a fault; `MaxRevisions` is assumed large enough for all rounds, as in the code, where 8 rounds and 128 checkpoints stay
far below 1024. `Pipeline`: the second of two attempts is the
last, so a correction and a reassessment both occur, and a blocker of the first is open, resolved or forgotten in the second; with one
command the evidence is complete, incomplete or failed, and a judge may speak before, between or after it. `Blockers` lets one
judge raise blockers; the other's are kept apart by role, so both at once are two independent copies. `Budget` is 3 in the code. What a
judge that does not pass cites is left out, because only citations of a passing one are read.

`Evidence`: two calls meet on one key or on two, which are also the most the code admits at once; the deletion may take one, both
or the expired ones. With two colours a guess is right or wrong. What the start finds on disk has expired, expires with the first tick, or is not there; with a
`Lifetime` of 2 what is saved in the run does not expire in it, so that a deletion of expired evidence can be seen to take it, and with a `Deadline` of 1 the tick ends a challenge. `Iterate`: one cycle is the last and one is not; of the three keys two belong to one
provider, in the two pools that a task and its review use; the replies are a pass, a pass that is off the objective, a coherent request for more, a contradiction hidden by the limit of stored findings, prose, and a
clarification. `Custody`: requests to one file already queue behind each other (`Capacity` 2 makes the queue full); two files add independent copies of what
happens to one. What a command prints is complete, short of a test, failing, accompanied by something on stderr, or more than is kept: each alone must refuse the pass. `Delivery`: a stage is under way or not when the owner is asked to pause, so one
at once is enough for the fence; two controls are a pause and a resume, or two resumes of one checkpoint. One failure decides each catch block; which step fails is free.

Symmetry is used only in runs without liveness properties, over the runs in `MCDispatchPair`, none of which is distinguished there, and over routes and callers in `MCEvidence`.

The counters `failures` and `crashes` and the constants `MaxCrashes`, `MaxFailures`, `MaxFaults`, `MaxPlans`, `MaxCheckpoints`, `MaxRuns`, `MaxTampers`, `MaxLaunches`,
`MaxPauses`, `MaxControls`, `MaxChanges`, `MaxQualified`, `MaxForgets`, `MaxTime`, `LastTime` exist only to bound the
runs. `called`, `disturbed`, `started`, `delegated`, `wrote`, `damaged`, `before`, `judged`, `lost` (with `renewed` of a deletion), `interrupted`, `stopper` are histories that only properties read.

### Fairness

Liveness is stated under the following assumptions, each of a step the code itself takes or awaits: the
event loop runs a continuation that is ready; the store's file operations answer (with an error or not);
the host's `start`, the child's result and the child's disposal settle once they were asked for - the
code aborts them at the deadline but waits for them, and so does `dispose`. Steps of a call have strong
fairness, because an iteration of somebody else's `drain` disables them for a moment. In `TaskEngine` a call's own steps and the
journal are fair each on its own: the provider's `prepareCall` and stream settle, at the latest after the controller aborts
them at the deadline - again a promise of the host, since the code waits for the stream. `Batch` and `Iterate` need only that some
continuation runs while there is one, because nothing in them can go round for ever. `PinnedRunner` and `Delivery` have one weak fairness per party: the
engine or the store, the runner, the stages, the controls, the stop and the coordinator are continuations of their own, each of which the event loop runs
when its promise has settled, and one of them going round must not be taken for progress of another. A child of the governed side ends at its deadline at the latest,
since its host aborts it (`AuthorEnds`, `ActorEnds`, `Timeout`). There is no fairness on
calls, aborts, disposal, expiry or crashes, on changes from outside, or on the exit of a runner's child: nobody has to do these.

### Deadlock

`CHECK_DEADLOCK FALSE` where the system may really stop: a disposed dispatcher, batch runner or engine with nothing
left to do, a closed pipeline or workspace, a stopped owner, a caller that has its answer. That everybody gets there is `CallersResolve`, `CallsReturn`, `RunEnds`,
`LoopEnds`, `AllSettle`, `AllEnds` and, for the pipeline, `NeverStuck`.

## What is proved

Eight modules hold theorems, each beside the module it is about: `DispatchProofs` (for `Admission` and then `Dispatch`),
`RecordStoreProofs`, `BatchProofs`, `TaskEngineProofs` (for `TaskEngine` with `Journal`), `EvidenceProofs` (for `Evidence` and then `Iterate`), `PipelineProofs`,
`DeliveryProofs` (for `Delivery` with `Continuity`) and `CustodyProofs` (for `Custody` with `PinnedRunner`). They cover every
safety property of those components that a run checks but two (`NeverStuck` and `ReviewsIndependent`), and all four refinements: `FifoPool`, `RecordLog` by the store and by the
dispatcher, `GovernedJob`. The theorems are about the specification without fairness, for all values of the constants that the named assumptions allow.
The assumptions give a constant its type or exclude a confusion of values (`"frozen" \notin Commands`, `Torn \notin Values`, `Main \notin Workers`); the rest is what the
code checks itself: `BatchAssumption` says that the request passed `validateBatch`, `DispatchAssumption` that a compaction is read-only and of a run,
`CommandsAssumption` and `BudgetAssumption` that a plan has finitely many commands and that there is at least one attempt; `EngineAssumption` that the journal has room for the revisions of all rounds, as 8 rounds and 128 checkpoints against 1024 have;
`ContinuityAssumption` that a job has at least one attempt; `IterateAssumption` that a caller asks for one to three cycles. Bounds of a run (`MaxCrashes`, `MaxFailures`,
`MaxTime`, ...) are any natural number.

Each proof has the same layout: an inductive invariant, one lemma per action that says what the action keeps of it, lemmas for what the actions have in common
(what a save, a return or the end of a run makes of the state), and from the invariant the properties that readers care about. None of those
properties is inductive, and what had to be added to make them so says why the code works.

**Admission** (`IInv`). The accounting of slots and queue, `WorkConserving`, `DeletionExclusive`, `DisposeComplete`, and `ShutQueue`, that a closed dispatcher has no
waiters and its disposal awaits every lease that exists; the set of holders is finite (the set of keys need not be). They need each other: that the counter
is the number of holders needs that a waiter which is shifted from the queue is `pending` and not a holder
already; that the queue's entries are distinct needs that a key which is reserved is absent and therefore not in it; that nobody waits
beside a free slot after `Reserve` needs that it was so before, and after `Release` that `draining` is set. The refinement needs `QueueAccounting`
for `Quit` (a cancelled waiter is at one position) and `WorkConserving` for `Join` (who queues finds the pool full). A by-product: in `DrainNext` the branch
for a head whose scope has aborted (`agent-dispatch.mjs` 71) is dead, because `QueueAccounting` says that an aborted waiter has already been spliced out by its listener.

**Dispatcher** (`RunInv`: `IInv` and, for each assignment, where its call stands and what is then true of its record, of its saved revisions, of its child and of its budget).
`RoundStands` is an equation between the rounds committed, the children started, the round's index and the route, one for each place of the call, and
`NeverReplayed` is read off it. `SavedStands` carries the write-ahead commitment across failing saves: what is on disk covers what has been started, at every await.
The delicate places are a compaction, whose record is finished before its child is disposed and may be withdrawn after, and a removal that fails: since an older revision
then comes back, the budget and the reference to a reviewed run are stated over every revision and not over the latest. That no review dangles rests on
`deletion.step = "remove" => Forgettable(...)`, the check of `forget` being still true when the removal is done, which `DeletionExclusive` of the admission gives.
`RecordsAreLogs` is the refinement of `RecordLog`.

**Record store** (`StoreInv`). What each stage of a save or a removal may rely on: a save extends a whole record by one file (`SaveStands`), a removal leaves of the log it found what is not
yet gone, or of a record with a gap nothing that looks whole (`RemovalStands`), and a record nobody damaged is whole whenever no operation is at it (`DiskStands`).
With it every step of the store is one step of `RecordLog` or a stutter. In `RecordLog` each record moves by itself, since a crash ends a save of one and a removal of another at once.

**Batch** (`BatchStands`). That no task is delegated twice needs `SaysRunning`: from the commit before it is delegated until its worker is through, the revision on disk, the revision being written
and the record in memory all say that the task runs. It has to be in all three because the other worker's commits overtake each other with it in one chain. `TasksStand` says
whose hands a task is in, `ThreadsStand` that the chain of commits holds exactly who waits for it, `Covers` what a revision must say of what was delegated and written. `RevisionStands`, what a revision says of
itself, is stated over every revision on disk, since a removal that fails brings an older one back. `RunnerStands` says that a deletion which was permissible stays so while it holds the runner.

**Task engine and journal** (`EngineStands`). What the engine promises is about four things at once: the queue of a task, the record in memory, the files, and the calls that went out. `QueueStands` says
that a run has at most one thing asked of the journal, which is the save of the record in memory, and that a deletion stands before it and never beside a round under way. `RecordStands` fixes the status at each await
and bounds the revision by what the rounds so far may have saved (`Reaches`), which with `EngineAssumption` is why the upper bound of revisions never refuses one. `SavesStand` is the heart: outside a save, memory is
what the files say, and during one the files are the chain before it, with at most a file without content at its end; from it `Accepts` follows for every save of an undisturbed task (`KeepsTheTable`).
`CallsStand` says that what is saved covers what was called, and that the round which is about to be called is none of these. Two places are delicate. A deletion may take a record away from a run that already holds it (`Gone`):
that run's next save is refused, since the directory is empty. And a request's calls must not be taken for another's when a task is planned again (`RequestsStand`).
`EngineSafe` and `EngineCallsOnRecord` have the hypothesis `Alone`, one engine at a time, which is also the instance of the run: an engine that was disposed without being waited for may still create or remove
files under the next one, and each of the four parts above would have to say what the other may have changed meanwhile. `StoppedEngineIsQuiet` needs no such hypothesis and is proved for any number of engines.

**Evidence** (`EvidenceInv` with `ResultsKept`). A revision which a call has read stands until it saves (`RevisionStands`), because a key is taken by one call at a time
and a deletion takes none that is busy, while operations of others may stand between the two in the store's queue (`WhoAsksWaits`). From that no finding is ever lost to a conflict. The other half of `ResultsKept` is inductive beside it:
what a deletion of expired evidence has left, or asked the store to remove, had expired when the deletion was called or has been saved anew since (`DeletionsAreDue`).
`EvidenceEarned` includes who called the echo tool: a test that is passed has exactly one call, the child's.

**Plugin's loop** (`LoopInv`, which the run checks as it is proved). `ResultIsJudged` is about the end of a call, after runs may have been deleted at any time. `SubjectStands` follows the subject through
the cycles: it is the original run or the finished revision of an earlier cycle, or of this one between revision and compaction, so that a run the call launches is never its subject. That the request is still the
original one after several revisions rests on `Reviewable`: a reviser is admitted only while the subject exists, so it copies its request from a record and not from nothing. `AwaitedStands` says that the run a call waits for is
`RUNNING`, so that `forget` refuses, and `JudgmentStands` that between the verdict and the revision the review, if it is still there, is about the subject and asks for more. What a verdict is worth is the lemma
`Decisions`: contradictions are looked for in what was declared, before anything is dropped. `LaunchesEarned` follows from who can add a run (`OnlyLaunchesAdd`): a launch refuses an aborted call, and a release aborts the call under way.

**Pipeline** (`PipelineInv`). `MemoryStands` ties the controller's memory, its journal and the commit under way: they are equal but for one event, which is lawful for the journal as it stands.
`NeverRefused` compares the two tables of the code and follows only because `OperationStands` and `StageStands` say which events are committed at which await and that the stage under way
is the one on record, without a result, in its phase. `Sound` counts the attempts. `ReadinessEarned` needs one invariant more, `Decided`: the facts on which a job was declared ready are
still in its journal, since nothing but a stop follows.

**Owner and delivery** (`DeliveryStands`, a part of `ControlsOnRecord`, so that the run checks it). Pause, resume, stop, stages and coordinator share one controller, which saves one record at a time; `SavesStand` says who
waits for it and at which await, and that what is saved belongs to that await. From it no step finds somebody else's answer. `ModesStand` says what the fences exclude: no stage and no
delivery is under way while the owner pauses, is paused or resumes, and none while a stop is past its drain. `StagesStand` and `TurnsStand` compare epochs: what was begun in the owner's present epoch finds it active,
so that every guard after an await (`Live`) tells it whether it may go on. `CountsStand` is where the argument turns. Memory and journal agree only while nothing was cut off (`InStep`). Outside of that, a commit that
was written and not acknowledged leaves memory one revision behind, and then the store refuses every further append, which is not the next (`IsNext`). `PausesStand`, `EndStands` and `JobStands` say what may still be appended:
a resume only right after its pause, no paper twice, and nothing after the end. `TakenUpOnce` and `DeliveryIsEarned` quantify over the whole journal;
`StillAlternating` and `StillInOrder` derive them for one more record from what may be appended. `StopIsRecorded`, that a stop which reports no failure has the end of the job on disk, needs to know who stopped the core (`StopperStands`): a stop does so only when the end is in memory or when it
fails, and in memory means on disk because an end on disk that memory does not know is still being acknowledged or fails the stop (`EndStands`). What remains is a core that something else had stopped
before: a seal, a pause or resume, or a delivery, and then the delivery is uncertain for good (`UncertainStays`). `DeliveriesHalt` looks at who writes what (`WhoWrites`, `WhoAsks`): each write is
behind a guard that reads the state of the moment, and not the one from before the await, which is what the mutant `GuardedAtFirst` changes.

**Workspace and runner** (`RunnerInv`: the parts of `CustodyInv` and `NothingLeftBehind`; that no tree is torn and that the seal holds the work follow from them).
The sealed tree is what the author's acknowledged requests made of the baseline (`TreeOfTheAuthor`), readers and the copy
are counted by `Busy`, so that a delivery is alone; the runner's part (`RunnerKnows`) is that a run which is over has no copy under way, and that a receipt which says passed belongs to a child that passed, was not interrupted by the deadline or a stop
before the receipt was issued, and printed a complete report and nothing else. For the second it has to know that a scope which is still open remembers every interruption.

## What is only model-checked

- All liveness (`CallersResolve`, `EveryCallSettles`, `CallsReturn`, `RunEnds`, `LoopEnds`, `AllSettle`, `AllEnds`): fairness and `ENABLED` are out of the prover's reach.
- That a close of the pipeline resolves, `NeverStuck`, for the same reason: in no reachable state does everybody wait for everybody. Its operations are sequences of answers
  that are each awaited once, so that without a deadlock only a child that repeats its commands for ever could hold it, and a
  child's turn is bounded by the host. `Evidence` has no liveness property: its awaits are the host's and the store's, which `Dispatch` and `RecordStore` cover.
- `ReviewsIndependent`, which compares a choice of `selectRoute` with the evidence. The choice filters and rotates sequences, and what the recursive `SelectSeq` keeps of one is an induction over data.
- `NeverRepeated`, `KeepsTheTable` and `ShowsWhatIsSaved` while a disposed engine still works beside the next one, on the unlisted instance with two engines
  that "Not modelled" describes. `EngineStands` is stated for one engine, and `CalledAsSaved` does not hold there.

## Divergences found

`loadSubject` refuses a subject whose saved state is `PLANNED`, `STARTING` or `RUNNING`. Its comment says that
this "keeps a review from judging output that does not exist or is still being written". Between two rounds
of a continued run the saved state is `PARTIAL`, while the run goes on in its slot. A review that is admitted
to the second slot in that moment loads a partial answer that then grows. `dispatch_review` shows it.

`forget` of a direct task says that a running task "is refused rather than deleted beneath itself" (`engine.mjs` 164-165, likewise `plugin.mjs` 340). It checks that the
task is free and then awaits the removal without holding it. A run that starts meanwhile takes the record from the
map and commits a round while the files go away. What saves it is the journal: the commit is
queued behind the removal and refused, so no call goes out, which `CallsOnRecord` covers. No run states the comment.

The documented limit of 64 loaded tasks (`docs/SECURITY-AND-LIMITS.md` 62) is checked before an await and not after it, by
`load` and by `plan`; calls that overlap can exceed it together. No run states it.

`forget` of evidence removes "expired records" by default and refuses a key in flight "rather than deleted beneath itself" (`qualification.mjs` 283-285;
`docs/USAGE.md` 186: "prune only lapsed evidence"). It decides on the records it listed, checks that the key is free, and then awaits the removal of each. A qualification that was under way when the
records were listed, or begins while another key is removed, and saves before its key's turn, is free again by then: its new record goes in the place of the expired one, and is reported as expired.
The model reaches this; `ResultsKept` counts it as `overtaken` and excludes every other way, and no run states the comment.

Behaviours that the models show and that a reader may not expect, though nothing in the repository says otherwise:

- A second `run()` of an existing batch id lets `read()` show the interrupted batch as running while it looks the record up.
- A compaction whose withdrawal cannot be saved reports that it was not applied while its record says that it was.
- `forget` of evidence by route and effort, or of all of it, deletes what has not expired, too. An echo by a stranger counts against the child: the test then fails.
- `stop()` while a pause's record is on disk but not yet acknowledged meets a revision conflict with its own `STOPPED` and reports failure.
- `seal()` in the wrong phase stops the whole controller. After a delivery's poison, or a pause or resume that was blocked, `stop()` succeeds without
  a `STOPPED` record; `StopIsRecorded` names these three as the only ways to that.
- A save by a disposed engine may stand in front of the chain of a task that was deleted and planned again since; no round is called twice for it.
- A runner whose close is refused, since its child is still there, lets the validator ask for a further command.
- The delivery's marker may be in place while the live phase says `uncertain`; `docs/GOVERNANCE.md` says so, and a cold look may then call it completed.
- A comment in `probes.mjs` 54 takes a blind guess of the image probe for one in 64; the colours of a panel differ, so it is one in 56.

## What is abstracted or left out

- Prompts, answers, findings and digests: a record keeps only what the code decides with. That an answer is over a bound
  is one of the ways a result "throws"; that a context is too long is a choice at the head of a round.
- `STARTING` and `RUNNING` records are one state in `Dispatch`: everything that reads them treats both as unfinished.
- A crash is the death of the process, not a loss of power: `docs/SECURITY-AND-LIMITS.md` 48 disclaims power-loss
  durability, so what was written stays written even when it was not synced.
- A removal that stops half way may bring an older revision back as the latest; properties about a record exempt it
  from then on (`damaged`). For a task this also covers a removal that goes on after its engine was disposed: a new engine can
  read the older revision that is left and call that round again. A torn record refuses listing its namespace and thereby every unforced deletion; this is what the code does.
- The side index of readable task ids (`engine.mjs` 48-74): hints that only a listing uses and that may be lost.
- Costs, token counts, diagnostics and the text of direct tasks; that a round made no progress is one way its stream ends.
- Of the pipeline: independence of routes and providers (compared when a plan is validated and an assignment is made), the contents of
  artifacts, which are read back and compared before a judgment counts (a mismatch is `ObservationRefused` or
  `VerificationFails`), and the journal's files. A reopened journal of this version is read-only (`RECONCILIATION_REQUIRED`,
  `store.mjs` 332-335), so a crash ends a job and is not modelled. That no tool call is under way when the host says that the child is idle is assumed of the host.
- Of the coordinator's `stop()`, the wait for reads under way (`ownerReads`), which change nothing, and the failure that the delivery's writer reports again at its close when it could not close its own
  file (`drainFailure`, `workspace.mjs` 1283). That the close fails or not while something has been changed is a choice in `StopCloses`, since it looks at the destination's directory only.
- `PinnedRunner` keeps the runner's `failure` although no property needs it: what sets it in `Wait` still stands in `Settle`, where it is asked for again.
- Of a record of `Dispatch`, the reference `context_run` of a review or revision to a compaction (`agent-dispatch.mjs` 169-171, 488, 499); `Iterate` has it, where compactions are made.
- In the run `batch` every readable answer is of a `COMPLETED` assignment; others are covered by the theorems, which take any.
- Of `validate()` and `review()` `Continuity` makes one judge; `Pipeline` keeps them apart. Reads of the owner, which change nothing, are left out but for the cold inspection.
- Of a workspace: identities, link counts and permissions of files and directories; each is a way in which a scan finds that somebody else was there.
- Texts of prompts, replies, challenges and probes; a reply is what can be read from it, an image probe the colours in it.
- Several processes over one state directory, which the documentation excludes.

## Not modelled

- The V1 governance lane: the event reducer and controller (`controller.mjs` 79-228), the collector of a git baseline (`workspace.mjs` 387-553), the
  acceptance probes of the runner (`runner.mjs` 41-180) and `policy.mjs`. They are diagnostics that no governed job of the current version uses.
- The governance store's own lock, queue and files, and its pages: `Pipeline` and `Continuity` take the append as a promise that is kept, refused or broken.
- The bookkeeping of stages inside the governance host, of which the controller's view is in `Pipeline`.
- Two engines over one task at once, of which only the second is open: `TaskEngine` has them, the listed run and `EngineSafe` have one. An engine that was
  disposed without being waited for saves once more. When the task was deleted and planned again in between, that save stands in front of the
  new chain, and the next round is called while the journal reads as corrupt: with two engines, one task and two plans
  `CalledAsSaved` is violated. On the same instance (4,205,475 states, no faults) `NeverRepeated`, `KeepsTheTable`, `ShowsWhatIsSaved` and
  `StoppedIsQuiet` hold, and it is too large for a listed run.
- `bundle-entry.mjs` and `governance/plugin.mjs`, which register tools; the map of owners with its bound; scripts, demo and tests.

## Plan

1. Done: admission, dispatcher with compaction, record store, batch runner, task engine and journal, the governed pipeline, its owner, delivery,
   workspace, runner, evidence, routes, verdict and the plugin's loop.
2. Done: the safety and the refinements of admission, dispatcher, record store, batch, task engine and journal, evidence, pipeline, owner and delivery,
   workspace, runner and the plugin's loop as theorems.
3. Theorems that are left: `NeverRepeated` without `Alone`, which first needs to say what a disposed engine may still do to the files.
4. `StageHost` (`host.mjs` 196-288) with its tools and idle check; the governance store file by file, as `RecordStore` is.
