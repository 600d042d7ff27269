-------------------------------- MODULE Batch --------------------------------
(***************************************************************************)
(* createBatchRunner of src/src/batch.mjs: one batch id of one owner, run  *)
(* by two worker loops that share the batch record in memory and commit    *)
(* snapshots of it, one at a time, to the record store, while the          *)
(* dispatcher (module Dispatch) carries out their assignments.  Deleting   *)
(* the batch, or an assignment of it, takes the runner exclusively.        *)
(*                                                                         *)
(* Every "await" is a program point of the run ("main") or of a worker.    *)
(*                                                                         *)
(* Where two operators with the same parameters follow each other, the     *)
(* first is a plausible mistake in the second: it is in no behaviour of    *)
(* this specification, and shows that a property would notice it.          *)
(***************************************************************************)
EXTENDS Naturals, Sequences, FiniteSets, SequencesExt

CONSTANTS
  Workers,      \* the worker loops (2 in the code)
  Request,      \* its tasks: what the caller asks for, in order
  Answers,      \* how an assignment may end that the dispatcher has recorded
  Forces,       \* whether an assignment's deletion may be forced
  Main          \* the thread of run()

(* requestOf(): what run() accepts.  The tasks differ in id, scope and prompt, ask for a
   role that reads and writes text only, and need nothing that has to be shown. *)
ValidRequest(tasks) ==
  /\ Len(tasks) \in 2 .. 8
  /\ \A i \in DOMAIN tasks :
       /\ tasks[i].role \in {"standard", "deep", "domain"}
       /\ Cardinality(tasks[i].capabilities) <= 3
       /\ tasks[i].capabilities \cap {"image", "video"} = {}
  /\ \A i, j \in DOMAIN tasks : i # j =>
       tasks[i].id # tasks[j].id /\ tasks[i].scope # tasks[j].scope /\ tasks[i].prompt # tasks[j].prompt

(* parseWorkerResult(): a worker's declaration is taken as it is or not at all, and never
   as complete when it leaves anything open. *)
WorkerStatuses == {"complete", "partial", "needs-clarification"}
ParseWorkerResult(reply) ==
  IF /\ reply.status \in WorkerStatuses
     /\ reply.findings <= 5
     /\ reply.uncertainties <= 3
     /\ reply.status = "complete" => reply.uncertainties = 0
     /\ reply.status = "needs-clarification" => reply.uncertainties > 0
  THEN reply.status ELSE "unreadable"

(* What the assignment's answer makes of the task. *)
TaskState(answer) ==
  IF answer.state # "COMPLETED" THEN "INCOMPLETE"
  ELSE CASE ParseWorkerResult(answer) = "complete" -> "COMPLETED"
         [] ParseWorkerResult(answer) = "partial" -> "PARTIAL"
         [] ParseWorkerResult(answer) = "needs-clarification" -> "NEEDS_CLARIFICATION"
         [] OTHER -> "RESULT_UNREADABLE"

Items == Len(Request)
Outcomes == {TaskState(answer) : answer \in Answers}

ASSUME BatchAssumption ==
  /\ ValidRequest(Request)
  /\ Forces \subseteq BOOLEAN
  /\ Main \notin Workers

VARIABLES
  active,     \* what holds the runner: "none", "run", "forget" or "deletion"
  disposal,   \* dispose(): "none", "waiting" for the holder, or "done"
  pc,         \* where the run and each worker stand
  item,       \* the task each worker has taken
  made,       \* workers whose assignment has been saved by the dispatcher
  next,       \* the next task to take
  opened,     \* the scope of the run exists
  aborted,    \* and has aborted
  record,     \* the batch record in memory, NoRecord before it is built
  commits,    \* commits asked for and not settled, oldest first
  writing,    \* the snapshot being saved, Nothing between commits
  settled,    \* per thread how its commit settled: "no", "ok" or "failed"
  deletion,   \* the assignment being deleted, NoDeletion otherwise
  disk,       \* the revisions of the batch record, oldest first
  saved,      \* tasks whose assignment record exists
  damaged,    \* history: a removal of the batch record failed half way
  delegated,  \* history: delegations per task since the batch record exists
  wrote       \* history: tasks whose assignment was saved since then

runVars == <<pc, item, made, next, opened, aborted, record, commits, writing, settled>>
diskVars == <<disk, saved, damaged, delegated, wrote>>
vars == <<active, disposal, runVars, deletion, diskVars>>

Threads == Workers \cup {Main}
Tasks == 1 .. Items

Unfinished == {"PLANNED", "RUNNING"}
BatchFinals == {"COMPLETED", "INCOMPLETE", "INTERRUPTED_UNKNOWN", "PERSISTENCE_FAILED"}
TaskFinals ==
  Outcomes \cup {"INCOMPLETE", "UNAVAILABLE", "CANCELLED_OR_UNKNOWN", "REFUSED_OR_FAILED", "NOT_STARTED"}

NoRecord == [state |-> "none", failed |-> FALSE]
Nothing == [state |-> "nothing"]
Torn == [state |-> "torn"]
NoDeletion == [step |-> "none"]

Readable == disk # <<>> /\ Last(disk) # Torn
Latest == Last(disk)
Snapshot == [state |-> record.state, tasks |-> record.tasks, created |-> record.created]

Init ==
  /\ active = "none"
  /\ disposal = "none"
  /\ pc = [t \in Threads |-> "idle"]
  /\ item = [w \in Workers |-> 0]
  /\ made = {}
  /\ next = 1
  /\ opened = FALSE
  /\ aborted = FALSE
  /\ record = NoRecord
  /\ commits = <<>>
  /\ writing = Nothing
  /\ settled = [t \in Threads |-> "no"]
  /\ deletion = NoDeletion
  /\ disk = <<>>
  /\ saved = {}
  /\ damaged = FALSE
  /\ delegated = [i \in Tasks |-> 0]
  /\ wrote = {}
-----------------------------------------------------------------------------
(* reserve() and release(): the runner does one thing at a time, and dispose()
   waits for it. *)
Reserve(what) ==
  /\ disposal = "none"
  /\ active = "none"
  /\ active' = what
  /\ UNCHANGED disposal

Release ==
  /\ active' = "none"
  /\ disposal' = IF disposal = "waiting" THEN "done" ELSE disposal

(* Nothing is left of a run but what was saved. *)
EndRun ==
  /\ pc' = [t \in Threads |-> "idle"]
  /\ item' = [w \in Workers |-> 0]
  /\ made' = {}
  /\ next' = 1
  /\ opened' = FALSE
  /\ aborted' = FALSE
  /\ record' = NoRecord
  /\ commits' = <<>>
  /\ writing' = Nothing
  /\ settled' = [t \in Threads |-> "no"]

Goto(t, label) == pc' = [pc EXCEPT ![t] = label]

(* commit(): join the chain of saves. *)
Commit(t, label) ==
  /\ commits' = Append(commits, t)
  /\ settled' = [settled EXCEPT ![t] = "no"]
  /\ Goto(t, label)

(* The next save of the chain begins: it takes its snapshot of the record as it is
   now, or refuses because an earlier one failed. *)
Settle(outcome) ==
  /\ settled' = [settled EXCEPT ![Head(commits)] = outcome]
  /\ commits' = Tail(commits)

CommitBegin ==
  /\ commits # <<>>
  /\ writing = Nothing
  /\ IF record.failed
     THEN Settle("failed") /\ UNCHANGED writing
     ELSE writing' = Snapshot /\ UNCHANGED <<settled, commits>>
  /\ UNCHANGED <<active, disposal, pc, item, made, next, opened, aborted, record,
                 deletion, diskVars>>

CommitOk ==
  /\ writing # Nothing
  /\ disk' = Append(disk, writing)
  /\ Settle("ok")
  /\ writing' = Nothing
  /\ UNCHANGED <<active, disposal, pc, item, made, next, opened, aborted, record, deletion,
                 saved, damaged, delegated, wrote>>

(* A failed save ends the batch: nothing is saved any more and the scope aborts. *)
SaveOutcomes == {disk, Append(disk, writing), Append(disk, Torn)}
CommitFails ==
  /\ writing # Nothing
  /\ disk' \in SaveOutcomes
  /\ Settle("failed")
  /\ writing' = Nothing
  /\ record' = [record EXCEPT !.failed = TRUE]
  /\ aborted' = TRUE
  /\ UNCHANGED <<active, disposal, pc, item, made, next, opened, deletion,
                 saved, damaged, delegated, wrote>>
-----------------------------------------------------------------------------
(* run(): reserve, and refuse an id that is saved already. *)
Run ==
  /\ Reserve("run")
  /\ Goto(Main, "lookup")
  /\ UNCHANGED <<item, made, next, opened, aborted, record, commits, writing, settled,
                 deletion, diskVars>>

TakenIfReadable == Readable
Taken == disk # <<>>

Lookup ==
  /\ pc[Main] = "lookup"
  /\ \/ /\ Goto(Main, "closing")    \* saved already, disposed, or the caller aborted
        /\ UNCHANGED <<opened, record, commits, settled>>
     \/ /\ ~Taken
        /\ disposal = "none"
        /\ opened' = TRUE
        /\ record' = [state |-> "PLANNED", failed |-> FALSE, created |-> {},
                      tasks |-> [i \in Tasks |-> "QUEUED"]]
        /\ Commit(Main, "planned")
  /\ UNCHANGED <<active, disposal, item, made, next, aborted, writing,
                 deletion, diskVars>>

Planned ==
  /\ pc[Main] = "planned"
  /\ \/ /\ settled[Main] = "ok"
        /\ record' = [record EXCEPT !.state = "RUNNING"]
        /\ Commit(Main, "running")
     \/ /\ settled[Main] = "failed"
        /\ Goto(Main, "closing")
        /\ UNCHANGED <<record, commits, settled>>
  /\ UNCHANGED <<active, disposal, item, made, next, opened, aborted, writing,
                 deletion, diskVars>>

StartWorkers ==
  /\ pc[Main] = "running"
  /\ \/ /\ settled[Main] = "ok"
        /\ pc' = [t \in Threads |-> IF t = Main THEN "workers" ELSE "loop"]
     \/ /\ settled[Main] = "failed"
        /\ Goto(Main, "closing")
  /\ UNCHANGED <<active, disposal, item, made, next, opened, aborted, record, commits,
                 writing, settled, deletion, diskVars>>

(* Both workers are through: what nobody took was not started, and the batch's state
   says whether everything completed. *)
FinalState(tasks) ==
  CASE record.failed -> "PERSISTENCE_FAILED"
    [] ~record.failed /\ aborted -> "INTERRUPTED_UNKNOWN"
    [] OTHER -> IF \A i \in Tasks : tasks[i] = "COMPLETED" THEN "COMPLETED" ELSE "INCOMPLETE"

Finish ==
  /\ pc[Main] = "workers"
  /\ \A w \in Workers : pc[w] = "exited"
  /\ LET tasks == [i \in Tasks |-> IF record.tasks[i] = "QUEUED" THEN "NOT_STARTED"
                                   ELSE record.tasks[i]]
     IN record' = [record EXCEPT !.tasks = tasks, !.state = FinalState(tasks)]
  /\ IF record.failed
     THEN Goto(Main, "closing") /\ UNCHANGED <<commits, settled>>
     ELSE Commit(Main, "final")
  /\ UNCHANGED <<active, disposal, item, made, next, opened, aborted, writing,
                 deletion, diskVars>>

Final ==
  /\ pc[Main] = "final"
  /\ settled[Main] # "no"
  /\ Goto(Main, "closing")
  /\ UNCHANGED <<active, disposal, item, made, next, opened, aborted, record, commits,
                 writing, settled, deletion, diskVars>>

(* finally: the chain of saves is over, the scope closes, the runner is free. *)
Close ==
  /\ pc[Main] = "closing"
  /\ commits = <<>>
  /\ EndRun
  /\ Release
  /\ UNCHANGED <<deletion, diskVars>>
-----------------------------------------------------------------------------
(* A worker's loop. *)
Take(w) ==
  /\ pc[w] = "loop"
  /\ IF next <= Items /\ ~aborted /\ ~record.failed
     THEN /\ item' = [item EXCEPT ![w] = next]
          /\ next' = next + 1
          /\ Goto(w, "select")
     ELSE /\ Goto(w, "exited")
          /\ UNCHANGED <<item, next>>
  /\ UNCHANGED <<active, disposal, made, opened, aborted, record, commits, writing, settled,
                 deletion, diskVars>>

Becomes(w, state) == record' = [record EXCEPT !.tasks[item[w]] = state]

(* The end of an iteration: commit the task's outcome unless saving has failed. *)
EndTask(w) ==
  IF record.failed
  THEN Goto(w, "loop") /\ UNCHANGED <<commits, settled>>
  ELSE Commit(w, "done")

(* The catch block of an iteration. *)
Catch(w) ==
  /\ Becomes(w, IF ~record.failed /\ aborted THEN "CANCELLED_OR_UNKNOWN"
                ELSE "REFUSED_OR_FAILED")
  /\ EndTask(w)

(* The qualifications are listed and a route is selected, or none is. *)
Select(w) ==
  /\ pc[w] = "select"
  /\ \/ /\ Becomes(w, "UNAVAILABLE")
        /\ Commit(w, "unavailable")
     \/ Catch(w)
     \/ /\ ~aborted
        /\ Becomes(w, "RUNNING")
        /\ Commit(w, "committed")
  /\ UNCHANGED <<active, disposal, item, made, next, opened, aborted, writing,
                 deletion, diskVars>>

Unavailable(w) ==
  /\ pc[w] = "unavailable"
  /\ \/ /\ settled[w] = "ok"
        /\ Goto(w, "loop")
        /\ UNCHANGED <<record, commits, settled>>
     \/ settled[w] = "failed" /\ Catch(w)
  /\ UNCHANGED <<active, disposal, item, made, next, opened, aborted, writing,
                 deletion, diskVars>>

(* The task is saved as RUNNING: hand it to the dispatcher, unless the scope has
   aborted meanwhile. *)
DelegateUnchecked(w) ==
  /\ pc[w] = "committed"
  /\ settled[w] # "no"
  /\ IF settled[w] = "ok"
     THEN /\ Goto(w, "delegating")
          /\ delegated' = [delegated EXCEPT ![item[w]] = @ + 1]
          /\ UNCHANGED <<record, commits, settled>>
     ELSE /\ Catch(w)
          /\ UNCHANGED delegated
  /\ UNCHANGED <<active, disposal, item, made, next, opened, aborted, writing,
                 deletion, disk, saved, damaged, wrote>>
Delegate(w) ==
  /\ pc[w] = "committed"
  /\ settled[w] # "no"
  /\ IF settled[w] = "ok" /\ ~aborted
     THEN /\ Goto(w, "delegating")
          /\ delegated' = [delegated EXCEPT ![item[w]] = @ + 1]
          /\ UNCHANGED <<record, commits, settled>>
     ELSE /\ Catch(w)
          /\ UNCHANGED delegated
  /\ UNCHANGED <<active, disposal, item, made, next, opened, aborted, writing,
                 deletion, disk, saved, damaged, wrote>>

(* The dispatcher saves the assignment, which it refuses for an id that is saved. *)
Assigned(w) ==
  /\ pc[w] = "delegating"
  /\ w \notin made
  /\ item[w] \notin saved
  /\ made' = made \cup {w}
  /\ saved' = saved \cup {item[w]}
  /\ wrote' = wrote \cup {item[w]}
  /\ UNCHANGED <<active, disposal, pc, item, next, opened, aborted, record, commits,
                 writing, settled, deletion, disk, damaged, delegated>>

(* delegate() returns: an answer once it had built the assignment's record, even
   when that could not be saved, and an error before. *)
Answered(w) ==
  /\ pc[w] = "delegating"
  /\ made' = made \ {w}
  /\ \/ /\ \E state \in IF w \in made THEN Outcomes ELSE {"INCOMPLETE"} :
             record' = [record EXCEPT !.tasks[item[w]] = state,
                                      !.created = @ \cup {item[w]}]
        /\ w \in made \/ item[w] \notin saved
        /\ EndTask(w)
     \/ w \notin made /\ Catch(w)
  /\ UNCHANGED <<active, disposal, item, next, opened, aborted, writing,
                 deletion, diskVars>>

DoneOnlyIfSaved(w) ==
  /\ pc[w] = "done"
  /\ settled[w] = "ok" /\ Goto(w, "loop")
  /\ UNCHANGED <<active, disposal, item, made, next, opened, aborted, record, commits,
                 writing, settled, deletion, diskVars>>
Done(w) ==
  /\ pc[w] = "done"
  /\ \/ settled[w] = "ok" /\ Goto(w, "loop")
     \/ settled[w] = "failed" /\ Goto(w, "exited")
  /\ UNCHANGED <<active, disposal, item, made, next, opened, aborted, record, commits,
                 writing, settled, deletion, diskVars>>
-----------------------------------------------------------------------------
(* The caller's signal or the batch's deadline aborts the scope. *)
Abort ==
  /\ opened
  /\ ~aborted
  /\ aborted' = TRUE
  /\ UNCHANGED <<active, disposal, pc, item, made, next, opened, record, commits, writing,
                 settled, deletion, diskVars>>

(* dispose(). *)
Dispose ==
  /\ disposal = "none"
  /\ disposal' = IF active = "none" THEN "done" ELSE "waiting"
  /\ aborted' = (aborted \/ opened)
  /\ UNCHANGED <<active, pc, item, made, next, opened, record, commits, writing, settled,
                 deletion, diskVars>>

(* What is left of the record after a removal that may have failed half way, and
   what follows for the history. *)
RemovedOutcomes ==
  {SubSeq(disk, 1, n) : n \in 0 .. Len(disk)}
    \cup (IF Len(disk) > 1 THEN {<<Torn>>} ELSE {})
Removed ==
  /\ disk' \in RemovedOutcomes
  /\ damaged' = (disk' # <<>> /\ (damaged \/ disk' # disk))
  /\ delegated' = IF disk' = <<>> THEN [i \in Tasks |-> 0] ELSE delegated
  /\ wrote' = IF disk' = <<>> THEN {} ELSE wrote

(* forget(): remove the batch record, whatever it holds. *)
Forget ==
  /\ Reserve("forget")
  /\ UNCHANGED <<runVars, deletion, diskVars>>

ForgetRemove ==
  /\ active = "forget"
  /\ Removed
  /\ Release
  /\ UNCHANGED <<runVars, deletion, saved>>

(* referencedBy(): the tasks the saved batch says it has, or may have, assigned. *)
ReferencedCreated(i) == i \in Latest.created
Referenced(i) == i \in Latest.created \/ Latest.tasks[i] = "RUNNING"

(* withAssignmentDeletion() around the deletion of an assignment: unless forced, it
   is refused while a batch refers to it or the batch records cannot be listed. *)
Deletion(i, force) ==
  /\ Reserve("deletion")
  /\ deletion' = [step |-> "check", task |-> i, force |-> force]
  /\ UNCHANGED <<runVars, diskVars>>

Deletable(i, force) ==
  /\ i \in saved
  /\ ~force => disk = <<>> \/ (Readable /\ ~Referenced(i))

DeletionCheck ==
  /\ deletion.step = "check"
  /\ IF Deletable(deletion.task, deletion.force)
     THEN /\ deletion' = [deletion EXCEPT !.step = "remove"]
          /\ UNCHANGED <<active, disposal>>
     ELSE /\ deletion' = NoDeletion
          /\ Release
  /\ UNCHANGED <<runVars, diskVars>>

DeletionRemove ==
  /\ deletion.step = "remove"
  /\ saved' \in {saved, saved \ {deletion.task}}
  /\ deletion' = NoDeletion
  /\ Release
  /\ UNCHANGED <<runVars, disk, damaged, delegated, wrote>>

(* read() and list(): a saved batch this runner is not running was cut off, and nobody
   knows how far its tasks got. *)
ShownState == IF active # "run" /\ Latest.state \in Unfinished
              THEN "INTERRUPTED_UNKNOWN" ELSE Latest.state
ShownTask(i) == IF ShownState # Latest.state /\ Latest.tasks[i] \in {"QUEUED", "RUNNING"}
                THEN "INTERRUPTED_UNKNOWN" ELSE Latest.tasks[i]

(* The process dies; a new runner finds what was saved. *)
Crash ==
  /\ IF active = "forget"
     THEN Removed
     ELSE /\ disk' \in IF writing = Nothing THEN {disk} ELSE SaveOutcomes
          /\ UNCHANGED <<damaged, delegated, wrote>>
  /\ saved' \in IF deletion.step = "remove" THEN {saved, saved \ {deletion.task}} ELSE {saved}
  /\ EndRun
  /\ active' = "none"
  /\ disposal' = "none"
  /\ deletion' = NoDeletion
-----------------------------------------------------------------------------
MainStep == Lookup \/ Planned \/ StartWorkers \/ Finish \/ Final \/ Close
WorkerStep(w) ==
  Take(w) \/ Select(w) \/ Unavailable(w) \/ Delegate(w) \/ Answered(w) \/ Done(w)
SaveStep == CommitBegin \/ CommitOk \/ CommitFails
DeletionStep == ForgetRemove \/ DeletionCheck \/ DeletionRemove

Next ==
  \/ Run \/ MainStep
  \/ \E w \in Workers : WorkerStep(w) \/ Assigned(w)
  \/ SaveStep
  \/ Abort \/ Dispose
  \/ Forget \/ DeletionStep
  \/ \E i \in Tasks, force \in Forces : Deletion(i, force)
  \/ Crash

Spec == Init /\ [][Next]_vars

(* While some thread can run, or the store owes an answer, something of this goes on;
   the dispatcher settles each delegation (CallsReturn of module Dispatch). *)
FairSpec ==
  Spec /\ WF_vars(MainStep \/ (\E w \in Workers : WorkerStep(w)) \/ SaveStep \/ DeletionStep)
-----------------------------------------------------------------------------
TaskStates == {"QUEUED", "RUNNING"} \cup TaskFinals
Snapshots == [state : Unfinished \cup BatchFinals, tasks : [Tasks -> TaskStates],
              created : SUBSET Tasks]
MainLabels == {"idle", "lookup", "planned", "running", "workers", "final", "closing"}
WorkerLabels == {"idle", "loop", "select", "unavailable", "committed", "delegating", "done",
                 "exited"}
TypeOK ==
  /\ active \in {"none", "run", "forget", "deletion"}
  /\ disposal \in {"none", "waiting", "done"}
  /\ pc \in [Threads -> MainLabels \cup WorkerLabels]
  /\ pc[Main] \in MainLabels
  /\ \A w \in Workers : pc[w] \in WorkerLabels
  /\ item \in [Workers -> 0 .. Items]
  /\ made \subseteq Workers
  /\ next \in 1 .. Items + 1
  /\ opened \in BOOLEAN /\ aborted \in BOOLEAN /\ damaged \in BOOLEAN
  /\ record # NoRecord =>
       record \in [state : Unfinished \cup BatchFinals, tasks : [Tasks -> TaskStates],
                   created : SUBSET Tasks, failed : BOOLEAN]
  /\ commits \in Seq(Threads) /\ IsInjective(commits)
  /\ writing # Nothing => writing \in Snapshots
  /\ settled \in [Threads -> {"no", "ok", "failed"}]
  /\ deletion # NoDeletion =>
       deletion \in [step : {"check", "remove"}, task : Tasks, force : Forces]
  /\ disk \in Seq(Snapshots \cup {Torn})
  /\ saved \subseteq Tasks /\ wrote \subseteq Tasks
  /\ delegated \in [Tasks -> Nat]

(* Who holds the runner, and what has stopped the batch: a deletion under way was found
   permissible, and what made it so still stands. *)
RunnerStands ==
  /\ active = "run" <=> pc[Main] # "idle"
  /\ active = "deletion" <=> deletion # NoDeletion
  /\ disposal = "done" => active = "none"
  /\ opened <=> record # NoRecord
  /\ opened /\ (record.failed \/ disposal # "none") => aborted
  /\ deletion.step = "remove" => Deletable(deletion.task, deletion.force)

(* The workers exist while the run waits for them, and the chain of saves holds exactly
   the threads that wait for their commit. *)
Waiting == {"planned", "running", "final", "unavailable", "committed", "done"}
ThreadsStand ==
  /\ pc[Main] \in {"idle", "lookup"} => ~opened
  /\ pc[Main] \in {"planned", "running", "workers", "final"} => opened
  /\ pc[Main] \in {"idle", "lookup", "planned", "running"} =>
       /\ \A w \in Workers : pc[w] = "idle"
       /\ next = 1
       /\ made = {}
  /\ pc[Main] = "workers" => \A w \in Workers : pc[w] # "idle"
  /\ pc[Main] \in {"final", "closing"} => \A w \in Workers : pc[w] \in {"idle", "exited"}
  /\ \A t \in Threads :
       t \in ToSet(commits) <=> pc[t] \in Waiting /\ settled[t] = "no"
  /\ writing # Nothing => commits # <<>> /\ opened /\ ~record.failed

(* Each task is queued, or in the hands of the one worker that took it, or over. *)
Busy(w) == pc[w] \in {"select", "unavailable", "committed", "delegating", "done"}
Holds(w) ==
  LET i == item[w]
  IN /\ i # 0
     /\ pc[w] = "select" => record.tasks[i] = "QUEUED"
     /\ pc[w] = "unavailable" => record.tasks[i] = "UNAVAILABLE"
     /\ pc[w] \in {"committed", "delegating"} => record.tasks[i] = "RUNNING"
     /\ pc[w] \in {"select", "unavailable", "committed"} => delegated[i] = 0
     /\ pc[w] = "delegating" =>
          delegated[i] = 1 /\ settled[w] = "ok" /\ (i \in wrote => w \in made)
     /\ pc[w] = "done" => record.tasks[i] \in TaskFinals
TasksStand ==
  /\ \A w \in Workers : item[w] < next
  /\ \A v, w \in Workers : v # w => item[v] # item[w] \/ item[v] = 0
  /\ \A w \in Workers : Busy(w) => Holds(w)
  /\ \A w \in made : pc[w] = "delegating"
  /\ pc[Main] \in {"planned", "running", "workers"} =>
       /\ record.state \in Unfinished
       /\ \A i \in Tasks :
            IF i >= next THEN record.tasks[i] = "QUEUED" /\ delegated[i] = 0
            ELSE record.tasks[i] \in TaskFinals \/ \E w \in Workers : Busy(w) /\ item[w] = i

(* What a revision says of itself, and what it says of what the batch has done. *)
RevisionStands(saying) ==
  /\ saying.state \notin Unfinished =>
       /\ \A i \in Tasks : saying.tasks[i] \in TaskFinals
       /\ saying.state = "COMPLETED" => \A i \in Tasks : saying.tasks[i] = "COMPLETED"
  /\ \A i \in Tasks : saying.tasks[i] = "COMPLETED" => i \in saying.created
Covers(saying) ==
  /\ \A i \in Tasks : delegated[i] > 0 =>
       saying.tasks[i] \notin {"QUEUED", "NOT_STARTED", "UNAVAILABLE"}
  /\ \A i \in wrote : i \in saying.created \/ saying.tasks[i] = "RUNNING"

(* A task is in its worker's hands on disk before it is delegated, and stays so in every
   later revision until its worker is through. *)
SaysRunning(w) ==
  /\ disk # <<>>
  /\ Readable => Latest.tasks[item[w]] = "RUNNING"
  /\ writing # Nothing => writing.tasks[item[w]] = "RUNNING"
SavesStand ==
  /\ opened => RevisionStands(record) /\ Covers(record) /\ ~damaged
  /\ writing # Nothing => RevisionStands(writing) /\ Covers(writing)
  /\ \A revision \in ToSet(disk) \ {Torn} : RevisionStands(revision)
  /\ Readable /\ ~damaged => Covers(Latest)
  /\ \A w \in Workers :
       /\ pc[w] \in {"committed", "delegating"} /\ settled[w] = "ok" => SaysRunning(w)
       /\ pc[w] = "committed" /\ writing # Nothing /\ Head(commits) = w =>
            writing.tasks[item[w]] = "RUNNING"

HistoryStands ==
  /\ \A i \in Tasks : delegated[i] > 0 => delegated[i] = 1 /\ disk # <<>>
  /\ \A i \in wrote : delegated[i] = 1
  /\ damaged => disk # <<>>
  /\ TRUE \notin Forces /\ ~damaged => wrote \subseteq saved

(* A task is delegated once at most while the batch's record exists, across crashes
   and repeated calls, and only after the record said that it runs. *)
DelegatedOnce ==
  \A i \in Tasks : delegated[i] > 0 =>
    /\ delegated[i] = 1
    /\ disk # <<>>
    /\ Readable /\ ~damaged => Latest.tasks[i] # "QUEUED"

(* The batch's record refers to every assignment the batch has made, however the
   commits of the two workers interleave, fail or are cut off, and a deletion that
   is not forced spares what it refers to. *)
ReferencesHold ==
  TRUE \notin Forces /\ Readable /\ ~damaged =>
    \A i \in wrote : Referenced(i) /\ i \in saved

(* Nothing is delegated once the batch was aborted, disposed, or could not be saved. *)
NothingAfterStop ==
  [][(\E i \in Tasks : delegated'[i] > delegated[i]) =>
       ~aborted /\ ~record.failed /\ disposal = "none"]_vars

(* Without a run the batch is shown as over, and a task of it as not started only if no
   assignment of it was ever asked for. *)
ShownAsItIs ==
  Readable /\ active # "run" =>
    /\ ShownState \in BatchFinals
    /\ \A i \in Tasks :
         /\ ShownTask(i) \in TaskFinals \cup {"INTERRUPTED_UNKNOWN"}
         /\ ShownTask(i) \in {"NOT_STARTED", "UNAVAILABLE"} /\ ~damaged => delegated[i] = 0

(* A finished batch has no task queued or running, and says COMPLETED only when every
   task completed and its assignment was recorded. *)
FinishedBatch ==
  Readable /\ Latest.state \notin Unfinished =>
    /\ \A i \in Tasks : Latest.tasks[i] \in TaskFinals
    /\ Latest.state = "COMPLETED" =>
         Latest.created = Tasks /\ \A i \in Tasks : Latest.tasks[i] = "COMPLETED"

(* Once disposal has resolved the runner does nothing any more: no assignment is under
   way, no save pending, no deletion half done. *)
DisposedIsQuiet ==
  disposal = "done" =>
    /\ active = "none"
    /\ \A t \in Threads : pc[t] = "idle"
    /\ commits = <<>>
    /\ deletion = NoDeletion

(* The batch's record is true of the batch, and disposal leaves nothing behind. *)
BatchStands ==
  TypeOK /\ RunnerStands /\ ThreadsStand /\ TasksStand /\ SavesStand /\ HistoryStands
BatchInv ==
  BatchStands /\ ReferencesHold /\ FinishedBatch /\ ShownAsItIs /\ DisposedIsQuiet

(* A run always ends and frees the runner. *)
RunEnds == active # "none" ~> active = "none"
=============================================================================
