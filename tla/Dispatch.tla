------------------------------ MODULE Dispatch ------------------------------
(****************************************************************************)
(* delegate, compact and forget of the dispatcher (src/agent-dispatch.mjs)  *)
(* running over its admission control and its durable assignment records,   *)
(* with the native child agents as an environment.                          *)
(*                                                                          *)
(* Every "await" of a call is a program point, and an action is the code    *)
(* from one await to the next.  Between them anything else of the same      *)
(* process may run: other assignments, an abort or the deadline of this one,*)
(* disposal, the expiry of evidence.  A crash loses everything but the      *)
(* records.                                                                 *)
(*                                                                          *)
(* compact goes the way of a read-only delegate of one round and no standby,*)
(* up to its child's result: where it differs the action says so.           *)
(*                                                                          *)
(* A record is abstracted to what the dispatcher decides with: its state,   *)
(* how many rounds it has committed, how many parts of answer it holds, the *)
(* route and the evidence it goes out under, the run it reviews or condenses,*)
(* whether it is a compaction, whether its tools can write and whether it is*)
(* finished (finishedAt).                                                   *)
(*                                                                          *)
(* Where two operators with the same parameters follow each other, the      *)
(* first is a plausible mistake in the second: it is in no behaviour of     *)
(* this specification, and shows that a property would notice it.           *)
(****************************************************************************)
EXTENDS Admission

CONSTANTS
  MaxRounds,      \* rounds an assignment may take (1..8 in the code)
  Standby,        \* qualified alternates in reserve
  Options,        \* what a call may ask: [write, subject, compact]
  StopReasons,    \* how a child's result may settle
  Perishable,     \* routes whose evidence may expire while the model runs
  Forces,         \* whether forget may be forced: a subset of BOOLEAN
  MaxCrashes,     \* bound on crashes
  Elsewhere,      \* a subject that is a run the model leaves out
  None

ASSUME DispatchAssumption ==
  /\ MaxRounds \in Nat \ {0}
  /\ Standby \in Nat
  /\ MaxCrashes \in Nat
  /\ Perishable \subseteq 0 .. Standby
  /\ Forces \subseteq BOOLEAN
  /\ {None, Elsewhere} \cap Runs = {}
  /\ Options \subseteq
       [write : BOOLEAN, subject : Runs \cup {None, Elsewhere}, compact : BOOLEAN]
  /\ \A o \in Options : o.compact => ~o.write /\ o.subject # None
  /\ StopReasons \subseteq {"completed", "max-tokens", "refused", "error", "thrown"}

VARIABLES
  pc,        \* where the delegate call of each key stands
  options,   \* what it was asked
  record,    \* its record in memory, NoRecord before it is built
  index,     \* its round loop's counter
  child,     \* its child agent, NoChild without one
  judged,    \* parts of answer its subject had when it was loaded, 0 without one
  returned,  \* what the last call returned, None before that
  deletion,  \* the forget call under way: its run, its step and its force
  disk,      \* the revision files per key, oldest first, none without a record
  damaged,   \* history: keys a removal failed half way on
  expired,   \* routes whose evidence has expired
  started,   \* history: children started under the saved record of each key
  crashes    \* number of crashes so far

callVars == <<pc, options, record, index, child, judged, returned>>
worldVars == <<deletion, disk, damaged, expired, started, crashes>>
dispatchVars == <<callVars, worldVars>>
vars == <<admissionVars, dispatchVars>>

Routes == 0 .. Standby

RecordStates ==
  {"PLANNED", "RUNNING", "COMPLETED", "PARTIAL", "PARTIAL_NO_PROGRESS",
   "PARTIAL_CONTEXT_LIMIT", "PARTIAL_NEEDS_RECONCILIATION", "INTERRUPTED_UNKNOWN"}
Unfinished == {"PLANNED", "RUNNING"}

Records ==
  [state : RecordStates, rounds : Nat, parts : Nat, route : Routes,
   evidence : Routes, subject : Runs \cup {None, Elsewhere}, write : BOOLEAN,
   compact : BOOLEAN, finished : BOOLEAN]
NoRecord == [state |-> "none"]

(* A revision file that reads refuse: cut short, or without the ones before it. *)
Torn == [state |-> "torn"]
Latest(k) == Last(disk[k])
Readable(k) == disk[k] # <<>> /\ Latest(k) # Torn

(* What a child has said when its result settles: nothing, only what the answer
   already holds (of a compaction: nothing smaller), or something new. *)
Texts == {"none", "repeated", "new"}

Children ==
  [result : StopReasons \cup {"pending"}, text : Texts,
   disposal : {"none", "begun", "done", "failed"}]
NoChild == [result |-> "none"]
Live(k) == /\ child[k] # NoChild
           /\ child[k].result = "pending" \/ child[k].disposal \in {"none", "begun"}

NoDeletion == [step |-> "none"]

DispatchInit ==
  /\ pc = [k \in Runs |-> "idle"]
  /\ options = [k \in Runs |-> None]
  /\ record = [k \in Runs |-> NoRecord]
  /\ index = [k \in Runs |-> 0]
  /\ child = [k \in Runs |-> NoChild]
  /\ judged = [k \in Runs |-> 0]
  /\ returned = [k \in Runs |-> None]
  /\ deletion = NoDeletion
  /\ disk = [k \in Runs |-> <<>>]
  /\ damaged = {}
  /\ expired = {}
  /\ started = [k \in Runs |-> 0]
  /\ crashes = 0

Init == AdmissionInit /\ DispatchInit
-----------------------------------------------------------------------------
Goto(k, label) == pc' = [pc EXCEPT ![k] = label]

(* A continuation of k runs when it is k's turn: no synchronous call of another
   continuation is in progress. *)
At(k, label) == ~draining /\ pc[k] = label

(* ownChild: the abort of the scope begins the child's disposal, once. *)
BeginDisposalOfSettled(k) ==
  IF child[k] # NoChild /\ child[k].disposal = "none" /\ child[k].result # "pending"
  THEN [child EXCEPT ![k].disposal = "begun"]
  ELSE child
BeginDisposal(k) ==
  IF child[k] # NoChild /\ child[k].disposal = "none"
  THEN [child EXCEPT ![k].disposal = "begun"]
  ELSE child

(* The catch block: abort the scope; without a record the error is rethrown,
   with one the record becomes uncertain and is saved once more unless
   saving is what failed. *)
AbortScope(k) ==
  /\ IF k \in aborted THEN UNCHANGED admissionVars ELSE Abort(k)
  /\ child' = BeginDisposal(k)

Refuse(k) ==
  /\ AbortScope(k)
  /\ Goto(k, "cleanup")
  /\ returned' = [returned EXCEPT ![k] = "REFUSED"]
  /\ UNCHANGED record

Interrupt(k, saveFailed) ==
  /\ AbortScope(k)
  /\ record' = [record EXCEPT ![k].state = "INTERRUPTED_UNKNOWN", ![k].finished = TRUE]
  /\ IF saveFailed
     THEN /\ Goto(k, "cleanup")
          /\ returned' = [returned EXCEPT ![k] = "PERSISTENCE_FAILED"]
     ELSE /\ Goto(k, "failSave")
          /\ UNCHANGED returned

Fresh(k) == record[k].evidence \notin expired
-----------------------------------------------------------------------------
(* delegate() and compact(), which never waits in the queue: reserve synchronously, then
   await the lease. *)
Delegate(k, o, queue) ==
  /\ pc[k] = "idle"
  /\ o.compact => ~queue
  /\ Reserve(k, queue)
  /\ options' = [options EXCEPT ![k] = o]
  /\ record' = [record EXCEPT ![k] = NoRecord]
  /\ index' = [index EXCEPT ![k] = 0]
  /\ judged' = [judged EXCEPT ![k] = 0]
  /\ returned' = [returned EXCEPT ![k] = None]
  /\ Goto(k, "ready")
  /\ UNCHANGED <<child, worldVars>>

Ready(k) ==
  /\ At(k, "ready")
  /\ \/ /\ leases[k] = "active"
        /\ k \notin aborted
        /\ Goto(k, "lookup")
        /\ UNCHANGED <<admissionVars, record, child, returned>>
     \/ /\ leases[k] \in {"active", "cancelled"}
        /\ k \in aborted
        /\ Refuse(k)
  /\ UNCHANGED <<options, index, judged, worldVars>>

(* The record as it is first saved. *)
Plan(k) ==
  /\ record' = [record EXCEPT ![k] =
       [state |-> "PLANNED", rounds |-> 0, parts |-> 0, route |-> 0, evidence |-> 0,
        subject |-> options[k].subject, write |-> options[k].write,
        compact |-> options[k].compact, finished |-> FALSE]]
  /\ Goto(k, "planSave")
  /\ UNCHANGED <<admissionVars, child, returned>>

(* store.read(key) has resolved: any saved record, readable or not, refuses
   the call, and so does evidence that has expired. *)
TakenIfReadable(k) == Readable(k)
Taken(k) == disk[k] # <<>>

Lookup(k) ==
  /\ At(k, "lookup")
  /\ IF Taken(k) \/ 0 \in expired
     THEN Refuse(k)
     ELSE IF options[k].subject = None
          THEN Plan(k)
          ELSE /\ Goto(k, "subject")
               /\ UNCHANGED <<admissionVars, record, child, returned>>
  /\ UNCHANGED <<options, index, judged, worldVars>>

(* loadSubject(): only a readable record whose saved state is not unfinished and
   whose answer is not empty can be reviewed or condensed. *)
Reviewable(s) ==
  /\ Readable(s)
  /\ Latest(s).state \notin Unfinished
  /\ Latest(s).parts > 0

LoadSubject(k) ==
  /\ At(k, "subject")
  /\ LET s == options[k].subject IN
       \/ /\ s = Elsewhere
          /\ Plan(k) \/ Refuse(k)
          /\ UNCHANGED judged
       \/ /\ s \in Runs
          /\ Reviewable(s)
          /\ Plan(k)
          /\ judged' = [judged EXCEPT ![k] = Latest(s).parts]
       \/ /\ s \in Runs
          /\ ~Reviewable(s)
          /\ Refuse(k)
          /\ UNCHANGED judged
  /\ UNCHANGED <<options, index, worldVars>>
-----------------------------------------------------------------------------
(* A save settles.  Before the first round it is followed by the check that the
   subagents service is there; the disposals begin as soon as their save is done. *)
AfterSave ==
  [planSave |-> "service", roundSave |-> "launch", childSave |-> "result",
   resultSave |-> "disposeRound", movedSave |-> "disposeMoved",
   limitSave |-> "finish", reconcileSave |-> "finish",
   finalSave |-> "cleanup", failSave |-> "cleanup"]
SavePoints == DOMAIN AfterSave

SaveOk(k) ==
  /\ ~draining
  /\ pc[k] \in SavePoints
  /\ disk' = [disk EXCEPT ![k] = Append(@, record[k])]
  /\ Goto(k, AfterSave[pc[k]])
  /\ child' = IF AfterSave[pc[k]] \in {"disposeRound", "disposeMoved"}
              THEN BeginDisposal(k) ELSE child
  /\ returned' = IF AfterSave[pc[k]] = "cleanup"
                 THEN [returned EXCEPT ![k] = record[k].state] ELSE returned
  /\ UNCHANGED <<admissionVars, options, record, index, judged, deletion,
                 damaged, expired, started, crashes>>

(* It may fail before it touched the record's directory, leave a revision file
   behind that later reads refuse, or have written all of it and failed to sync. *)
SaveOutcomes(k) == {disk[k], Append(disk[k], record[k]), Append(disk[k], Torn)}
SaveFails(k) ==
  /\ ~draining
  /\ pc[k] \in SavePoints
  /\ \E outcome \in SaveOutcomes(k) : disk' = [disk EXCEPT ![k] = outcome]
  /\ Interrupt(k, TRUE)
  /\ UNCHANGED <<options, index, judged, deletion, damaged, expired, started, crashes>>

Service(k) ==
  /\ At(k, "service")
  /\ \/ /\ Goto(k, "head")
        /\ UNCHANGED <<admissionVars, record, child, returned>>
     \/ Interrupt(k, FALSE)
  /\ UNCHANGED <<options, index, judged, worldVars>>

(* The commitment to one more round, saved before anything is started. *)
CommitUnsaved(k) ==
  /\ record' = [record EXCEPT ![k].state = "RUNNING", ![k].rounds = @ + 1]
  /\ Goto(k, "launch")
Commit(k) ==
  /\ record' = [record EXCEPT ![k].state = "RUNNING", ![k].rounds = @ + 1]
  /\ Goto(k, "roundSave")

(* The head of the round loop: abort, context limit (the prior output or the subject
   is too long to send), expiry of the evidence, and the commitment. *)
RoundHead(k) ==
  /\ At(k, "head")
  /\ \/ /\ k \in aborted
        /\ Interrupt(k, FALSE)
     \/ /\ k \notin aborted
        /\ index[k] > 0 \/ options[k].subject # None
        /\ ~options[k].compact
        /\ record' = [record EXCEPT ![k].state = "PARTIAL_CONTEXT_LIMIT"]
        /\ Goto(k, "limitSave")
        /\ UNCHANGED <<admissionVars, child, returned>>
     \/ /\ k \notin aborted
        /\ ~Fresh(k)
        /\ Interrupt(k, FALSE)
     \/ /\ k \notin aborted
        /\ Fresh(k)
        /\ Commit(k)
        /\ UNCHANGED <<admissionVars, child, returned>>
  /\ UNCHANGED <<options, index, judged, worldVars>>

(* The commitment is saved: check again and call subagents.start. *)
Launch(k) ==
  /\ At(k, "launch")
  /\ IF k \in aborted \/ ~Fresh(k)
     THEN /\ Interrupt(k, FALSE)
          /\ UNCHANGED started
     ELSE /\ Goto(k, "starting")
          /\ started' = [started EXCEPT ![k] = @ + 1]
          /\ UNCHANGED <<admissionVars, record, child, returned>>
  /\ UNCHANGED <<options, index, judged, deletion, disk, damaged, expired, crashes>>

StartReturns(k) ==
  /\ At(k, "starting")
  /\ child' = [child EXCEPT ![k] =
       [result |-> "pending", text |-> "none",
        disposal |-> IF k \in aborted THEN "begun" ELSE "none"]]
  /\ Goto(k, "childSave")
  /\ UNCHANGED <<admissionVars, options, record, index, judged, returned, worldVars>>

StartFails(k) ==
  /\ At(k, "starting")
  /\ Interrupt(k, FALSE)
  /\ UNCHANGED <<options, index, judged, worldVars>>

(* The native child: its result settles with or without text ("thrown" also stands
   for an answer over the output bound), and so does its disposal. *)
ResultSettles(k) ==
  /\ ~draining
  /\ child[k].result = "pending"
  /\ \E reason \in StopReasons, text \in Texts :
       /\ text = "repeated" => index[k] > 0 \/ options[k].compact
       /\ child' = [child EXCEPT ![k].result = reason, ![k].text = text]
  /\ UNCHANGED <<admissionVars, pc, options, record, index, judged, returned, worldVars>>

DisposalSettles(k) ==
  /\ ~draining
  /\ child[k] # NoChild
  /\ child[k].disposal = "begun"
  /\ \E outcome \in {"done", "failed"} : child' = [child EXCEPT ![k].disposal = outcome]
  /\ UNCHANGED <<admissionVars, pc, options, record, index, judged, returned, worldVars>>

(* canFailOver(): the provider refused up front, nothing was produced, and the
   child could not have written.  A compaction has no standby. *)
CanFailOver(k) ==
  /\ ~options[k].compact
  /\ child[k].result = "refused"
  /\ record[k].route < Standby
  /\ child[k].text = "none"
  /\ ~options[k].write

NoProgress(k) == index[k] > 0 /\ child[k].text # "new"

ResultState(k) ==
  CASE k \in aborted -> "INTERRUPTED_UNKNOWN"
    [] k \notin aborted /\ NoProgress(k) -> "PARTIAL_NO_PROGRESS"
    [] k \notin aborted /\ ~NoProgress(k) /\ child[k].result = "completed" -> "COMPLETED"
    [] k \notin aborted /\ ~NoProgress(k) /\ child[k].result = "max-tokens" -> "PARTIAL"
    [] OTHER -> "INTERRUPTED_UNKNOWN"

(* The next route goes out under its own qualification. *)
FailOverKeepsEvidence(k) ==
  /\ At(k, "result")
  /\ CanFailOver(k)
  /\ record' = [record EXCEPT ![k].route = @ + 1]
  /\ Goto(k, "movedSave")
  /\ UNCHANGED <<admissionVars, options, index, child, judged, returned, worldVars>>
FailOver(k) ==
  /\ At(k, "result")
  /\ CanFailOver(k)
  /\ record' = [record EXCEPT ![k].route = @ + 1, ![k].evidence = record[k].route + 1]
  /\ Goto(k, "movedSave")
  /\ UNCHANGED <<admissionVars, options, index, child, judged, returned, worldVars>>

TakeResultFinishes(k) ==
  /\ At(k, "result")
  /\ ~options[k].compact
  /\ child[k].result \notin {"pending", "thrown"}
  /\ ~CanFailOver(k)
  /\ record' = [record EXCEPT ![k].state = ResultState(k), ![k].finished = TRUE,
                              ![k].parts = IF child[k].text = "new" THEN @ + 1 ELSE @]
  /\ Goto(k, "resultSave")
  /\ UNCHANGED <<admissionVars, options, index, child, judged, returned, worldVars>>
TakeResult(k) ==
  /\ At(k, "result")
  /\ ~options[k].compact
  /\ child[k].result \notin {"pending", "thrown"}
  /\ ~CanFailOver(k)
  /\ record' = [record EXCEPT ![k].state = ResultState(k),
                              ![k].parts = IF child[k].text = "new" THEN @ + 1 ELSE @]
  /\ Goto(k, "resultSave")
  /\ UNCHANGED <<admissionVars, options, index, child, judged, returned, worldVars>>

(* compact(): a summary that is readable and smaller ("new") is applied, and the record
   is finished before the child is disposed. *)
CompactionState(k) ==
  CASE k \in aborted -> "INTERRUPTED_UNKNOWN"
    [] k \notin aborted /\ child[k].result = "completed" ->
         IF child[k].text = "new" THEN "COMPLETED" ELSE "PARTIAL_NO_PROGRESS"
    [] k \notin aborted /\ child[k].result = "max-tokens" -> "PARTIAL"
    [] OTHER -> "INTERRUPTED_UNKNOWN"

TakeCompaction(k) ==
  /\ At(k, "result")
  /\ options[k].compact
  /\ child[k].result \notin {"pending", "thrown"}
  /\ record' = [record EXCEPT ![k].state = CompactionState(k), ![k].finished = TRUE,
                              ![k].parts = IF child[k].text = "none" THEN 0 ELSE 1]
  /\ Goto(k, "resultSave")
  /\ UNCHANGED <<admissionVars, options, index, child, judged, returned, worldVars>>

ResultThrows(k) ==
  /\ At(k, "result")
  /\ child[k].result = "thrown"
  /\ Interrupt(k, FALSE)
  /\ UNCHANGED <<options, index, judged, worldVars>>

(* The child that was refused is gone: the same round is tried on the next route. *)
DisposedMoved(k) ==
  /\ At(k, "disposeMoved")
  /\ child[k].disposal = "done"
  /\ child' = [child EXCEPT ![k] = NoChild]
  /\ Goto(k, "head")
  /\ UNCHANGED <<admissionVars, options, record, index, judged, returned, worldVars>>

(* The child of a round that ran is gone: stop, or ask for a reconciliation, or
   continue in a new child. *)
DisposedRound(k) ==
  /\ At(k, "disposeRound")
  /\ ~options[k].compact
  /\ child[k].disposal = "done"
  /\ child' = [child EXCEPT ![k] = NoChild]
  /\ IF k \in aborted \/ NoProgress(k) \/ child[k].result # "max-tokens"
     THEN Goto(k, "finish") /\ UNCHANGED <<record, index>>
     ELSE IF options[k].write
     THEN /\ record' = [record EXCEPT ![k].state = "PARTIAL_NEEDS_RECONCILIATION"]
          /\ Goto(k, "reconcileSave")
          /\ UNCHANGED index
     ELSE IF child[k].text = "none" \/ index[k] + 1 = MaxRounds
     THEN Goto(k, "finish") /\ UNCHANGED <<record, index>>
     ELSE /\ index' = [index EXCEPT ![k] = @ + 1]
          /\ Goto(k, "head")
          /\ UNCHANGED record
  /\ UNCHANGED <<admissionVars, options, judged, returned, worldVars>>

(* The child of a compaction is gone: return whether it applies. *)
CompactionReturns(k) ==
  /\ At(k, "disposeRound")
  /\ options[k].compact
  /\ child[k].disposal = "done"
  /\ returned' = [returned EXCEPT ![k] = record[k].state]
  /\ Goto(k, "cleanup")
  /\ UNCHANGED <<admissionVars, options, record, index, child, judged, worldVars>>

(* A compaction that was saved as finished is withdrawn when its child's disposal fails. *)
DisposalThrows(k) ==
  /\ ~draining
  /\ pc[k] \in {"disposeMoved", "disposeRound"}
  /\ child[k].disposal = "failed"
  /\ Interrupt(k, FALSE)
  /\ UNCHANGED <<options, index, judged, worldVars>>

Finish(k) ==
  /\ At(k, "finish")
  /\ record' = [record EXCEPT ![k].finished = TRUE]
  /\ Goto(k, "finalSave")
  /\ UNCHANGED <<admissionVars, options, index, child, judged, returned, worldVars>>

(* finally: the child's result and its disposal settle, then the lease goes. *)
CleanupEarly(k) ==
  /\ pc[k] = "cleanup"
  /\ Release(k)
  /\ Goto(k, "idle")
  /\ UNCHANGED <<options, record, index, child, judged, returned, worldVars>>
Cleanup(k) ==
  /\ pc[k] = "cleanup"
  /\ ~Live(k)
  /\ Release(k)
  /\ child' = [child EXCEPT ![k] = NoChild]
  /\ Goto(k, "idle")
  /\ UNCHANGED <<options, record, index, judged, returned, worldVars>>
-----------------------------------------------------------------------------
(* The caller's signal or the deadline aborts the scope of a lease. *)
ScopeAborts(k) ==
  /\ Abort(k)
  /\ child' = BeginDisposal(k)
  /\ UNCHANGED <<pc, options, record, index, judged, returned, worldVars>>

(* drain(), one iteration at a time. *)
Drain ==
  /\ DrainNext \/ DrainEnd
  /\ UNCHANGED dispatchVars

(* dispose() aborts the scope of every lease, and with it every child. *)
DisposeDispatcher ==
  /\ Dispose
  /\ child' = [k \in Runs |-> BeginDisposal(k)[k]]
  /\ UNCHANGED <<pc, options, record, index, judged, returned, worldVars>>

DisposalResolves ==
  /\ DisposeSettles
  /\ UNCHANGED dispatchVars

(* The evidence that qualified a route reaches its expiresAt. *)
Expire(r) ==
  /\ ~draining
  /\ r \notin expired
  /\ expired' = expired \cup {r}
  /\ UNCHANGED <<admissionVars, callVars, deletion, disk, damaged, started, crashes>>
-----------------------------------------------------------------------------
(* forget(): hold the lease map, check, remove. *)
Forget(k, force) ==
  /\ BeginDeletion
  /\ deletion' = [step |-> "check", run |-> k, force |-> force]
  /\ UNCHANGED <<callVars, disk, damaged, expired, started, crashes>>

(* Saved reviews of k; listing them refuses when any record is unreadable. *)
FinishedReferees(k) ==
  {r \in Runs : Readable(r) /\ Latest(r).subject = k /\ Latest(r).finished}
Referees(k) == {r \in Runs : Readable(r) /\ Latest(r).subject = k}
Forgettable(k, force) ==
  /\ Readable(k)
  /\ ~force => Referees(k) = {} /\ \A r \in Runs : disk[r] # <<>> => Readable(r)

ForgetCheck ==
  /\ ~draining
  /\ deletion.step = "check"
  /\ IF Forgettable(deletion.run, deletion.force)
     THEN /\ deletion' = [deletion EXCEPT !.step = "remove"]
          /\ UNCHANGED admissionVars
     ELSE /\ deletion' = NoDeletion
          /\ EndDeletion
  /\ UNCHANGED <<callVars, disk, damaged, expired, started, crashes>>

(* Removing the record's directory, file by file in any order.  When it fails half
   way an older revision may be the latest again, or one is left that has no
   predecessor. *)
RemovedOutcomes(k) ==
  {SubSeq(disk[k], 1, n) : n \in 0 .. Len(disk[k])}
    \cup (IF Len(disk[k]) > 1 THEN {<<Torn>>} ELSE {})

(* The history variables follow: a record that is gone starts afresh. *)
Removed(S) ==
  /\ damaged' = {k \in damaged \cup S : disk'[k] # <<>>}
  /\ started' = [k \in Runs |-> IF disk'[k] = <<>> THEN 0 ELSE started[k]]

ForgetRemove ==
  /\ deletion.step = "remove"
  /\ EndDeletion
  /\ deletion' = NoDeletion
  /\ \E outcome \in RemovedOutcomes(deletion.run) :
       /\ disk' = [disk EXCEPT ![deletion.run] = outcome]
       /\ Removed(IF outcome = disk[deletion.run] THEN {} ELSE {deletion.run})
  /\ UNCHANGED <<callVars, expired, crashes>>

(* The process dies and a new dispatcher opens the same records.  A save that
   was under way has happened, or not, or left a partial revision file. *)
Removing(k) == deletion.step = "remove" /\ deletion.run = k
CrashOutcomes(k) ==
  {disk[k]}
    \cup (IF pc[k] \in SavePoints THEN SaveOutcomes(k) ELSE {})
    \cup (IF Removing(k) THEN RemovedOutcomes(k) ELSE {})

Crash ==
  /\ ~draining
  /\ crashes < MaxCrashes
  /\ crashes' = crashes + 1
  /\ \E outcome \in [Runs -> UNION {CrashOutcomes(k) : k \in Runs}] :
       /\ \A k \in Runs : outcome[k] \in CrashOutcomes(k)
       /\ disk' = outcome
       /\ Removed({k \in Runs : Removing(k) /\ outcome[k] # disk[k]})
  /\ leases' = [k \in Runs |-> "absent"]
  /\ pending' = <<>>
  /\ active' = 0
  /\ aborted' = {}
  /\ deleting' = FALSE
  /\ closed' = FALSE
  /\ awaited' = {}
  /\ disposeDone' = FALSE
  /\ pc' = [k \in Runs |-> "idle"]
  /\ options' = [k \in Runs |-> None]
  /\ record' = [k \in Runs |-> NoRecord]
  /\ index' = [k \in Runs |-> 0]
  /\ child' = [k \in Runs |-> NoChild]
  /\ judged' = [k \in Runs |-> 0]
  /\ returned' = [k \in Runs |-> None]
  /\ deletion' = NoDeletion
  /\ UNCHANGED <<draining, expired>>
-----------------------------------------------------------------------------
(* The steps a call takes by itself, once it was admitted or cancelled. *)
CallStep(k) ==
  \/ Ready(k) \/ Lookup(k) \/ LoadSubject(k)
  \/ SaveOk(k) \/ SaveFails(k)
  \/ Service(k) \/ RoundHead(k) \/ Launch(k)
  \/ StartReturns(k) \/ StartFails(k)
  \/ ResultSettles(k) \/ DisposalSettles(k)
  \/ FailOver(k) \/ TakeResult(k) \/ ResultThrows(k)
  \/ TakeCompaction(k) \/ CompactionReturns(k)
  \/ DisposedMoved(k) \/ DisposedRound(k) \/ DisposalThrows(k)
  \/ Finish(k) \/ Cleanup(k)

Next ==
  \/ \E k \in Runs, o \in Options, queue \in BOOLEAN : Delegate(k, o, queue)
  \/ \E k \in Runs : CallStep(k) \/ ScopeAborts(k)
  \/ \E k \in Runs, force \in Forces : Forget(k, force)
  \/ ForgetCheck \/ ForgetRemove
  \/ \E r \in Perishable : Expire(r)
  \/ Drain \/ DisposeDispatcher \/ DisposalResolves
  \/ Crash

DispatchSpec == Init /\ [][Next]_vars

(* Every await of a call settles in the end: the store's operations, the start,
   the result and the disposal of the native child (the host's promise), and the
   lease.  Fairness is strong because the iterations of another call's drain
   disable a step from time to time.  Nothing obliges a caller to call, to abort
   or to dispose, nor the process to crash. *)
FairDispatch ==
  /\ DispatchSpec
  /\ \A k \in Runs : SF_vars(CallStep(k))
  /\ WF_vars(Drain)
  /\ WF_vars(ForgetCheck \/ ForgetRemove)
  /\ WF_vars(DisposalResolves)
-----------------------------------------------------------------------------
Labels ==
  {"idle", "ready", "lookup", "subject", "service", "head", "launch", "starting", "result",
   "disposeRound", "disposeMoved", "finish", "cleanup"} \cup SavePoints
DispatchTypeOK ==
  /\ TypeOK
  /\ pc \in [Runs -> Labels]
  /\ options \in [Runs -> Options \cup {None}]
  /\ record \in [Runs -> Records \cup {NoRecord}]
  /\ index \in [Runs -> 0 .. MaxRounds - 1]
  /\ child \in [Runs -> Children \cup {NoChild}]
  /\ judged \in [Runs -> Nat]
  /\ returned \in [Runs -> RecordStates \cup {None, "REFUSED", "PERSISTENCE_FAILED"}]
  /\ deletion \in [step : {"check", "remove"}, run : Runs, force : Forces] \cup {NoDeletion}
  /\ disk \in [Runs -> Seq(Records \cup {Torn})]
  /\ damaged \in SUBSET Runs
  /\ expired \in SUBSET Routes
  /\ started \in [Runs -> Nat]
  /\ crashes \in 0 .. MaxCrashes

Starts(k) == started'[k] > started[k]

(* Write-ahead commitment: a child was started only under a round already saved in
   its record, whatever failed or crashed since.  The record is what refuses a
   second dispatch of the same id, and it does so even when a removal of it failed. *)
Committed(k) ==
  started[k] > 0 =>
    /\ disk[k] # <<>>
    /\ Readable(k) /\ k \notin damaged => Latest(k).rounds >= started[k]

(* Nothing is replayed: each child is the next one of the only call that ever got
   past the record of its id, across crashes, and the one before it is settled. *)
NeverReplayed == [][\A k \in Runs : Starts(k) =>
                      started'[k] = record[k].rounds /\ ~Live(k)]_vars

(* A slot stays occupied from the start of a child until its result and its disposal
   have settled, also after an abort, a failed save or the disposal of the owner. *)
SlotHeldByChild ==
  \A k \in Runs : pc[k] = "starting" \/ Live(k) => leases[k] = "active"

(* A child that may write is never repeated, by a continuation or by a failover;
   a read-only assignment takes its rounds and one more child per alternate, and a
   compaction takes one child.  Every revision says so: one of them is the latest again
   after a removal that failed. *)
Saved(k) == ToSet(disk[k]) \ {Torn}
Budget(saved) == IF saved.write \/ saved.compact THEN 1 ELSE MaxRounds + Standby
WithinBudget(k) == \A saved \in Saved(k) : started[k] <= Budget(saved)

(* A child starts under evidence of its own route that has not expired, in a scope
   that has not aborted, and never once the dispatcher is disposed. *)
LaunchAuthorized == [][\A k \in Runs : Starts(k) =>
                         /\ record[k].evidence = record[k].route
                         /\ record[k].route \notin expired
                         /\ k \notin aborted
                         /\ ~closed]_vars

(* What a call returned is what its record says, finished, unless it said that
   persistence failed or refused the call: a compaction that was said to apply is never
   withdrawn. *)
ReturnStands(k) ==
  /\ returned[k] \notin {None, "REFUSED", "PERSISTENCE_FAILED"}
  /\ Readable(k)
  /\ k \notin damaged
  => Latest(k).state = returned[k] /\ Latest(k).finished

(* A finished record is never rewritten: no revision follows the one that says so, but
   the one that withdraws a compaction, before its call returns. *)
FinishedIsFinal ==
  [][\A k \in Runs : Readable(k) /\ Latest(k).finished /\ Len(disk'[k]) > Len(disk[k]) =>
       /\ Latest(k).compact
       /\ pc[k] = "failSave"
       /\ record[k].state = "INTERRUPTED_UNKNOWN"]_vars

(* A call holds its lease from its reservation to its last step, and a child its parent's
   slot; a disposed dispatcher has aborted every call it still waits for. *)
WithChild ==
  {"childSave", "result", "resultSave", "movedSave", "disposeRound", "disposeMoved",
   "failSave", "cleanup"}
LeasesStand ==
  /\ \A k \in Runs :
       /\ pc[k] = "idle" <=> leases[k] = "absent"
       /\ leases[k] = "pending" => pc[k] = "ready"
       /\ leases[k] = "cancelled" => pc[k] \in {"ready", "cleanup"}
       /\ child[k] # NoChild => leases[k] = "active" /\ pc[k] \in WithChild
       /\ closed /\ leases[k] # "absent" => k \in aborted
  /\ deleting <=> deletion # NoDeletion

(* The record in memory is the one of the call: its task, its route with the evidence of
   that route, a subject that is there, and finished at its last save only. *)
RecordStands(k) ==
  /\ record[k] \in Records
  /\ record[k].subject = options[k].subject /\ record[k].write = options[k].write
  /\ record[k].compact = options[k].compact
  /\ record[k].evidence = record[k].route
  /\ record[k].subject \in Runs => disk[record[k].subject] # <<>>
  /\ record[k].finished =>
       pc[k] \in {"finalSave", "failSave"}
         \cup (IF record[k].compact THEN {"resultSave", "disposeRound"} ELSE {})
  /\ pc[k] \in {"finalSave", "failSave"} => record[k].finished
  /\ pc[k] \in {"resultSave", "disposeRound"} /\ record[k].compact => record[k].finished
  /\ pc[k] = "failSave" => record[k].state = "INTERRUPTED_UNKNOWN"

(* Rounds committed and children started, by the place the call stands at: every child but
   the first is one more round or one more route. *)
RoundStands(k) ==
  LET before == index[k] + record[k].route
      rounds == record[k].rounds
      alone == record[k].write \/ record[k].compact
  IN /\ started[k] <= rounds /\ started[k] <= Budget(record[k])
     /\ pc[k] \in {"planSave", "service", "head"} =>
          rounds = started[k] /\ started[k] = before /\ (alone => before = 0)
     /\ pc[k] \in {"roundSave", "launch"} =>
          rounds = started[k] + 1 /\ started[k] = before /\ (alone => before = 0)
     /\ pc[k] \in {"starting", "childSave", "result", "resultSave", "disposeRound"} =>
          rounds = started[k] /\ started[k] = before + 1 /\ (alone => before = 0)
     /\ pc[k] \in {"movedSave", "disposeMoved"} =>
          rounds = started[k] /\ started[k] = before /\ ~alone

(* What a call has saved so far is whole, is its own, and covers what it has started; it
   is finished only where a compaction is. *)
SavedStands(k) ==
  /\ k \notin damaged /\ Torn \notin ToSet(disk[k])
  /\ disk[k] = <<>> <=> pc[k] = "planSave"
  /\ \A saved \in Saved(k) :
       saved.subject = record[k].subject /\ saved.write = record[k].write
         /\ saved.compact = record[k].compact
  /\ pc[k] # "planSave" =>
       /\ Latest(k).rounds >= started[k]
       /\ Latest(k).finished => Latest(k).compact /\ pc[k] \in {"disposeRound", "failSave"}
  /\ pc[k] = "launch" => Latest(k).rounds = record[k].rounds
  /\ pc[k] = "disposeRound" => Latest(k) = record[k]

Recorded(k) == pc[k] \notin {"idle", "ready", "lookup", "subject", "cleanup"}
CallStands(k) ==
  /\ pc[k] # "idle" => options[k] \in Options
  /\ pc[k] \notin {"idle", "cleanup"} => returned[k] = None
  /\ pc[k] \in {"ready", "lookup", "subject"} => index[k] = 0
  /\ pc[k] = "subject" => disk[k] = <<>>
  /\ Recorded(k) => RecordStands(k) /\ RoundStands(k) /\ SavedStands(k)

(* The revisions of a record are of one task, and only a record that is there is damaged. *)
OneTask(k) ==
  /\ \A one, other \in Saved(k) : one.subject = other.subject
  /\ k \in damaged => disk[k] # <<>>

(* All that holds of one assignment, and of the deletion under way: it was allowed. *)
AssignmentStands(k) == CallStands(k) /\ OneTask(k) /\ Committed(k) /\ WithinBudget(k) /\ ReturnStands(k)
DeletionStands == deletion.step = "remove" => Forgettable(deletion.run, deletion.force)

(* The leases, the calls, their records and their children agree, whatever failed: no child
   without its commitment, none beyond the budget, no answer without a record.  This is the
   invariant of the proofs. *)
RunInv ==
  /\ IInv /\ DispatchTypeOK /\ LeasesStand
  /\ \A k \in Runs : AssignmentStands(k)
  /\ DeletionStands

(* When the disposal of the dispatcher resolves, no call, child or deletion is left. *)
DisposeDrained ==
  disposeDone =>
    /\ \A k \in Runs : pc[k] = "idle" /\ child[k] = NoChild
    /\ deletion = NoDeletion

(* No child is without an owner, up to the disposal of the dispatcher. *)
ChildrenOwned == SlotHeldByChild /\ DisposeDrained

(* No saved review, finished or not, points at a deleted run unless a deletion was
   forced: the check and the removal of forget exclude every call in between.  It holds of
   every revision, also of those that a removal which failed leaves behind. *)
NoDanglingReview ==
  TRUE \notin Forces =>
    \A k \in Runs : \A saved \in Saved(k) : saved.subject \in Runs => disk[saved.subject] # <<>>

(* "Refusing an unknown or unfinished subject keeps a review from judging output
   that does not exist or is still being written": while a review is under way, the
   answer it judges is the whole answer of its subject. *)
ReviewJudgesFinalText ==
  \A k \in Runs : judged[k] > 0 /\ pc[k] \notin {"idle", "cleanup"} =>
    LET s == options[k].subject IN Readable(s) => Latest(s).parts = judged[k]

(* The records on disk behave as the log of revisions that RecordStore implements. *)
DiskLog == INSTANCE RecordLog WITH Keys <- Runs, log <- disk
SavedLog == DiskLog!Spec

(* A record only grows, by one revision at a time, and ends with the one that finishes it. *)
RecordsGrow == SavedLog /\ FinishedIsFinal

(* Every call returns and gives its lease back. *)
CallsReturn == \A k \in Runs : pc[k] # "idle" ~> pc[k] = "idle"
=============================================================================
