----------------------------- MODULE TaskEngine -----------------------------
(***************************************************************************)
(* createTaskEngine of src/src/engine.mjs over the journal: direct tasks   *)
(* that call a model provider round by round.  The teardown of the plugin  *)
(* disposes an engine without waiting for its runs, and the next one of    *)
(* the same owner opens the same files, so the model has several engines,  *)
(* one open at a time.                                                     *)
(*                                                                         *)
(* Every "await" of plan, run, read and forget is a program point or a job *)
(* of the journal, and an action is the code from one to the next.  The    *)
(* text of the answers is left out: "progress", "stop" and "max-tokens"    *)
(* are how a stream ends.                                                  *)
(*                                                                         *)
(* Where two operators with the same parameters follow each other, the     *)
(* first is a plausible mistake in the second: it is in no behaviour of    *)
(* this specification, and shows that a property would notice it.          *)
(***************************************************************************)
EXTENDS Journal

CONSTANTS
  Capacity,        \* tasks an engine keeps loaded (64 in the code)
  MaxCheckpoints   \* bound on checkpoints of a round

ASSUME EngineAssumption ==
  /\ Capacity \in Nat \ {0} /\ MaxCheckpoints \in Nat
  /\ MaxRevisions >= 2 + (3 + MaxCheckpoints) * MaxRounds

VARIABLES
  life,      \* "new", "open" or "disposed" per engine
  kept,      \* the tasks in the map of loaded records
  memory,    \* the record object in that map, or the one a run works on
  pc,        \* where plan or run of a task stands; busy unless "idle"
  signal,    \* the signal of the run's caller has aborted
  stopped,   \* the controller of the round has aborted
  plans,     \* number of requests planned so far
  called,    \* history: requests and rounds for which the provider was called
  damaged,   \* history: tasks of which a removal failed half way, or went on after
             \* its engine was disposed
  disturbed  \* history: tasks on which a file operation failed, a removal began, or
             \* an engine worked while another still did

engineVars == <<life, kept, memory, pc, signal, stopped>>
historyVars == <<plans, called, damaged, disturbed>>
vars == <<journalVars, engineVars, historyVars>>

Safe == {"PLANNED", "CONTINUATION_READY"}

(* A record in memory knows its revision, and whether saving it has failed. *)
Loaded(r, n) == [record |-> r, revision |-> n, failed |-> FALSE]
Unloaded == [record |-> NoRecord, revision |-> 0, failed |-> FALSE]

RoundPoints ==
  {"commit", "prepare", "running", "call", "stream", "checkpoint", "settle", "catch"}
SavePoints == {"planSave", "recover", "limit", "commit", "running", "checkpoint", "settle", "catch"}
Points == {"idle", "planLoad", "load", "ready", "head", "prepare", "call", "stream"} \cup SavePoints

Init ==
  /\ JournalInit
  /\ life = [e \in Engines |-> "new"]
  /\ kept = [e \in Engines |-> {}]
  /\ memory = [e \in Engines |-> [t \in Tasks |-> Unloaded]]
  /\ pc = [e \in Engines |-> [t \in Tasks |-> "idle"]]
  /\ signal = [e \in Engines |-> [t \in Tasks |-> FALSE]]
  /\ stopped = [e \in Engines |-> [t \in Tasks |-> FALSE]]
  /\ plans = 0
  /\ called = {}
  /\ damaged = {}
  /\ disturbed = {}
-----------------------------------------------------------------------------
Busy(e, t) == pc[e][t] # "idle"
Working(e, t) == Busy(e, t) \/ jobs[e][t] # <<>>
Others(e, t) == \E other \in Engines \ {e} : Working(other, t)
Asked(e, t, who) == \E i \in DOMAIN jobs[e][t] : jobs[e][t][i].by = who

Goto(e, t, point) == pc' = [pc EXCEPT ![e][t] = point]
Disturbed(e, t) == disturbed' = IF Others(e, t) THEN disturbed \cup {t} ELSE disturbed

(* plan or run returns or throws: the task is free again, and a record that is in the
   map no more is gone. *)
Leave(e, t, m) ==
  /\ Goto(e, t, "idle")
  /\ memory' = [memory EXCEPT ![e][t] = IF t \in kept[e] THEN m ELSE Unloaded]
  /\ signal' = [signal EXCEPT ![e][t] = FALSE]
  /\ stopped' = [stopped EXCEPT ![e][t] = FALSE]

SaveJob(m) == Save(m.record, m.revision)

(* The owner opens an engine when it has none. *)
Open(e) ==
  /\ life[e] = "new"
  /\ \A other \in Engines : life[other] # "open"
  /\ life' = [life EXCEPT ![e] = "open"]
  /\ UNCHANGED <<journalVars, kept, memory, pc, signal, stopped, historyVars>>

(* dispose(): no new work, and every round's controller aborts. *)
Dispose(e) ==
  /\ life[e] = "open"
  /\ life' = [life EXCEPT ![e] = "disposed"]
  /\ stopped' = [stopped EXCEPT ![e] = [t \in Tasks |-> pc[e][t] \in RoundPoints]]
  /\ damaged' = damaged \cup {t \in Tasks : stage[e][t] = "rm"}
  /\ UNCHANGED <<journalVars, kept, memory, pc, signal, plans, called, disturbed>>
-----------------------------------------------------------------------------
Room(e) == Cardinality(kept[e]) < Capacity

Planning == {job \in Engines \X Tasks : pc[job[1]][job[2]] = "planLoad"}

(* plan(): the task must be free, unknown to the engine and to the journal. *)
Plan(e, t) ==
  /\ life[e] = "open"
  /\ ~Busy(e, t)
  /\ t \notin kept[e] /\ Room(e)
  /\ plans + Cardinality(Planning) < MaxPlans
  /\ Goto(e, t, "planLoad")
  /\ Ask(e, t, LoadFor("main"))
  /\ Disturbed(e, t)
  /\ UNCHANGED <<dirs, files, faults, life, kept, memory, signal, stopped, plans, called, damaged>>

PlanLoaded(e, t) ==
  /\ Doing(e, t, "load", "main", "start")
  /\ pc[e][t] = "planLoad"
  /\ IF Latest(t) = NoRecord
     THEN LET r == [id |-> plans + 1, status |-> "PLANNED", rounds |-> 0, last |-> "none"] IN
            /\ plans' = plans + 1
            /\ memory' = [memory EXCEPT ![e][t] = Loaded(r, 0)]
            /\ kept' = [kept EXCEPT ![e] = @ \cup {t}]
            /\ SettleJob(e, t, <<SaveJob(Loaded(r, 0))>>)
            /\ Goto(e, t, "planSave")
            /\ UNCHANGED <<signal, stopped>>
     ELSE /\ SettleJob(e, t, <<>>)
          /\ Leave(e, t, memory[e][t])
          /\ UNCHANGED <<plans, kept>>
  /\ UNCHANGED <<dirs, files, faults, life, called, damaged, disturbed>>
-----------------------------------------------------------------------------
(* run(): take the task and its record, from the map or from the journal. *)
Run(e, t) ==
  /\ life[e] = "open"
  /\ ~Busy(e, t)
  /\ IF t \in kept[e]
     THEN Goto(e, t, "ready") /\ UNCHANGED <<jobs, stage>>
     ELSE Room(e) /\ Goto(e, t, "load") /\ Ask(e, t, LoadFor("main"))
  /\ Disturbed(e, t)
  /\ UNCHANGED <<dirs, files, faults, life, kept, memory, signal, stopped, plans, called, damaged>>

RunLoaded(e, t) ==
  /\ Doing(e, t, "load", "main", "start")
  /\ pc[e][t] = "load"
  /\ SettleJob(e, t, <<>>)
  /\ IF Saved(t)
     THEN /\ Goto(e, t, "ready")
          /\ kept' = [kept EXCEPT ![e] = @ \cup {t}]
          /\ memory' = IF t \in kept[e] THEN memory
                       ELSE [memory EXCEPT ![e][t] = Loaded(Latest(t), Revision(t))]
          /\ UNCHANGED <<signal, stopped>>
     ELSE /\ Leave(e, t, memory[e][t])
          /\ UNCHANGED kept
  /\ UNCHANGED <<dirs, files, faults, life, historyVars>>

(* save(): the record in memory changes first, the journal gets it as the next revision. *)
SaveAs(e, t, m, point) ==
  /\ memory' = [memory EXCEPT ![e][t] = m]
  /\ Ask(e, t, SaveJob(m))
  /\ Goto(e, t, point)

Uncertain(m) == [m EXCEPT !.record.status = "INTERRUPTED_UNCERTAIN",
                          !.record.last = "INTERRUPTED_UNCERTAIN"]

(* The record is there.  The caller is checked again; an attempt that was under way
   becomes uncertain, a safe state goes to the loop, any other is only shown. *)
Refused(e, t) == life[e] # "open" \/ signal[e][t] \/ memory[e][t].failed
InFlight == {"ATTEMPT_COMMITTED", "RUNNING"}

Enter(e, t) ==
  /\ pc[e][t] = "ready"
  /\ LET m == memory[e][t] IN
       \/ /\ ~Refused(e, t)
          /\ m.record.status \in InFlight
          /\ SaveAs(e, t, Uncertain(m), "recover")
          /\ UNCHANGED <<signal, stopped>>
       \/ /\ ~Refused(e, t)
          /\ m.record.status \in Safe
          /\ Goto(e, t, "head")
          /\ UNCHANGED <<jobs, stage, memory, signal, stopped>>
       \/ /\ Refused(e, t) \/ m.record.status \notin InFlight \cup Safe
          /\ Leave(e, t, m)
          /\ UNCHANGED <<jobs, stage>>
  /\ UNCHANGED <<dirs, files, faults, life, kept, historyVars>>

(* The head of the loop: a stop returns the safe state; the deadline or a context that
   is too long ends the task; else one more round is committed. *)
Committed(m) == [m EXCEPT !.record.status = "ATTEMPT_COMMITTED", !.record.rounds = @ + 1,
                          !.record.last = "ATTEMPT_COMMITTED"]

LoopHead(e, t) ==
  /\ pc[e][t] = "head"
  /\ LET m == memory[e][t] IN
       \/ /\ life[e] # "open" \/ signal[e][t]
          /\ Leave(e, t, m)
          /\ UNCHANGED <<jobs, stage>>
       \/ /\ life[e] = "open" /\ ~signal[e][t]
          /\ SaveAs(e, t, [m EXCEPT !.record.status = "PARTIAL_LIMIT"], "limit")
          /\ UNCHANGED <<signal, stopped>>
       \/ /\ life[e] = "open" /\ ~signal[e][t]
          /\ m.record.rounds < MaxRounds
          /\ SaveAs(e, t, Committed(m), "commit")
          /\ UNCHANGED <<signal, stopped>>
  /\ UNCHANGED <<dirs, files, faults, life, kept, historyVars>>

(* The catch block: the controller aborts, and the round, which has not settled, is
   saved as uncertain.  (After a failed save nothing more is saved: SaveFailed.) *)
Catch(e, t) ==
  /\ SaveAs(e, t, Uncertain(memory[e][t]), "catch")
  /\ stopped' = [stopped EXCEPT ![e][t] = TRUE]
  /\ UNCHANGED <<dirs, files, faults, life, kept, signal, historyVars>>

(* The attempt is committed: the provider prepares the call.  It may refuse, or answer
   with another configuration. *)
PreparedUnsaved(e, t) ==
  /\ pc[e][t] = "prepare"
  /\ \/ /\ ~stopped[e][t]
        /\ memory' = [memory EXCEPT ![e][t].record.status = "RUNNING", ![e][t].record.last = "RUNNING"]
        /\ Goto(e, t, "call")
        /\ UNCHANGED <<journalVars, life, kept, signal, stopped, historyVars>>
     \/ Catch(e, t)
Prepared(e, t) ==
  /\ pc[e][t] = "prepare"
  /\ \/ /\ ~stopped[e][t]
        /\ SaveAs(e, t, [memory[e][t] EXCEPT !.record.status = "RUNNING", !.record.last = "RUNNING"],
                  "running")
        /\ UNCHANGED <<dirs, files, faults, life, kept, signal, stopped, historyVars>>
     \/ Catch(e, t)

(* The round is saved as running: call the provider. *)
CallUnchecked(e, t) ==
  /\ pc[e][t] = "call"
  /\ called' = called \cup {<<memory[e][t].record.id, memory[e][t].record.rounds>>}
  /\ Goto(e, t, "stream")
  /\ UNCHANGED <<journalVars, life, kept, memory, signal, stopped, plans, damaged, disturbed>>
Call(e, t) ==
  /\ pc[e][t] = "call"
  /\ ~stopped[e][t]
  /\ called' = called \cup {<<memory[e][t].record.id, memory[e][t].record.rounds>>}
  /\ Goto(e, t, "stream")
  /\ UNCHANGED <<journalVars, life, kept, memory, signal, stopped, plans, damaged, disturbed>>

CallStopped(e, t) ==
  /\ pc[e][t] = "call"
  /\ stopped[e][t]
  /\ Catch(e, t)

(* A chunk of text that is long enough is saved. *)
Checkpoint(e, t) ==
  /\ pc[e][t] = "stream"
  /\ ~stopped[e][t]
  /\ memory[e][t].revision < 3 * memory[e][t].record.rounds + MaxCheckpoints
  /\ SaveAs(e, t, memory[e][t], "checkpoint")
  /\ UNCHANGED <<dirs, files, faults, life, kept, signal, stopped, historyVars>>

(* The stream ends with one usage and one finish: the round settles. *)
SettledStatusAlways(r, finish) ==
  CASE finish = "repeated" -> "NO_PROGRESS"
    [] finish = "stop" -> "COMPLETED"
    [] finish = "max-tokens" -> "CONTINUATION_READY"
SettledStatus(r, finish) ==
  CASE finish = "repeated" -> "NO_PROGRESS"
    [] finish = "stop" -> "COMPLETED"
    [] finish = "max-tokens" /\ r.rounds >= MaxRounds -> "PARTIAL_LIMIT"
    [] finish = "max-tokens" /\ r.rounds < MaxRounds -> "CONTINUATION_READY"

StreamEnds(e, t) ==
  /\ pc[e][t] = "stream"
  /\ ~stopped[e][t]
  /\ \E finish \in {"repeated", "stop", "max-tokens"} :
       SaveAs(e, t, [memory[e][t] EXCEPT !.record.last = "COMPLETED",
                       !.record.status = SettledStatus(memory[e][t].record, finish)], "settle")
  /\ UNCHANGED <<dirs, files, faults, life, kept, signal, stopped, historyVars>>

(* It throws, it ends in another way, or the controller has aborted. *)
StreamFails(e, t) ==
  /\ pc[e][t] = "stream"
  /\ Catch(e, t)
-----------------------------------------------------------------------------
(* A save of plan or run settles. *)
Advanced(m) == [m EXCEPT !.revision = @ + 1]
AfterSave == [commit |-> "prepare", running |-> "call", checkpoint |-> "stream"]

SaveDone(e, t) ==
  /\ SaveSettles(e, t)
  /\ SettleJob(e, t, <<>>)
  /\ LET m == Advanced(memory[e][t]) IN
       IF pc[e][t] \in DOMAIN AfterSave
       THEN /\ Goto(e, t, AfterSave[pc[e][t]])
            /\ memory' = [memory EXCEPT ![e][t] = m]
            /\ UNCHANGED <<signal, stopped>>
       ELSE IF pc[e][t] = "settle" /\ m.record.status \in Safe
       THEN /\ Goto(e, t, "head")
            /\ memory' = [memory EXCEPT ![e][t] = m]
            /\ stopped' = [stopped EXCEPT ![e][t] = FALSE]
            /\ UNCHANGED signal
       ELSE Leave(e, t, m)
  /\ UNCHANGED <<life, kept, historyVars>>

(* A failed save is final for the record in memory: within a round the catch block
   makes it uncertain and saves nothing, elsewhere the call throws. *)
FailedSave(e, t) ==
  LET m == [memory[e][t] EXCEPT !.failed = TRUE] IN
    IF pc[e][t] \in {"commit", "running", "checkpoint", "settle"}
    THEN [m EXCEPT !.record.status = "INTERRUPTED_UNCERTAIN",
                   !.record.last = IF @ = "COMPLETED" THEN @ ELSE "INTERRUPTED_UNCERTAIN"]
    ELSE m

SaveFailedStaysBusy(e, t) ==
  /\ SaveFails(e, t)
  /\ SettleJob(e, t, <<>>)
  /\ memory' = [memory EXCEPT ![e][t] = FailedSave(e, t)]
  /\ disturbed' = IF faults' > faults THEN disturbed \cup {t} ELSE disturbed
  /\ UNCHANGED <<life, kept, pc, signal, stopped, plans, called, damaged>>
SaveFailed(e, t) ==
  /\ SaveFails(e, t)
  /\ SettleJob(e, t, <<>>)
  /\ Leave(e, t, FailedSave(e, t))
  /\ disturbed' = IF faults' > faults THEN disturbed \cup {t} ELSE disturbed
  /\ UNCHANGED <<life, kept, plans, called, damaged>>

(* A load fails when the file system does: plan and run throw, a read does too. *)
LoadFails(e, t) ==
  /\ \E who \in {"main", "read"} : Doing(e, t, "load", who, "start")
  /\ Fault(e, t)
  /\ SettleJob(e, t, <<>>)
  /\ IF Current(e, t).by = "main"
     THEN Leave(e, t, memory[e][t]) ELSE UNCHANGED <<memory, pc, signal, stopped>>
  /\ UNCHANGED <<life, kept, plans, called, damaged, disturbed>>
-----------------------------------------------------------------------------
(* read(): show the record in the map, or load it, also beside a run. *)
Read(e, t) ==
  /\ life[e] = "open"
  /\ t \notin kept[e] /\ Room(e)
  /\ ~Asked(e, t, "read")
  /\ Ask(e, t, LoadFor("read"))
  /\ Disturbed(e, t)
  /\ UNCHANGED <<dirs, files, faults, engineVars, plans, called, damaged>>

ReadLoaded(e, t) ==
  /\ Doing(e, t, "load", "read", "start")
  /\ SettleJob(e, t, <<>>)
  /\ IF Saved(t) /\ t \notin kept[e]
     THEN /\ kept' = [kept EXCEPT ![e] = @ \cup {t}]
          /\ memory' = [memory EXCEPT ![e][t] = Loaded(Latest(t), Revision(t))]
     ELSE UNCHANGED <<kept, memory>>
  /\ UNCHANGED <<dirs, files, faults, life, pc, signal, stopped, historyVars>>

(* forget(): a busy task is refused; then its files go, and the record in the map. *)
Forget(e, t) ==
  /\ life[e] = "open"
  /\ ~Busy(e, t)
  /\ ~Asked(e, t, "forget")
  /\ Ask(e, t, Remove)
  /\ disturbed' = disturbed \cup {t}
  /\ UNCHANGED <<dirs, files, faults, engineVars, plans, called, damaged>>

(* Without a directory there is nothing to remove: UNKNOWN_TASK. *)
ForgetUnknown(e, t) ==
  /\ Doing(e, t, "remove", "forget", "start")
  /\ t \notin dirs
  /\ SettleJob(e, t, <<>>)
  /\ UNCHANGED <<dirs, files, faults, engineVars, historyVars>>

Forgotten(e, t) ==
  /\ Doing(e, t, "remove", "forget", "rm")
  /\ Names(t) = {}
  /\ dirs' = dirs \ {t}
  /\ SettleJob(e, t, <<>>)
  /\ kept' = [kept EXCEPT ![e] = @ \ {t}]
  /\ memory' = IF Busy(e, t) THEN memory ELSE [memory EXCEPT ![e][t] = Unloaded]
  /\ damaged' = IF life[e] = "disposed" THEN damaged \cup {t} ELSE damaged \ {t}
  /\ UNCHANGED <<files, faults, life, pc, signal, stopped, plans, called, disturbed>>

ForgetFails(e, t) ==
  /\ \E at \in {"start", "rm"} : Doing(e, t, "remove", "forget", at)
  /\ Fault(e, t)
  /\ SettleJob(e, t, <<>>)
  /\ damaged' = IF stage[e][t] = "rm" THEN damaged \cup {t} ELSE damaged
  /\ UNCHANGED <<engineVars, plans, called, disturbed>>
-----------------------------------------------------------------------------
(* The caller's signal aborts, and with it the controller of the round. *)
Abort(e, t) ==
  /\ Busy(e, t)
  /\ pc[e][t] \notin {"planLoad", "planSave"}
  /\ ~signal[e][t]
  /\ signal' = [signal EXCEPT ![e][t] = TRUE]
  /\ stopped' = [stopped EXCEPT ![e][t] = @ \/ pc[e][t] \in RoundPoints]
  /\ UNCHANGED <<journalVars, life, kept, memory, pc, historyVars>>

(* The timer of the task's deadline aborts the controller. *)
Deadline(e, t) ==
  /\ pc[e][t] \in RoundPoints
  /\ ~stopped[e][t]
  /\ stopped' = [stopped EXCEPT ![e][t] = TRUE]
  /\ UNCHANGED <<journalVars, life, kept, memory, pc, signal, historyVars>>

Crash ==
  /\ faults < MaxFaults
  /\ JournalCrash
  /\ damaged' = damaged \cup {t \in Tasks : Removing(t)}
  /\ disturbed' = disturbed \cup {t \in Tasks : \E e \in Engines : stage[e][t] # "start"}
  /\ life' = [e \in Engines |-> "new"]
  /\ kept' = [e \in Engines |-> {}]
  /\ memory' = [e \in Engines |-> [t \in Tasks |-> Unloaded]]
  /\ pc' = [e \in Engines |-> [t \in Tasks |-> "idle"]]
  /\ signal' = [e \in Engines |-> [t \in Tasks |-> FALSE]]
  /\ stopped' = [e \in Engines |-> [t \in Tasks |-> FALSE]]
  /\ UNCHANGED <<plans, called>>
-----------------------------------------------------------------------------
JournalGoesOn(e, t) ==
  /\ JournalStep(e, t)
  /\ damaged' = IF stage[e][t] = "rm" /\ life[e] = "disposed" THEN damaged \cup {t} ELSE damaged
  /\ UNCHANGED <<engineVars, plans, called, disturbed>>

(* What a call does by itself between two of its saves, and what the journal does. *)
RunStep(e, t) ==
  \/ Enter(e, t) \/ LoopHead(e, t)
  \/ Prepared(e, t) \/ Call(e, t) \/ CallStopped(e, t)
  \/ Checkpoint(e, t) \/ StreamEnds(e, t) \/ StreamFails(e, t)

JobStep(e, t) ==
  \/ PlanLoaded(e, t) \/ RunLoaded(e, t) \/ ReadLoaded(e, t) \/ LoadFails(e, t)
  \/ SaveDone(e, t) \/ SaveFailed(e, t)
  \/ ForgetUnknown(e, t) \/ Forgotten(e, t) \/ ForgetFails(e, t)
  \/ JournalGoesOn(e, t)

Next ==
  \/ \E e \in Engines : Open(e) \/ Dispose(e)
  \/ \E e \in Engines, t \in Tasks :
       \/ Plan(e, t) \/ Run(e, t) \/ Read(e, t) \/ Forget(e, t)
       \/ RunStep(e, t) \/ JobStep(e, t)
       \/ Abort(e, t) \/ Deadline(e, t)
  \/ Crash

Spec == Init /\ [][Next]_vars

(* Calls go on when they can: the journal's file operations answer, the provider
   prepares, and its stream ends or throws (it is aborted at the deadline). *)
FairSpec ==
  /\ Spec
  /\ \A e \in Engines, t \in Tasks : WF_vars(RunStep(e, t)) /\ WF_vars(JobStep(e, t))
-----------------------------------------------------------------------------
JobType ==
  {LoadFor("main"), LoadFor("read"), Remove}
    \cup [op : {"save"}, by : {"main"}, record : Records, expected : 0 .. MaxRevisions]
MemoryType == [record : Records \cup {NoRecord}, revision : 0 .. MaxRevisions, failed : BOOLEAN]
TypeOK ==
  /\ dirs \in SUBSET Tasks
  /\ files \in [Tasks -> [1 .. MaxRevisions -> Records \cup {Missing, Torn}]]
  /\ jobs \in [Engines -> [Tasks -> Seq(JobType)]]
  /\ stage \in [Engines -> [Tasks -> {"start", "create", "write", "rm"}]]
  /\ faults \in 0 .. MaxFaults
  /\ life \in [Engines -> {"new", "open", "disposed"}]
  /\ kept \in [Engines -> SUBSET Tasks]
  /\ memory \in [Engines -> [Tasks -> MemoryType]]
  /\ pc \in [Engines -> [Tasks -> Points]]
  /\ signal \in [Engines -> [Tasks -> BOOLEAN]]
  /\ stopped \in [Engines -> [Tasks -> BOOLEAN]]
  /\ plans \in Nat /\ IsFiniteSet(Planning) /\ plans + Cardinality(Planning) <= MaxPlans
  /\ called \in SUBSET ((1 .. plans) \X (1 .. MaxRounds))
  /\ disturbed \in SUBSET Tasks /\ damaged \in SUBSET disturbed

(* Each asks the journal for one thing at a time: a run for what it awaits, and a deletion
   before the run that it did not find busy, whose first save therefore comes after it. *)
LoadPoints == {"planLoad", "load"}
BesideForget == {"idle", "ready", "head", "recover", "limit", "commit"} \cup LoadPoints
QueueStands(e, t) ==
  LET queue == jobs[e][t] IN
    /\ \A i, j \in DOMAIN queue : queue[i].by = queue[j].by => i = j
    /\ \A i, j \in DOMAIN queue : queue[i].by = "forget" /\ queue[j].by = "main" => i < j
    /\ Asked(e, t, "main") <=> pc[e][t] \in LoadPoints \cup SavePoints
    /\ \A i \in DOMAIN queue : queue[i].by = "main" =>
         queue[i] = IF pc[e][t] \in LoadPoints THEN LoadFor("main") ELSE SaveJob(memory[e][t])
    /\ Asked(e, t, "forget") => t \in disturbed /\ pc[e][t] \in BesideForget
    /\ stage[e][t] \in {"create", "write"} => Doing(e, t, "save", "main", stage[e][t])
    /\ stage[e][t] = "rm" => Doing(e, t, "remove", "forget", "rm")

(* Highest revision of a record in this state. *)
Reaches(r) ==
  CASE r.status = "PLANNED" -> 1
    [] r.status = "ATTEMPT_COMMITTED" -> 3 * r.rounds - 1 + MaxCheckpoints
    [] r.status = "RUNNING" -> 3 * r.rounds + MaxCheckpoints
    [] r.status = "PARTIAL_LIMIT" -> 3 * r.rounds + 2 + MaxCheckpoints
    [] OTHER -> 3 * r.rounds + 1 + MaxCheckpoints

(* The record at each point of plan and run, which a save under way has already changed;
   without a record in the map there is none, unless a deletion took it from a run that has
   saved nothing yet and will be refused. *)
StatusAt(e, t) ==
  LET r == memory[e][t].record
      at == pc[e][t] IN
    /\ at = "planSave" => Initial(r) /\ memory[e][t].revision = 0
    /\ at = "head" => r.status \in Safe
    /\ at \in {"commit", "prepare"} => r.status = "ATTEMPT_COMMITTED"
    /\ at \in {"running", "call", "stream", "checkpoint"} => r.status = "RUNNING"
    /\ at = "catch" => r.status = "INTERRUPTED_UNCERTAIN"
Gone(e, t) ==
  /\ pc[e][t] \in {"ready", "head", "recover", "limit", "commit"}
  /\ memory[e][t].record \in Records
  /\ Names(t) = {} /\ stage[e][t] = "start"
  /\ t \in disturbed /\ ~Asked(e, t, "forget")
RecordStands(e, t) ==
  LET m == memory[e][t]
      at == pc[e][t]
      pending == IF at \in SavePoints THEN 1 ELSE 0 IN
    /\ t \in kept[e] => m.record \in Records
    /\ t \notin kept[e] => at \in LoadPoints \/ (at = "idle" /\ m = Unloaded) \/ Gone(e, t)
    /\ at \notin {"idle", "ready"} \cup LoadPoints => ~m.failed
    /\ m.record \in Records /\ ~m.failed =>
         /\ Normal(m.record)
         /\ m.revision + pending <= Reaches(m.record)
         /\ at # "planSave" => m.revision >= 1
    /\ StatusAt(e, t)

(* The files of a task: a chain, but for a last file that is torn. *)
Whole(t, m) ==
  /\ \A n \in 1 .. m : files[t][n] \in Records /\ Normal(files[t][n])
  /\ m >= 1 => Initial(files[t][1])
  /\ \A n \in 2 .. m : Follows(files[t][n - 1], files[t][n])
FilesStand(t) ==
  /\ t \notin dirs => Names(t) = {}
  /\ \A n \in Names(t) : files[t][n] \in Records => n <= Reaches(files[t][n])
  /\ ~Removing(t) /\ t \notin damaged =>
       /\ Names(t) = 1 .. Revision(t)
       /\ Whole(t, Revision(t)) \/ (Whole(t, Revision(t) - 1) /\ files[t][Revision(t)] = Torn)

(* What is in memory is what is saved, or what is being saved and follows it. *)
Shown(e, t) == Latest(t) = memory[e][t].record /\ Revision(t) = memory[e][t].revision
Follower(e, t) ==
  LET m == memory[e][t] IN
    /\ Names(t) = 1 .. (IF stage[e][t] = "write" THEN m.revision + 1 ELSE m.revision)
    /\ Whole(t, m.revision)
    /\ m.revision = 0 => Initial(m.record)
    /\ m.revision > 0 => Follows(files[t][m.revision], m.record)
    /\ stage[e][t] \in {"create", "write"} => t \in dirs
    /\ stage[e][t] = "write" => files[t][m.revision + 1] = Torn
SavesStand(e, t) ==
  t \in kept[e] /\ ~memory[e][t].failed /\ ~Removing(t) /\ t \notin damaged =>
    IF pc[e][t] \in SavePoints THEN Follower(e, t) ELSE Shown(e, t)

(* A request belongs to one task. *)
Has(t, id) ==
  \/ \E n \in Names(t) : files[t][n] \in Records /\ files[t][n].id = id
  \/ \E e \in Engines : memory[e][t].record \in Records /\ memory[e][t].record.id = id
RequestsStand ==
  \A t \in Tasks, id \in 1 .. MaxPlans : Has(t, id) =>
    /\ id <= plans
    /\ \A other \in Tasks \ {t} : ~Has(other, id)

(* What is saved and what is in memory covers what was called; before the call of a round it
   was not called. *)
Covers(r) == \A k \in 1 .. MaxRounds : <<r.id, k>> \in called => k <= r.rounds
CallsStand(t) ==
  t \notin damaged =>
    /\ ~Removing(t) /\ Saved(t) => Covers(Latest(t))
    /\ \A e \in Engines : t \in kept[e] =>
         /\ Covers(memory[e][t].record)
         /\ pc[e][t] \in {"commit", "prepare", "running", "call"} =>
              <<memory[e][t].record.id, memory[e][t].record.rounds>> \notin called

EngineStands ==
  /\ TypeOK
  /\ \A e \in Engines, t \in Tasks : QueueStands(e, t) /\ RecordStands(e, t) /\ SavesStand(e, t)
  /\ \A t \in Tasks : FilesStand(t) /\ CallsStand(t)
  /\ RequestsStand

Calls(e, t) == pc[e][t] = "call" /\ pc'[e][t] = "stream"

(* The provider is called only for a round that its task has saved as running, as long as no
   engine that was disposed without being waited for still saves the same task. *)
CalledAsSaved ==
  [][\A e \in Engines, t \in Tasks : Calls(e, t) /\ t \notin damaged =>
       /\ Latest(t) = memory[e][t].record
       /\ Latest(t).status = "RUNNING"]_vars

(* No attempt is repeated, across crashes, failed saves, reloads and stops. *)
NeverRepeated ==
  [][\A e \in Engines, t \in Tasks : Calls(e, t) /\ t \notin damaged =>
       <<memory[e][t].record.id, memory[e][t].record.rounds>> \notin called]_vars

(* Nobody calls the provider after it was stopped or its engine disposed, so at most one
   engine calls it for a task. *)
StoppedIsQuiet ==
  [][\A e \in Engines, t \in Tasks : Calls(e, t) =>
       /\ life[e] = "open"
       /\ ~signal[e][t]]_vars

(* The journal never refuses what the engine saves, unless a file operation failed, the
   task was being removed, or the engine was not alone: the engine keeps to the table. *)
KeepsTheTable ==
  \A e \in Engines, t \in Tasks : memory[e][t].failed => t \in disturbed

(* Between calls an engine that follows no other shows of a task what is saved, or that
   saving it failed.  One that follows another may show what that one has since replaced. *)
Settled(e, t) == ~Busy(e, t) /\ memory[e][t] # Unloaded /\ ~memory[e][t].failed
First(e) == life[e] = "open" /\ \A other \in Engines \ {e} : life[other] = "new"
ShowsWhatIsSaved ==
  \A e \in Engines, t \in Tasks :
    Settled(e, t) /\ ~Removing(t) /\ t \notin damaged /\ First(e) =>
      /\ Latest(t) = memory[e][t].record
      /\ Revision(t) = memory[e][t].revision

(* Memory, journal and the table of transitions agree. *)
EngineInv == EngineStands /\ KeepsTheTable /\ ShowsWhatIsSaved

(* The provider is called on the record only: for the round that was saved, and never twice
   for the same. *)
CallsOnRecord == CalledAsSaved /\ NeverRepeated

(* Every call returns. *)
CallsReturn ==
  \A e \in Engines, t \in Tasks : Busy(e, t) ~> ~Busy(e, t)
=============================================================================
