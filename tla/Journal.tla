------------------------------- MODULE Journal -------------------------------
(***************************************************************************)
(* createJournal of src/src/journal.mjs: the saved states of direct tasks. *)
(* A task is a directory of numbered revision files, each created          *)
(* exclusively, written and synced, and read back only as a whole chain    *)
(* that obeys the table of transitions.  Every journal serialises its own  *)
(* operations per task; an engine that was disposed and the one that       *)
(* replaced it have a journal each over the same files.                    *)
(*                                                                         *)
(* A record is abstracted to the request it belongs to (its hash), the     *)
(* task's status, how many rounds it has and the status of the last one:   *)
(* the rounds before that are COMPLETED in every record that is accepted.  *)
(***************************************************************************)
EXTENDS Naturals, Sequences, FiniteSets

CONSTANTS
  Engines,      \* the engines of one owner, one after the other
  Tasks,        \* task ids
  MaxRounds,    \* rounds a task may take (1..8 in the code)
  MaxRevisions, \* highest revision number (1024 in the code)
  MaxPlans,     \* bound on plans, each of which is a request of its own
  MaxFaults     \* bound on failing file operations and crashes

ASSUME JournalAssumption ==
  /\ MaxRounds \in Nat \ {0} /\ MaxRevisions \in Nat \ {0}
  /\ MaxPlans \in Nat /\ MaxFaults \in Nat

VARIABLES
  dirs,     \* tasks that have a directory, perhaps an empty one
  files,    \* per task and revision number the file's content, or Missing
  jobs,     \* per engine and task the operations asked for, oldest first
  stage,    \* how far the oldest of them has come
  faults    \* number of failed operations and crashes so far

journalVars == <<dirs, files, jobs, stage, faults>>

Statuses ==
  {"PLANNED", "ATTEMPT_COMMITTED", "RUNNING", "CONTINUATION_READY", "COMPLETED",
   "PARTIAL_LIMIT", "NO_PROGRESS", "INTERRUPTED_UNCERTAIN"}
RoundStatuses == {"ATTEMPT_COMMITTED", "RUNNING", "COMPLETED", "INTERRUPTED_UNCERTAIN"}

Records ==
  [id : 1 .. MaxPlans, status : Statuses, rounds : 0 .. MaxRounds,
   last : RoundStatuses \cup {"none"}]

NoRecord == [status |-> "none"]
Corrupt == [status |-> "corrupt"]
Missing == [status |-> "missing"]
Torn == [status |-> "torn"]

JournalInit ==
  /\ dirs = {}
  /\ files = [t \in Tasks |-> [n \in 1 .. MaxRevisions |-> Missing]]
  /\ jobs = [e \in Engines |-> [t \in Tasks |-> <<>>]]
  /\ stage = [e \in Engines |-> [t \in Tasks |-> "start"]]
  /\ faults = 0
-----------------------------------------------------------------------------
(* normalizeRecord(): which records are one at all. *)
Normal(r) ==
  /\ (r.rounds = 0) = (r.last = "none")
  /\ r.status = "PLANNED" => r.rounds = 0
  /\ r.status \in {"ATTEMPT_COMMITTED", "RUNNING", "INTERRUPTED_UNCERTAIN"} => r.last = r.status
  /\ r.status = "CONTINUATION_READY" => r.last = "COMPLETED" /\ r.rounds < MaxRounds
  /\ r.status \in {"COMPLETED", "NO_PROGRESS"} => r.last = "COMPLETED"

(* validateTransition(): the table of task states, and how the last round goes on. *)
Successors ==
  [PLANNED |-> {"ATTEMPT_COMMITTED", "PARTIAL_LIMIT"},
   ATTEMPT_COMMITTED |-> {"RUNNING", "INTERRUPTED_UNCERTAIN"},
   RUNNING |-> {"RUNNING", "CONTINUATION_READY", "COMPLETED", "PARTIAL_LIMIT",
                "NO_PROGRESS", "INTERRUPTED_UNCERTAIN"},
   CONTINUATION_READY |-> {"ATTEMPT_COMMITTED", "PARTIAL_LIMIT"},
   COMPLETED |-> {}, PARTIAL_LIMIT |-> {}, NO_PROGRESS |-> {}, INTERRUPTED_UNCERTAIN |-> {}]

RoundSuccessors ==
  [none |-> {"none"},
   ATTEMPT_COMMITTED |-> {"RUNNING", "INTERRUPTED_UNCERTAIN"},
   RUNNING |-> {"RUNNING", "COMPLETED", "INTERRUPTED_UNCERTAIN"},
   COMPLETED |-> {"COMPLETED"},
   INTERRUPTED_UNCERTAIN |-> {"RUNNING", "COMPLETED", "INTERRUPTED_UNCERTAIN"}]

Follows(old, new) ==
  /\ new.id = old.id
  /\ new.status \in Successors[old.status]
  /\ IF new.status = "ATTEMPT_COMMITTED"
     THEN new.rounds = old.rounds + 1 /\ old.last \in {"none", "COMPLETED"}
     ELSE new.rounds = old.rounds /\ new.last \in RoundSuccessors[old.last]

Initial(r) == r.status = "PLANNED" /\ r.rounds = 0

(* latest(): the files of a task as a chain of revisions, or a refusal. *)
Names(t) == {n \in 1 .. MaxRevisions : files[t][n] # Missing}
Revision(t) == Cardinality(Names(t))
Chained(t) ==
  /\ Names(t) = 1 .. Revision(t)
  /\ \A n \in Names(t) : files[t][n] \in Records /\ Normal(files[t][n])
  /\ Initial(files[t][1])
  /\ \A n \in Names(t) \ {1} : Follows(files[t][n - 1], files[t][n])
Latest(t) ==
  CASE t \notin dirs \/ Names(t) = {} -> NoRecord
    [] t \in dirs /\ Names(t) # {} /\ Chained(t) -> files[t][Revision(t)]
    [] OTHER -> Corrupt
Saved(t) == Latest(t) \in Records
-----------------------------------------------------------------------------
LoadFor(who) == [op |-> "load", by |-> who]
Save(record, expected) == [op |-> "save", by |-> "main", record |-> record, expected |-> expected]
Remove == [op |-> "remove", by |-> "forget"]

Current(e, t) == Head(jobs[e][t])
Doing(e, t, op, who, at) ==
  /\ jobs[e][t] # <<>>
  /\ Current(e, t).op = op
  /\ Current(e, t).by = who
  /\ stage[e][t] = at
Removing(t) == \E e \in Engines : stage[e][t] = "rm"

Ask(e, t, job) ==
  /\ jobs' = [jobs EXCEPT ![e][t] = Append(@, job)]
  /\ UNCHANGED stage

(* The oldest operation settles, and what awaited it asks for more. *)
SettleJob(e, t, more) ==
  /\ jobs' = [jobs EXCEPT ![e][t] = Tail(@) \o more]
  /\ stage' = [stage EXCEPT ![e][t] = "start"]

Advance(e, t, at) == stage' = [stage EXCEPT ![e][t] = at] /\ UNCHANGED <<jobs, faults>>

(* save(): the directory is made, the caller must know the latest revision, and the
   record must follow it. *)
Accepts(t, record, expected) ==
  /\ expected < MaxRevisions
  /\ Normal(record)
  /\ IF expected = 0
     THEN Latest(t) = NoRecord /\ Initial(record)
     ELSE Saved(t) /\ Revision(t) = expected /\ Follows(Latest(t), record)

SaveCheck(e, t) ==
  /\ Doing(e, t, "save", "main", "start")
  /\ Accepts(t, Current(e, t).record, Current(e, t).expected)
  /\ dirs' = dirs \cup {t}
  /\ Advance(e, t, "create")
  /\ UNCHANGED files

Creatable(e, t) == t \in dirs /\ files[t][Current(e, t).expected + 1] = Missing

SaveCreate(e, t) ==
  /\ Doing(e, t, "save", "main", "create")
  /\ Creatable(e, t)
  /\ files' = [files EXCEPT ![t][Current(e, t).expected + 1] = Torn]
  /\ Advance(e, t, "write")
  /\ UNCHANGED dirs

(* The file's content once it is written: one that was removed meanwhile stays so. *)
Written(e, t) ==
  LET n == Current(e, t).expected + 1 IN
    IF files[t][n] = Torn THEN [files EXCEPT ![t][n] = Current(e, t).record] ELSE files

SaveSettles(e, t) ==
  /\ Doing(e, t, "save", "main", "write")
  /\ files' = Written(e, t)
  /\ UNCHANGED <<dirs, faults>>

(* It fails because it is refused, because somebody else made the file or removed the
   directory, or because the file system fails, before, in or after the write. *)
SaveFails(e, t) ==
  /\ \/ /\ Doing(e, t, "save", "main", "start")
        /\ ~Accepts(t, Current(e, t).record, Current(e, t).expected)
        /\ dirs' = IF Normal(Current(e, t).record) THEN dirs \cup {t} ELSE dirs
        /\ UNCHANGED <<files, faults>>
     \/ /\ Doing(e, t, "save", "main", "create")
        /\ ~Creatable(e, t)
        /\ UNCHANGED <<dirs, files, faults>>
     \/ /\ \E at \in {"start", "create", "write"} : Doing(e, t, "save", "main", at)
        /\ faults < MaxFaults
        /\ faults' = faults + 1
        /\ files' \in IF stage[e][t] = "write" THEN {files, Written(e, t)} ELSE {files}
        /\ UNCHANGED dirs

(* remove(): fs.rm takes the files away in any order, then the directory. *)
RemoveBegin(e, t) ==
  /\ Doing(e, t, "remove", "forget", "start")
  /\ t \in dirs
  /\ Advance(e, t, "rm")
  /\ UNCHANGED <<dirs, files>>

RemoveFile(e, t) ==
  /\ Doing(e, t, "remove", "forget", "rm")
  /\ \E n \in Names(t) : files' = [files EXCEPT ![t][n] = Missing]
  /\ UNCHANGED <<dirs, jobs, stage, faults>>

Fault(e, t) ==
  /\ jobs[e][t] # <<>>
  /\ faults < MaxFaults
  /\ faults' = faults + 1
  /\ UNCHANGED <<dirs, files>>

(* The steps of a journal between those that settle an operation. *)
JournalStep(e, t) ==
  \/ SaveCheck(e, t) \/ SaveCreate(e, t)
  \/ RemoveBegin(e, t) \/ RemoveFile(e, t)

(* The process dies: an operation leaves the files as it had brought them, and the
   last write has reached its file or not. *)
FileOutcomes(t) ==
  {files[t]} \cup {Written(e, t)[t] : e \in {d \in Engines : stage[d][t] = "write"}}

JournalCrash ==
  /\ \E outcome \in [Tasks -> UNION {FileOutcomes(t) : t \in Tasks}] :
       /\ \A t \in Tasks : outcome[t] \in FileOutcomes(t)
       /\ files' = outcome
  /\ jobs' = [e \in Engines |-> [t \in Tasks |-> <<>>]]
  /\ stage' = [e \in Engines |-> [t \in Tasks |-> "start"]]
  /\ UNCHANGED dirs
  /\ faults' = faults + 1
=============================================================================
