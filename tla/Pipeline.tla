------------------------------ MODULE Pipeline ------------------------------
(* The governed pipeline: the controller of the diagnostic lane
   (src/src/governance/controller.mjs 245-380) over its journal
   (src/src/governance/store.mjs 336-377).  `state` is the controller's memory and
   `journal` the last event on disk.  Operations go through one queue, so that `pc`
   is the await at which the one operation under way stands: the commit of an
   assignment, the start of its child, the child, the commit of its result.  What
   happens beside it are the child's tool calls, and a close at any moment.  A
   process that finds a journal only reads it, so a crash ends the job. *)
EXTENDS GovernedState

CONSTANT Blockers  \* the judges that raise blockers

ASSUME BlockersAssumption == Blockers \subseteq Judges

VARIABLES
  journal,    \* the payload of the journal's last event
  store,      \* "open", "revoked" or "poisoned"
  state,      \* the controller's memory of the job
  commit,     \* the append under way
  stopped, epoch, closing,
  pc,         \* the await of the operation under way
  stage,      \* the assignment it executes
  since,      \* the epoch in which it began
  child,      \* the agent of the stage: its status and its submission
  test,       \* the command that its runner executes, if any
  workspace,  \* "none", "open" to the author, "sealed", or "revoked"
  custody,    \* the candidate that the judges read, 0 if there is none
  finished    \* the author's generation between its end and the seal, 0 otherwise

disk == <<journal, store>>
control == <<stopped, epoch, closing>>
files == <<workspace, custody>>
op == <<stage, since>>
vars == <<journal, store, state, commit, stopped, epoch, closing, pc, stage, since,
          child, test, workspace, custody, finished>>

NoCommit == [step |-> "none"]
NoChild == [status |-> "none"]
NoTest == "none"
Nothing == [pass |-> FALSE, finding |-> "none", cites |-> {}]

(* What a reviewer of the plan or a judge may submit.  One that passes cites the
   evidence that there is when it submits; the citations of the others, and calling
   resolved what is not open, change nothing for anybody. *)
Submissions(role) ==
  {[pass |-> TRUE, finding |-> f, cites |-> {e.of : e \in CurrentEvidence(state)}] :
     f \in {"none"} \cup (IF OpenBlocker(state) THEN {"resolved"} ELSE {})}
    \cup [pass : {FALSE}, cites : {{}},
          finding : {"none"} \cup (IF role \in Blockers THEN {"open"} ELSE {})
                             \cup (IF OpenBlocker(state) THEN {"resolved"} ELSE {})]

Init ==
  /\ journal = NoState /\ store = "open"
  /\ state = NoState /\ commit = NoCommit
  /\ stopped = FALSE /\ epoch = 0 /\ closing = "no"
  /\ pc = "idle" /\ stage = <<"none", 0>> /\ since = 0
  /\ child = NoChild /\ test = NoTest
  /\ workspace = "none" /\ custody = 0
  /\ finished = 0

(* live(): the controller has not stopped since the epoch, its journal is its own. *)
Live(e) == ~stopped /\ epoch = e /\ store = "open"
Revoked == IF workspace = "none" THEN "none" ELSE "revoked"
-----------------------------------------------------------------------------
(* commit(): ask the journal for the next state, append, acknowledge. *)
Ask(type, next, e) == commit' = [step |-> "asked", type |-> type, next |-> next, epoch |-> e]
Step(s) == [s EXCEPT !.revision = @ + 1]

(* append(): the journal accepts what follows its last event ... *)
StoreAppends ==
  /\ commit.step = "asked" /\ store = "open"
  /\ IF Follows(journal, commit.type, commit.next)
     THEN journal' = commit.next /\ commit' = [commit EXCEPT !.step = "written"]
     ELSE UNCHANGED journal /\ commit' = [commit EXCEPT !.step = "refused"]
  /\ UNCHANGED <<store, state, control, pc, op, child, test, files, finished>>

(* ... a failing write poisons it, with or without the event on disk ... *)
StoreFails ==
  /\ commit.step = "asked" /\ store = "open" /\ Follows(journal, commit.type, commit.next)
  /\ journal' \in {journal, commit.next}
  /\ store' = "poisoned"
  /\ commit' = [commit EXCEPT !.step = "failed"]
  /\ UNCHANGED <<state, control, pc, op, child, test, files, finished>>

(* ... and a controller that was stopped in between does not ask it. *)
CommitDropped ==
  /\ commit.step = "asked" /\ ~Live(commit.epoch)
  /\ commit' = [commit EXCEPT !.step = "failed"]
  /\ UNCHANGED <<disk, state, control, pc, op, child, test, files, finished>>

Acknowledged ==
  /\ commit.step = "written" /\ Live(commit.epoch)
  /\ state' = commit.next /\ commit' = NoCommit
\* Mutant: whoever was stopped between the disk and the memory is told nothing.
LostOnDisk == commit.step \in {"refused", "failed"}
Lost ==
  \/ commit.step \in {"refused", "failed"}
  \/ commit.step = "written" /\ ~Live(commit.epoch)
Rejected == Lost /\ commit' = NoCommit /\ UNCHANGED state

Begin(next) == pc = "idle" /\ Live(epoch) /\ pc' = next /\ since' = epoch
-----------------------------------------------------------------------------
Propose ==
  /\ Begin("proposing")
  /\ state = NoState
  /\ Ask("PLAN_PROPOSED", Proposed, epoch)
  /\ UNCHANGED <<disk, state, control, stage, child, test, files, finished>>

(* The human port: the decision on the plan that was reviewed. *)
Decide(decision) ==
  /\ Begin("deciding")
  /\ state.phase = "AWAITING_HUMAN" /\ PlanReviewed(state)
  /\ Ask("HUMAN_DECIDED",
         [Step(state) EXCEPT !.decision = decision,
                             !.phase = IF decision = "authorize" THEN "PLAN_AUTHORIZED" ELSE "STOPPED"], epoch)
  /\ UNCHANGED <<disk, state, control, stage, child, test, files, finished>>

(* Operations that end with their commit, whatever became of it. *)
Committed ==
  /\ pc \in {"proposing", "deciding", "failing"}
  /\ Acknowledged \/ Rejected
  /\ pc' = "idle"
  /\ UNCHANGED <<disk, control, op, child, test, files, finished>>
-----------------------------------------------------------------------------
(* executeStage(): who may start, and under which generation. *)
Accepted == state.decision = "authorize" /\ PlanReviewed(state)
GenerationOf(role) ==
  CASE role = "plan-review" -> 1 [] role = "author" -> state.generation + 1 [] OTHER -> state.generation

StageOpen(role) ==
  CASE role = "plan-review" ->
         state.phase = "PLANNING" /\ <<"plan-review", 1>> \notin state.assignments
    [] role = "author" ->
         Accepted /\ state.phase \in {"PLAN_AUTHORIZED", "CORRECTION_REQUIRED"} /\ BudgetLeft(state)
    [] role \in Judges ->
         /\ custody # 0 /\ state.candidate # 0 /\ Accepted
         /\ state.phase \in {"FROZEN", "VALIDATING", "REVIEWING"}
         /\ <<role, state.generation>> \notin state.assignments

AskAssignment(role, e) ==
  IF role = "author"
  THEN Ask("ATTEMPT_RESERVED",
           [Step(state) EXCEPT !.phase = "AUTHORING", !.generation = @ + 1, !.candidate = 0,
                               !.assignments = @ \cup {<<"author", state.generation + 1>>}], e)
  ELSE Ask("ASSIGNMENT_CREATED",
           [Step(state) EXCEPT !.assignments = @ \cup {<<role, GenerationOf(role)>>},
                               !.phase = CASE role = "validator" -> "VALIDATING"
                                           [] role = "reviewer" -> "REVIEWING"
                                           [] OTHER -> @], e)

(* A fresh attempt first closes the workspace of the last one. *)
BeginStage(role) ==
  /\ state # NoState /\ StageOpen(role)
  /\ stage' = <<role, GenerationOf(role)>>
  /\ IF role = "author" /\ workspace # "none"
     THEN Begin("clearing") /\ workspace' = "revoked" /\ UNCHANGED commit
     ELSE Begin("assigning") /\ AskAssignment(role, epoch) /\ UNCHANGED workspace
  /\ UNCHANGED <<disk, state, control, child, test, custody, finished>>

WorkspaceClosed ==
  /\ pc = "clearing"
  /\ workspace' = "none" /\ custody' = 0
  /\ IF Live(since) THEN pc' = "assigning" /\ AskAssignment("author", since)
                    ELSE pc' = "idle" /\ UNCHANGED commit
  /\ UNCHANGED <<disk, state, control, op, child, test, finished>>
WorkspaceNotClosed ==
  /\ pc = "clearing"
  /\ pc' = "idle"
  /\ UNCHANGED <<disk, state, commit, control, op, child, test, files, finished>>

Assigned ==
  /\ pc = "assigning"
  /\ \/ Acknowledged /\ pc' = "starting"
     \/ Rejected /\ pc' = "idle"
  /\ UNCHANGED <<disk, control, op, child, test, files, finished>>

(* start(): the host has created the actor and calls onActor before it runs. *)
StageStarts ==
  /\ pc = "starting" /\ Live(epoch)
  /\ pc' = "running"
  /\ child' = [status |-> "running", submission |-> Nothing, submitted |-> FALSE]
  /\ workspace' = IF stage[1] = "author" THEN "open" ELSE workspace
  /\ UNCHANGED <<disk, state, commit, control, stage, since, test, custody, finished>>
-----------------------------------------------------------------------------
(* The child's tools: one submission, and commands that the plan names. *)
Submit(submission) ==
  /\ stage[1] # "author" /\ ~child.submitted
  /\ child' = [child EXCEPT !.submission = submission, !.submitted = TRUE]
  /\ UNCHANGED <<disk, state, commit, control, pc, op, test, files, finished>>

RunTest(c) ==
  /\ pc = "running" /\ stage[1] = "validator" /\ test = NoTest /\ Live(epoch)
  /\ \A e \in CurrentEvidence(state) : e.of # c
  /\ test' = c
  /\ UNCHANGED <<disk, state, commit, control, pc, op, child, files, finished>>

TestEnds(passed) ==
  /\ test # NoTest /\ commit = NoCommit /\ Live(since)
  /\ Ask("EVIDENCE_REGISTERED",
         [Step(state) EXCEPT !.evidence = @ \cup {[of |-> test, generation |-> stage[2], passed |-> passed]}], since)
  /\ UNCHANGED <<disk, state, control, pc, op, child, test, files, finished>>

(* The runner fails, or its result comes too late. *)
TestLost ==
  /\ test # NoTest /\ commit = NoCommit
  /\ test' = NoTest
  /\ UNCHANGED <<disk, state, commit, control, pc, op, child, files, finished>>

TestRegistered ==
  /\ test # NoTest
  /\ Acknowledged \/ Rejected
  /\ test' = NoTest
  /\ UNCHANGED <<disk, control, pc, op, child, files, finished>>

(* The host's child ends and is disposed; its tools have returned by then. *)
ChildEnds(reason) ==
  /\ pc = "running" /\ test = NoTest
  /\ pc' = "observing"
  /\ child' = [child EXCEPT !.status = reason]
  /\ UNCHANGED <<disk, state, commit, control, op, test, files, finished>>
-----------------------------------------------------------------------------
(* The catch of executeStage(): unless it was stopped, an author's attempt has
   failed and any other stage stops the job. *)
Catch(made) ==
  /\ child' = NoChild
  /\ IF stopped \/ epoch # since THEN pc' = "idle" /\ commit' = NoCommit /\ workspace' = made
     ELSE /\ workspace' = IF stage[1] = "author" /\ made # "none" THEN "revoked" ELSE made
          /\ IF store # "open" THEN pc' = "idle" /\ commit' = NoCommit
             ELSE /\ pc' = "failing"
                  /\ IF stage[1] = "author"
                     THEN Ask("AUTHOR_FAILED", [Step(state) EXCEPT !.phase = Corrected(state)], since)
                     ELSE Ask("STOPPED", [Step(state) EXCEPT !.phase = "STOPPED"], since)
  /\ UNCHANGED <<disk, state, control, op, test, custody, finished>>

(* The host refuses the ticket or the route, or the setup of the actor fails, maybe
   after its workspace was made. *)
StageNotStarted ==
  pc = "starting" /\ \E made \in {workspace} \cup (IF stage[1] = "author" THEN {"open"} ELSE {}) : Catch(made)
(* The actor changed, evidence is foreign or unreadable, or the controller stopped. *)
ObservationRefused == pc = "observing" /\ Catch(workspace)
VerificationFails == pc = "verifying" /\ Catch(workspace)

Outcome ==
  IF child.status # "completed" THEN "broken"
  ELSE IF child.submitted /\ child.submission.pass THEN "pass" ELSE "fail"
Result ==
  [role |-> stage[1], generation |-> stage[2], outcome |-> Outcome,
   finding |-> child.submission.finding, cites |-> IF Outcome = "pass" THEN child.submission.cites ELSE {}]

(* evaluateJudgment(): the result of an author that has completed waits for the seal. *)
AuthorCompleted ==
  /\ pc = "observing" /\ Live(since) /\ stage[1] = "author" /\ child.status = "completed"
  /\ pc' = "idle" /\ finished' = stage[2] /\ child' = NoChild
  /\ UNCHANGED <<disk, state, commit, control, op, test, files>>

Observed ==
  /\ pc = "observing" /\ Live(since)
  /\ ~(stage[1] = "author" /\ child.status = "completed")
  /\ pc' = "recording"
  /\ Ask("RESULT_RECORDED",
         [Step(state) EXCEPT !.results = @ \cup {Result},
                             !.phase = CASE stage[1] = "plan-review" ->
                                              IF Outcome = "pass" THEN "AWAITING_HUMAN" ELSE "REASSESS_REQUIRED"
                                         [] stage[1] = "author" -> Corrected(state)
                                         [] OTHER -> @], since)
  /\ UNCHANGED <<disk, state, control, op, child, test, files, finished>>

Recorded ==
  /\ pc = "recording" /\ Acknowledged
  /\ child' = NoChild
  /\ workspace' = IF stage[1] = "author" THEN Revoked ELSE workspace
  /\ pc' = IF stage[1] \in Judges /\ Judged(commit.next) THEN "verifying" ELSE "idle"
  /\ UNCHANGED <<disk, control, op, test, custody, finished>>

(* finalizeReadiness(): once both judges have spoken. *)
EvidenceReady == custody # 0 /\ Accepted /\ FactsReady(state)
Verified ==
  /\ pc = "verifying" /\ Live(since)
  /\ pc' = "finalizing"
  /\ IF EvidenceReady THEN Ask("DIAGNOSTIC_READY", [Step(state) EXCEPT !.phase = "DIAGNOSTIC_READY"], since)
                      ELSE Ask("RESULT_RECORDED", [Step(state) EXCEPT !.phase = Corrected(state)], since)
  /\ UNCHANGED <<disk, state, control, op, child, test, files, finished>>

Finalized ==
  /\ pc = "finalizing" /\ Acknowledged
  /\ pc' = "idle"
  /\ IF commit.type = "DIAGNOSTIC_READY" THEN UNCHANGED files ELSE workspace' = Revoked /\ custody' = 0
  /\ UNCHANGED <<disk, control, op, child, test, finished>>

NotCommitted ==
  /\ pc \in {"recording", "finalizing"}
  /\ Lost /\ Catch(workspace)
-----------------------------------------------------------------------------
(* seal(): whatever goes wrong in it, being called too early included, ends the
   controller.  Calling it on one that has stopped is left out: nobody reads what
   it resets. *)
SealOpen == workspace # "none" /\ state.phase = "AUTHORING" /\ finished = state.generation
Panic ==
  /\ stopped' = TRUE /\ epoch' = epoch + 1 /\ UNCHANGED closing
  /\ store' = IF store = "open" THEN "revoked" ELSE store
  /\ workspace' = Revoked /\ custody' = 0 /\ finished' = 0
  /\ pc' = "idle" /\ commit' = NoCommit
  /\ UNCHANGED <<journal, state, op, child, test>>

SealBegins ==
  /\ Begin("freezing")
  /\ SealOpen
  /\ UNCHANGED <<disk, state, commit, control, stage, child, test, files, finished>>
SealTooEarly == pc = "idle" /\ ~stopped /\ ~SealOpen /\ Panic
SealFails ==
  \/ pc = "freezing" /\ Panic
  \/ pc = "sealing" /\ Lost /\ Panic

(* The workspace is frozen and handed over; its author's result goes with it. *)
Freeze ==
  Ask("CANDIDATE_SEALED",
       [Step(state) EXCEPT !.phase = "FROZEN", !.candidate = finished,
                           !.evidence = @ \cup {[of |-> Frozen, generation |-> finished, passed |-> TRUE]},
                           !.results = @ \cup {[role |-> "author", generation |-> finished, outcome |-> "fail",
                                                finding |-> "none", cites |-> {}]}], epoch)

\* Mutant: the author's handle survives the seal.
HandoverOpen ==
  /\ pc = "freezing" /\ Live(epoch) /\ workspace = "open"
  /\ pc' = "sealing"
  /\ custody' = finished /\ UNCHANGED workspace
  /\ Freeze
  /\ UNCHANGED <<disk, state, control, op, child, test, finished>>

Handover ==
  /\ pc = "freezing" /\ Live(epoch) /\ workspace = "open"
  /\ pc' = "sealing"
  /\ workspace' = "sealed" /\ custody' = finished
  /\ Freeze
  /\ UNCHANGED <<disk, state, control, op, child, test, finished>>

Sealed ==
  /\ pc = "sealing" /\ Acknowledged
  /\ pc' = "idle" /\ finished' = 0
  /\ UNCHANGED <<disk, control, op, child, test, files>>
-----------------------------------------------------------------------------
(* close(): stop at once, cancel the child, and let go of the journal when the
   operations have settled. *)
Close ==
  /\ closing = "no"
  /\ closing' = "draining" /\ stopped' = TRUE /\ epoch' = epoch + 1
  /\ workspace' = Revoked
  /\ UNCHANGED <<disk, state, commit, pc, op, child, test, custody, finished>>
Closed ==
  /\ closing = "draining" /\ pc = "idle"
  /\ closing' = "closed" /\ workspace' = Revoked
  /\ store' = IF store = "open" THEN "revoked" ELSE store
  /\ UNCHANGED <<journal, stopped, epoch, state, commit, pc, op, child, test, custody, finished>>
-----------------------------------------------------------------------------
Commits == StoreAppends \/ StoreFails \/ CommitDropped
Settles ==
  \/ Committed \/ WorkspaceClosed \/ WorkspaceNotClosed \/ Assigned \/ StageStarts \/ StageNotStarted
  \/ AuthorCompleted \/ Observed \/ ObservationRefused \/ Recorded \/ Verified \/ VerificationFails
  \/ Finalized \/ NotCommitted \/ Handover \/ Sealed \/ SealFails \/ Closed
Tools == TestLost \/ TestRegistered \/ \E passed \in BOOLEAN : TestEnds(passed)
Ends == \E reason \in {"completed", "broken"} : ChildEnds(reason)
Requests ==
  \/ Propose \/ SealBegins \/ SealTooEarly \/ Close
  \/ \E d \in {"authorize", "reject"} : Decide(d)
  \/ \E role \in Roles : BeginStage(role)
  \/ pc = "running" /\ \E submission \in Submissions(stage[1]) : Submit(submission)
  \/ \E c \in Commands : RunTest(c)
Next == Commits \/ Settles \/ Tools \/ Ends \/ Requests

Spec == Init /\ [][Next]_vars

(* The values of the state. *)
Committing == {"proposing", "deciding", "failing", "assigning", "recording", "finalizing", "sealing"}
Pcs == Committing \cup {"idle", "clearing", "starting", "running", "observing", "verifying", "freezing"}
Findings == {"none", "open", "resolved"}
Events == {"PLAN_PROPOSED", "ATTEMPT_RESERVED", "ASSIGNMENT_CREATED", "RESULT_RECORDED", "CANDIDATE_SEALED",
           "EVIDENCE_REGISTERED", "HUMAN_DECIDED", "AUTHOR_FAILED", "DIAGNOSTIC_READY", "STOPPED"}
CommitType == [step : {"asked", "written", "refused", "failed"}, type : Events, next : States, epoch : Nat]
SubmissionType == [pass : BOOLEAN, finding : Findings, cites : SUBSET (Commands \cup {Frozen})]
ChildType == [status : {"running", "completed", "broken"}, submission : SubmissionType, submitted : BOOLEAN]
TypeOK ==
  /\ journal \in States \cup {NoState} /\ state \in States \cup {NoState}
  /\ store \in {"open", "revoked", "poisoned"}
  /\ commit \in CommitType \cup {NoCommit}
  /\ stopped \in BOOLEAN /\ epoch \in Nat /\ since \in Nat /\ closing \in {"no", "draining", "closed"}
  /\ pc \in Pcs
  /\ stage \in (Roles \X Generations) \cup {<<"none", 0>>}
  /\ child \in ChildType \cup {NoChild}
  /\ test \in Commands \cup {NoTest}
  /\ workspace \in {"none", "open", "sealed", "revoked"}
  /\ custody \in Generations \cup {0} /\ finished \in Generations \cup {0}

(* A record of the job is sound: what the journal validates of it, and what its phase
   says of the attempt at hand. *)
Sound(s) ==
  s # NoState =>
    /\ WellFormed(s)
    /\ s.generation = Attempts(s) + 1 /\ s.candidate \in {0, s.generation}
    /\ s.phase \in {"PLANNING", "AWAITING_HUMAN"} => s.generation = 1 /\ s.decision = "none"
    /\ s.phase = "AUTHORING" => /\ <<"author", s.generation>> \in s.assignments
                                /\ ResultsOf(s, "author", s.generation) = {} /\ CurrentEvidence(s) = {}

(* The controller's memory is what is on disk, but for a commit that is under way or was
   lost to a stop or to a broken journal; what it asks for follows from it, a candidate is
   of the last attempt, one that failed goes on as its budget says, and a job that is ready
   is not stopped. *)
Lawful(type, next) ==
  /\ Follows(journal, type, next)
  /\ type = "CANDIDATE_SEALED" => next.candidate = journal.generation
  /\ type = "AUTHOR_FAILED" => next.phase = Corrected(journal)
  /\ type = "STOPPED" => journal.phase # "DIAGNOSTIC_READY"
MemoryStands ==
  /\ commit.step = "asked" /\ store = "open" => journal = state /\ Lawful(commit.type, commit.next)
  /\ commit.step = "written" => journal = commit.next
  /\ ~stopped /\ store = "open" /\ commit.step # "written" => journal = state
  /\ commit.step = "failed" => stopped \/ store # "open"
  /\ ~stopped => epoch = 0
  /\ since = 0 /\ (commit # NoCommit => commit.epoch = 0)

(* Which commits are made at which await, what a command of the validator belongs to, and
   where there is a child. *)
TypesAt(at) ==
  CASE at = "proposing" -> {"PLAN_PROPOSED"}
    [] at = "deciding" -> {"HUMAN_DECIDED"}
    [] at = "failing" -> {"AUTHOR_FAILED", "STOPPED"}
    [] at = "assigning" -> {"ATTEMPT_RESERVED", "ASSIGNMENT_CREATED"}
    [] at = "running" -> {"EVIDENCE_REGISTERED"}
    [] at = "recording" -> {"RESULT_RECORDED"}
    [] at = "finalizing" -> {"DIAGNOSTIC_READY", "RESULT_RECORDED"}
    [] at = "sealing" -> {"CANDIDATE_SEALED"}
    [] OTHER -> {}
OperationStands ==
  /\ pc \in Committing => commit # NoCommit
  /\ commit # NoCommit => commit.type \in TypesAt(pc)
  /\ commit # NoCommit /\ pc = "running" => test # NoTest
  /\ test # NoTest => /\ pc = "running" /\ stage[1] = "validator"
                      /\ \A e \in CurrentEvidence(state) : e.of # test
  /\ child # NoChild => pc \in {"running", "observing", "recording"}
  /\ pc \in {"running", "observing"} =>
       /\ child # NoChild
       /\ child.submission.pass => child.submission.finding # "open"
       /\ child.submission.cites \subseteq {e.of : e \in CurrentEvidence(state)}
       /\ CurrentEvidence(state) \subseteq CurrentEvidence(journal)
  /\ pc = "observing" => child.status # "running"
  /\ journal.phase = "DIAGNOSTIC_READY" => pc \in {"finalizing", "idle"}

(* The stage under way is the one on record, it has no result yet, and while it goes on
   the job stays in its phase. *)
PhaseOf(role) ==
  CASE role = "plan-review" -> "PLANNING" [] role = "author" -> "AUTHORING"
    [] role = "validator" -> "VALIDATING" [] role = "reviewer" -> "REVIEWING"
Staged(s) ==
  /\ stage[1] \in Roles /\ s # NoState /\ s.phase = PhaseOf(stage[1]) /\ stage[2] = s.generation
  /\ stage \in s.assignments /\ ResultsOf(s, stage[1], stage[2]) = {}
StageStands ==
  /\ pc = "clearing" => stage = <<"author", state.generation + 1>> /\ StageOpen("author")
  /\ pc = "assigning" => Staged(commit.next)
  /\ pc \in {"starting", "running", "observing"} => Staged(state) /\ Staged(journal)
  /\ pc = "recording" => /\ stage[1] \in Roles
                         /\ stage[1] \in Judges => commit.next.phase \in {"VALIDATING", "REVIEWING"}
  /\ pc \in {"verifying", "finalizing"} =>
       /\ stage[1] \in Judges /\ state.phase \in {"VALIDATING", "REVIEWING"} /\ Judged(state)
  /\ pc = "freezing" => state.phase = "AUTHORING" /\ finished = state.generation

(* What the judges read was sealed under the generation of the job, and from then on nobody
   writes to it. *)
SealStands ==
  /\ pc = "sealing" => custody = commit.next.generation /\ workspace # "open"
  /\ ~stopped /\ journal.phase \in {"FROZEN", "VALIDATING", "REVIEWING"} =>
       custody \in {0, journal.generation} /\ workspace # "open"
  /\ pc = "assigning" /\ stage[1] \in Judges =>
       custody = stage[2] /\ commit.next.candidate = stage[2] /\ workspace # "open"
  /\ pc \in {"starting", "running"} /\ stage[1] \in Judges =>
       custody = stage[2] /\ journal.candidate = stage[2] /\ workspace # "open"

(* The controller never asks its journal for an event that the journal refuses:
   the two tables of transitions agree, and the memory is never behind what is on
   disk when the next event is made from it (contracts.mjs 242-271). *)
NeverRefused == commit.step # "refused"

(* The judges judge what was sealed: while one of them runs, the custody it reads
   is the candidate of its own generation, and nobody writes to the workspace. *)
JudgesReadTheSeal ==
  pc = "running" /\ stage[1] \in Judges =>
    custody = stage[2] /\ journal.candidate = stage[2] /\ workspace # "open"

(* Readiness is earned by the last candidate alone (contracts.mjs 273-282): each
   command ran on it and passed, both judges passed it having seen all of that, no
   blocker of an earlier attempt is left, and nobody is at work on it any more. *)
ReadyIsEarned ==
  journal.phase = "DIAGNOSTIC_READY" =>
    /\ journal.candidate = journal.generation /\ journal.decision = "authorize"
    /\ \A c \in Commands : [of |-> c, generation |-> journal.generation, passed |-> TRUE] \in journal.evidence
    /\ \A role \in Judges : \E r \in ResultsOf(journal, role, journal.generation) :
         r.outcome = "pass" /\ Commands \cup {Frozen} \subseteq r.cites
    /\ \A r \in journal.results : r.finding = "open" =>
         \E q \in journal.results :
           q.role = r.role /\ q.generation > r.generation /\ q.finding = "resolved" /\ q.outcome # "broken"
    /\ child = NoChild /\ test = NoTest

(* The journal keeps GovernedJob. *)
StageOf(s) ==
  CASE s.phase = "EMPTY" -> "none"
    [] s.phase \in {"PLANNING", "AWAITING_HUMAN"} -> "planning"
    [] s.phase \in {"PLAN_AUTHORIZED", "CORRECTION_REQUIRED"} -> "granted"
    [] s.phase = "AUTHORING" -> "authoring"
    [] s.phase \in {"FROZEN", "VALIDATING", "REVIEWING"} -> "judging"
    [] s.phase = "DIAGNOSTIC_READY" -> "ready"
    [] OTHER -> "over"
AttemptsOf(s) == IF s = NoState THEN 0 ELSE Attempts(s)
Job == INSTANCE GovernedJob WITH stage <- StageOf(journal), attempts <- AttemptsOf(journal)
JobSpec == Job!Spec

(* Nobody waits for nobody: while an operation or a close is under way, the journal,
   the host, the runner or the child has an answer to give (controller.mjs 368-371). *)
NeverStuck == pc # "idle" \/ closing = "draining" => ENABLED (Commits \/ Settles \/ Tools \/ Ends)

(* The controller and its journal never disagree, the judges judge what is sealed, and
   every operation under way stands on what is on record.  This is the invariant of the
   proofs. *)
PipelineInv ==
  /\ TypeOK /\ Sound(journal)
  /\ MemoryStands /\ OperationStands /\ StageStands /\ SealStands
  /\ NeverRefused /\ JudgesReadTheSeal
=============================================================================
