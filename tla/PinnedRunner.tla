----------------------------- MODULE PinnedRunner -----------------------------
(***************************************************************************)
(* createPinnedRunnerV2 of src/src/governance/runner.mjs on a custody: the *)
(* controller makes a runner for each command its validator asks for       *)
(* (controller.mjs 290-299).  The runner gets a replica, spawns the        *)
(* command in it, waits for the child, settles it, and issues a receipt    *)
(* that is consumed once.  The deadline, the controller's stop, a revoked  *)
(* custody and a change on disk come at any moment.                        *)
(*                                                                         *)
(* The child's own end is the world's.  After a termination the runner     *)
(* waits for a grace period and no longer.                                 *)
(***************************************************************************)
EXTENDS Custody

CONSTANTS
  MaxRuns,    \* bound on commands
  Inventory,  \* the tests the command has to report, in order
  Outputs     \* what a child may have printed by its end: [tests, stderr, lossy]

ASSUME RunnerAssumption == MaxRuns \in Nat

VARIABLES
  run,      \* how far execute() has come
  child,    \* the process: none, running, or how it exited
  printed,  \* what the runner has read of what it printed
  aborted,  \* the scope of the run has aborted
  failure,  \* the run has met a failure
  stopped,  \* stop() was called
  drained,  \* the child is known to have ended, or none was spawned
  receipt,  \* the receipt of the run
  runs,     \* number of runners so far
  interrupted  \* history: the scope of this run aborted before its end

process == <<child, printed>>
runnerVars == <<run, process, interrupted, aborted, failure, stopped, drained, receipt, runs>>
custodyVars == vars
allVars == <<vars, runnerVars>>

NoReceipt == [at |-> "none", passed |-> FALSE]
NoOutput == [tests |-> <<>>, stderr |-> FALSE, lossy |-> FALSE]

RunnerInit ==
  /\ Init
  /\ run = "none" /\ child = "none" /\ printed = NoOutput /\ interrupted = FALSE
  /\ aborted = FALSE /\ failure = FALSE /\ stopped = FALSE /\ drained = TRUE
  /\ receipt = NoReceipt
  /\ runs = 0

Ended(c) == c \in {"passed", "failed"}
Over == run \in {"none", "closed", "refused"}
InScope == run \in {"asked", "replicating", "running", "settling"}
-----------------------------------------------------------------------------
(* What the runner asks before and after each step: the controller's assignment and the
   custody (authorize), then the custody and the replica (verify). *)
VerifyOutcome ==
  IF Check("owner") # "ok" THEN Check("owner")
  ELSE IF replica.at # "ready" THEN "refused" ELSE CheckReplica
Authority(verified) ==
  IF stopped \/ phase # "VALIDATING" THEN "refused" ELSE verified

(* checkPinnedTapV2(): the report names exactly the tests it has to, in their order, and
   every one of them passed.  runnerCapture(): what was printed is there in full. *)
CheckPinnedTap(tests, inventory) ==
  /\ inventory # <<>>
  /\ \A i, j \in DOMAIN inventory : inventory[i] = inventory[j] => i = j
  /\ tests = [i \in DOMAIN inventory |-> [name |-> inventory[i], ok |-> TRUE]]
RunnerCapture(output) == ~output.lossy
Passing(output) ==
  /\ child = "passed"
  /\ RunnerCapture(output) /\ ~output.stderr
  /\ CheckPinnedTap(output.tests, Inventory)

(* testCommand() and run(): the command, once, in a runner of its own.  A child that a
   refused runner has left behind is followed no further. *)
MayTest == holds["validator"] = "lease" /\ phase = "VALIDATING" /\ Live
RunCommand ==
  /\ Over /\ runs < MaxRuns
  /\ MayTest
  /\ run' = "asked" /\ child' = "none" /\ printed' = NoOutput /\ interrupted' = FALSE
  /\ aborted' = FALSE /\ failure' = FALSE /\ stopped' = FALSE /\ drained' = TRUE
  /\ receipt' = NoReceipt
  /\ runs' = runs + 1
  /\ UNCHANGED custodyVars

(* The scope ends with the run. *)
ScopeEnds == aborted' = FALSE /\ failure' = FALSE
RunFailed ==
  /\ run' = "failed" /\ ScopeEnds
  /\ UNCHANGED <<process, interrupted, stopped, drained, receipt, runs>>

Replicate ==
  /\ run = "asked"
  /\ ~aborted /\ Authority(Check("owner")) = "ok"
  /\ AskReplica
  /\ run' = "replicating"
  /\ UNCHANGED <<process, interrupted, aborted, failure, stopped, drained, receipt, runs>>

ReplicateFails ==
  /\ run = "asked"
  /\ aborted \/ Authority(Check("owner")) # "ok" \/ delivery \/ Busy >= Capacity
  /\ IF aborted THEN UNCHANGED custodyVars
     ELSE /\ After(Authority(Check("owner")))
          /\ UNCHANGED <<grants, begun, work, seal, sealed, custody, judging, closing, lock, world>>
  /\ RunFailed

(* From the replica to the spawn there is no await. *)
Spawn ==
  /\ run = "replicating"
  /\ ~aborted /\ Authority(VerifyOutcome) = "ok"
  /\ run' = "running" /\ child' = "running" /\ drained' = FALSE
  /\ UNCHANGED <<custodyVars, printed, interrupted, aborted, failure, stopped, receipt, runs>>

SpawnFails ==
  /\ run = "replicating"
  /\ replica.at \in {"ready", "closed", "bad"}
  /\ aborted \/ Authority(VerifyOutcome) # "ok"
  /\ IF aborted \/ replica.at = "bad" THEN UNCHANGED custodyVars
     ELSE /\ After(Authority(VerifyOutcome))
          /\ UNCHANGED <<grants, begun, work, seal, sealed, custody, judging, closing, lock, world>>
  /\ RunFailed

(* The child has ended or the scope has aborted: check, and settle what there is. *)
Wait ==
  /\ run = "running"
  /\ Ended(child) \/ aborted
  /\ run' = "settling"
  /\ failure' = (aborted \/ Authority(VerifyOutcome) # "ok")
  /\ IF aborted THEN UNCHANGED custodyVars
     ELSE /\ After(Authority(VerifyOutcome))
          /\ UNCHANGED <<grants, begun, work, seal, sealed, custody, judging, closing, lock, world>>
  /\ UNCHANGED <<process, interrupted, aborted, stopped, drained, receipt, runs>>

(* settle(): the child is gone, and everything still stands; the captures are read once
   and the receipt says what they say. *)
PassesLate(output) == ~failure /\ Passing(output)
Passes(output) == ~failure /\ ~aborted /\ Passing(output)

Settle ==
  /\ run = "settling"
  /\ Ended(child)
  /\ drained' = TRUE
  /\ After(VerifyOutcome)
  /\ IF Authority(VerifyOutcome) = "ok"
     THEN /\ run' = "done"
          /\ \E output \in Outputs :
               /\ printed' = output
               /\ receipt' = [at |-> "issued", passed |-> Passes(output)]
     ELSE run' = "failed" /\ UNCHANGED <<receipt, printed>>
  /\ ScopeEnds
  /\ UNCHANGED <<grants, begun, work, seal, sealed, custody, judging, closing, lock, world>>
  /\ UNCHANGED <<child, interrupted, stopped, runs>>

(* The grace period ends and the child does not. *)
GraceEnds ==
  /\ run = "settling"
  /\ child = "running"
  /\ RunFailed
  /\ UNCHANGED custodyVars

(* consume(): the fact of a receipt, once, if the runner and the custody still stand. *)
Consume ==
  /\ run = "done"
  /\ receipt.at = "issued"
  /\ run' = "consumed"
  /\ receipt' = [receipt EXCEPT !.at = IF Authority(VerifyOutcome) = "ok" THEN "consumed" ELSE "lost"]
  /\ After(Authority(VerifyOutcome))
  /\ UNCHANGED <<grants, begun, work, seal, sealed, custody, judging, closing, lock, world>>
  /\ UNCHANGED <<process, interrupted, aborted, failure, stopped, drained, runs>>

(* close(): stop, wait for the run, then close the replica, if it got one, and look at the
   custody again; a child that did not settle refuses it.  The controller drops the runner. *)
Dropped ==
  /\ stopped' = FALSE /\ receipt' = NoReceipt /\ drained' = TRUE
  /\ IF child = "running" THEN UNCHANGED process ELSE child' = "none" /\ printed' = NoOutput
  /\ UNCHANGED <<grants, begun, work, seal, sealed, custody, holds, reads, delivery, closing,
                 lock, world, aborted, interrupted, failure, runs>>

Obtained == replica.at \in {"ready", "closed"}
ReplicaClosed ==
  IF Obtained
  THEN /\ run' = IF Check("owner") = "ok" THEN "closed" ELSE "refused"
       /\ After(Check("owner"))
       /\ replica' = [at |-> "none", phase |-> "none"]
  ELSE run' = "closed" /\ UNCHANGED <<replica, engine>>

CloseRunnerAnyway ==
  /\ run \in {"failed", "consumed"}
  /\ ReplicaClosed
  /\ Dropped
CloseRunner ==
  /\ run \in {"failed", "consumed"}
  /\ IF drained THEN ReplicaClosed ELSE run' = "refused" /\ UNCHANGED <<replica, engine>>
  /\ Dropped

(* The deadline, the controller's stop, and the child itself. *)
Timeout ==
  /\ InScope /\ ~aborted
  /\ aborted' = TRUE /\ interrupted' = TRUE
  /\ UNCHANGED <<custodyVars, run, process, failure, stopped, drained, receipt, runs>>

StopRunner ==
  /\ ~Over /\ ~stopped
  /\ stopped' = TRUE
  /\ aborted' = (aborted \/ InScope)
  /\ interrupted' = (interrupted \/ aborted')
  /\ UNCHANGED <<custodyVars, run, process, failure, drained, receipt, runs>>

ChildEnds ==
  /\ child = "running"
  /\ child' \in {"passed", "failed"}
  /\ UNCHANGED <<custodyVars, run, printed, interrupted, aborted, failure, stopped, drained, receipt, runs>>
-----------------------------------------------------------------------------
RunnerStep ==
  \/ Replicate \/ ReplicateFails \/ Spawn \/ SpawnFails
  \/ Wait \/ Settle \/ GraceEnds \/ Consume \/ CloseRunner

Own == EngineStep /\ UNCHANGED runnerVars

(* The controller records nothing and closes nothing while a runner is active. *)
Next ==
  \/ Own
  \/ (Call \/ World) /\ UNCHANGED runnerVars
  \/ Over /\ (Advance \/ Close) /\ UNCHANGED runnerVars
  \/ RunCommand \/ RunnerStep
  \/ Timeout \/ StopRunner \/ ChildEnds

Spec == RunnerInit /\ [][Next]_allVars

(* What is under way goes on, and the author's child ends: its owner aborts it. *)
FairSpec ==
  /\ Spec
  /\ WF_allVars(Own)
  /\ WF_allVars(RunnerStep)
  /\ WF_allVars(AuthorEnds /\ UNCHANGED runnerVars)
  /\ WF_allVars(Timeout)
-----------------------------------------------------------------------------
(* The report of the command: every test it has to report, in order and passed, and
   nothing cut short or said besides. *)
Complete(output) ==
  /\ ~output.lossy /\ ~output.stderr
  /\ DOMAIN output.tests = DOMAIN Inventory
  /\ \A i \in DOMAIN Inventory : output.tests[i].name = Inventory[i] /\ output.tests[i].ok

(* A fact is handed out only while the assignment and the sealed files stand.  It says that
   the command passed only if its child ended by itself and did, with a report that is
   complete, and if neither the deadline nor a stop came before it was issued. *)
PassIsEarned ==
  [][(receipt'.at = "consumed" /\ receipt.at # "consumed") =>
       /\ phase = "VALIDATING" /\ Live /\ Intact /\ ~stopped
       /\ receipt.passed => child = "passed" /\ ~interrupted /\ Complete(printed)]_allVars

(* A runner that closes without an error leaves no process and no replica behind. *)
NothingLeftBehind ==
  run = "closed" => child # "running" /\ replica.at \notin {"asked", "making", "ready"}

(* The runner knows of its child and its replica: it is drained only when no child of its
   own is left, a replica is being made only for a run that waits for it, a scope that has
   aborted is one that is open, and a receipt that says passed is earned. *)
RunnerKnows ==
  /\ receipt \in [at : {"none", "issued", "consumed", "lost"}, passed : BOOLEAN]
  /\ replica.at \in {"asked", "making"} => run = "replicating"
  /\ drained /\ run # "refused" => child # "running"
  /\ aborted => InScope
  /\ InScope => receipt = NoReceipt /\ (interrupted => aborted)
  /\ receipt.passed => child = "passed" /\ ~interrupted /\ Complete(printed)

(* The three promises of a workspace that is at its end, with a runner at its side. *)
EndIsSound == NothingAfterTheEnd /\ SealedTreeStill /\ LockGivenUpSound

(* A candidate is the author's work, a delivery has it for itself, a lock is given up in
   order, and the runner knows what it has started. *)
CustodyInv == CandidateIsTheWork /\ DeliveryAlone /\ ReleaseIsSound /\ RunnerKnows

(* Every command ends, and every close(), with or without the lock. *)
CommandsEnd == (run = "asked") ~> Over
AllSettle == CommandsEnd /\ CloseEnds
=============================================================================
