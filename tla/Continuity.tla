------------------------------ MODULE Continuity ------------------------------
(***************************************************************************)
(* createGovernanceControllerM4 of src/src/governance/controller.mjs: the  *)
(* owner of one job pauses it, resumes it once for each checkpoint, or     *)
(* stops it for good, while its stages run, its records are appended to    *)
(* the journal and its workspace closes.                                   *)
(*                                                                         *)
(* pause() and resume() are carried out one after the other; stop() does   *)
(* not wait for its turn.  Each of them ends the epoch of what went on     *)
(* before (fence), and each step after an await asks again whether it may  *)
(* go on.  The stages are those of Pipeline; here validate() and review()  *)
(* are one, and a stage is what it commits and how its actor ends.  Every  *)
(* failpoint is taken for an await.                                        *)
(*                                                                         *)
(* Where two operators with the same parameters follow each other, the     *)
(* first is a plausible mistake in the second.                             *)
(***************************************************************************)
EXTENDS Integers, Sequences, FiniteSets

CONSTANTS
  Budget,       \* attempts of an author (3 in the code)
  MaxLaunches,  \* bound on stages under way at once
  MaxPauses,    \* bound on pauses
  MaxControls,  \* bound on pauses and resumes waiting at once
  MaxFaults     \* bound on failures of the store and of a workspace

ASSUME ContinuityAssumption ==
  /\ Budget \in Nat \ {0} /\ MaxLaunches \in Nat /\ MaxPauses \in Nat /\ MaxControls \in Nat
  /\ MaxFaults \in Nat

Names == {"author", "seal", "judge"}
Terminal == {"STOPPED", "REASSESS_REQUIRED", "RECONCILIATION_REQUIRED"}
Resumable == {"PLAN_AUTHORIZED", "CORRECTION_REQUIRED"}
NoCheckpoint == [id |-> 0, head |-> 0]
NoSave == [at |-> "none"]

VARIABLES
  mode,        \* the owner: active, pausing, paused, resuming, blocked, stopped
  permitted,   \* what it may launch next: anything, or only an author
  checkpoint,  \* of the pause that may be resumed
  controls,    \* pauses and resumes, the oldest under way
  stopping,    \* how far stop() has come, and whether something failed in it
  qualifying,  \* a qualification is under way
  core,        \* stopped, its epoch, whether work is denied, how far close() has come
  ops,         \* stages launched, the oldest under way
  actor,       \* the actor of the stage under way
  author,      \* the result of an author waits to be sealed
  space,       \* the workspace: none, open, or revoked
  custody,     \* a custody is held
  state,       \* what the controller knows: phase, attempts, revision
  save,        \* the record being appended
  journal,     \* the records on disk
  store,       \* revoked, poisoned, how it was closed
  faults

owner == <<mode, permitted, checkpoint, controls, stopping, qualifying>>
stages == <<ops, actor, author, space, custody>>
disk == <<save, journal, store>>
vars == <<owner, core, stages, state, disk, faults>>

Init ==
  /\ mode = "active" /\ permitted = "anything"
  /\ checkpoint = NoCheckpoint /\ controls = <<>>
  /\ stopping = [at |-> "no", failed |-> FALSE]
  /\ qualifying = FALSE
  /\ core = [stopped |-> FALSE, epoch |-> 0, denied |-> FALSE, closing |-> "no"]
  /\ ops = <<>> /\ actor = "none" /\ author = FALSE
  /\ space = "none" /\ custody = FALSE
  /\ state = [phase |-> "PLAN_AUTHORIZED", attempts |-> 0, revision |-> 0]
  /\ save = NoSave /\ journal = <<>>
  /\ store = [revoked |-> FALSE, poisoned |-> FALSE, closed |-> FALSE]
  /\ faults = 0
-----------------------------------------------------------------------------
(* live() and the owner's checks: the store is still this owner's. *)
Owned == ~store.revoked /\ ~store.poisoned
LiveAtAll(e) == ~core.stopped /\ Owned
Live(e) == ~core.stopped /\ core.epoch = e /\ Owned
Alive == Live(core.epoch)

Pending == save.at \in {"asked", "appending", "written"} \/ core.closing # "no"
Tracked == {i \in DOMAIN ops : ops[i].at # "launched"}
Idle == ~Pending /\ Tracked = {} /\ actor = "none" /\ ~author

(* What waits for an answer of the store goes on before anybody else is heard. *)
Heard == save.at \notin {"ok", "failed"}

Fenced(c) == [c EXCEPT !.denied = TRUE, !.epoch = @ + 1]
RevokedSpace == IF space = "open" THEN "revoked" ELSE space

(* The core stops where it is, and close() of it, once. *)
CutOff(c) == [c EXCEPT !.stopped = TRUE, !.epoch = @ + 1]
Closing(c) == IF c.closing # "no" THEN c ELSE [CutOff(c) EXCEPT !.closing = "waiting"]
-----------------------------------------------------------------------------
(* commit(): one record at a time, of the revision that the controller knows. *)
Commit(who, type, phase, attempts, e) ==
  save' = [at |-> "asked", for |-> who, type |-> type, epoch |-> e,
           next |-> [phase |-> phase, attempts |-> attempts, revision |-> state.revision + 1]]

Answered(who) == save.at \in {"ok", "failed"} /\ save.for = who
Saved(who) == save.at = "ok" /\ save.for = who

(* append(): the epoch of the commit is asked once more and then no more, until the record
   is on disk.  The store refuses a revision that is not the next one; a store that was
   revoked on the way, or a write that fails, poisons it. *)
StoreAccepts ==
  /\ save.at = "asked"
  /\ save' = [save EXCEPT !.at = IF Live(save.epoch) THEN "appending" ELSE "failed"]
  /\ UNCHANGED <<owner, core, stages, state, journal, store, faults>>

IsNext == save.next.revision = Len(journal) + 1

StoreWrites ==
  /\ save.at = "appending" /\ Owned /\ IsNext
  /\ save' = [save EXCEPT !.at = "written"]
  /\ journal' = Append(journal, save.type)
  /\ UNCHANGED <<owner, core, stages, state, store, faults>>

StoreRefuses ==
  /\ save.at = "appending" /\ ~(Owned /\ IsNext)
  /\ save' = [save EXCEPT !.at = "failed"]
  /\ store' = IF Owned THEN store ELSE [store EXCEPT !.poisoned = TRUE]
  /\ UNCHANGED <<owner, core, stages, state, journal, faults>>

(* The record is on disk, and counts only if its epoch still stands. *)
StoreAnswers ==
  /\ save.at = "written"
  /\ save' = [save EXCEPT !.at = IF Live(save.epoch) THEN "ok" ELSE "failed"]
  /\ state' = IF Live(save.epoch) THEN save.next ELSE state
  /\ store' = IF Owned THEN store ELSE [store EXCEPT !.poisoned = TRUE]
  /\ UNCHANGED <<owner, core, stages, journal, faults>>

StoreFails ==
  /\ save.at \in {"appending", "written"}
  /\ faults < MaxFaults
  /\ save' = [save EXCEPT !.at = "failed"]
  /\ store' = [store EXCEPT !.poisoned = TRUE]
  /\ faults' = faults + 1
  /\ UNCHANGED <<owner, core, stages, state, journal>>

(* The owner's authority or its files are lost: the next check poisons the store. *)
OwnerLost ==
  /\ Heard /\ Owned /\ ~store.closed
  /\ faults < MaxFaults
  /\ store' = [store EXCEPT !.poisoned = TRUE]
  /\ faults' = faults + 1
  /\ UNCHANGED <<owner, core, stages, state, save, journal>>
-----------------------------------------------------------------------------
(* launch(): after a resume only an author, once; what was launched in the same turn as a
   pause or a stop is refused when its own turn comes. *)
Launch(name) ==
  /\ Heard /\ mode = "active" /\ ~qualifying /\ ~store.poisoned
  /\ Len(ops) < MaxLaunches
  /\ permitted = "author" => name = "author"
  /\ permitted' = "anything"
  /\ ops' = Append(ops, [name |-> name, at |-> "launched", epoch |-> 0])
  /\ UNCHANGED <<mode, checkpoint, controls, stopping, qualifying, core, actor, author, space,
                 custody, state, disk, faults>>

Enqueues(i) ==
  /\ ops[i].at = "launched" /\ \A j \in 1 .. (i - 1) : ops[j].at # "launched"
  /\ ops' = IF mode = "active" /\ ~store.poisoned
            THEN [ops EXCEPT ![i] = [@ EXCEPT !.at = "queued", !.epoch = core.epoch]]
            ELSE SubSeq(ops, 1, i - 1) \o SubSeq(ops, i + 1, Len(ops))
  /\ UNCHANGED <<owner, core, actor, author, space, custody, state, disk, faults>>

Op == Head(ops)
OpAt(label) == ops # <<>> /\ Op.at = label
To(label) == ops' = <<[Op EXCEPT !.at = label]>> \o Tail(ops)
Done == ops' = Tail(ops)

Admitted == ~core.denied /\ core.epoch = Op.epoch /\ ~store.poisoned
MayStart(name) ==
  CASE name = "author" -> state.phase \in Resumable /\ state.attempts < Budget
    [] name = "seal" -> space = "open" /\ state.phase = "AUTHORING" /\ author
    [] name = "judge" -> custody /\ state.phase = "FROZEN"

(* A stage that may not start ends; a seal in that case stops the whole controller.  What
   is stopped already is in no epoch that anybody still asks for. *)
SealStops ==
  /\ core' = IF core.stopped THEN core ELSE CutOff(core)
  /\ store' = [store EXCEPT !.revoked = TRUE]
  /\ author' = FALSE /\ custody' = FALSE /\ space' = RevokedSpace

OpRefused ==
  /\ Heard /\ OpAt("queued")
  /\ ~Admitted \/ ~Alive \/ ~MayStart(Op.name)
  /\ Done
  /\ IF Admitted /\ Op.name = "seal" THEN SealStops
     ELSE UNCHANGED <<core, store, author, custody, space>>
  /\ UNCHANGED <<owner, actor, state, save, journal, faults>>

(* An author closes the workspace of the attempt before, then its attempt is spent. *)
OpCloses ==
  /\ Heard /\ OpAt("queued")
  /\ Admitted /\ Alive /\ MayStart(Op.name)
  /\ Op.name = "author" /\ space # "none"
  /\ space' = "revoked"
  /\ To("closing")
  /\ UNCHANGED <<owner, core, actor, author, custody, state, disk, faults>>

Begins(name) ==
  CASE name = "author" ->
         Commit("op", "attempt", "AUTHORING", state.attempts + 1, Op.epoch)
    [] name = "seal" -> Commit("op", "seal", "FROZEN", state.attempts, Op.epoch)
    [] name = "judge" -> Commit("op", "assign", "REVIEWING", state.attempts, Op.epoch)

OpCommits ==
  /\ Heard
  /\ \/ /\ OpAt("queued")
        /\ Admitted /\ Alive /\ MayStart(Op.name)
        /\ Op.name = "author" => space = "none"
        /\ UNCHANGED <<space, custody>>
     \/ /\ OpAt("closing") /\ Live(Op.epoch)
        /\ space' = "none" /\ custody' = FALSE
  /\ Begins(Op.name)
  /\ To("saving")
  /\ UNCHANGED <<owner, core, actor, author, state, journal, store, faults>>

OpCloseFails ==
  /\ Heard /\ OpAt("closing")
  /\ \/ ~Live(Op.epoch) /\ space' = "none" /\ custody' = FALSE /\ UNCHANGED faults
     \/ faults < MaxFaults /\ faults' = faults + 1 /\ UNCHANGED <<space, custody>>
  /\ Done
  /\ UNCHANGED <<owner, core, actor, author, state, disk>>

(* The first record of a stage is answered: its actor runs, or the candidate is held. *)
OpProceeds ==
  /\ OpAt("saving") /\ Saved("op")
  /\ save' = NoSave
  /\ CASE Op.name = "author" ->
            /\ actor' = "running" /\ space' = "open" /\ To("acting")
            /\ UNCHANGED <<author, custody>>
       [] Op.name = "seal" ->
            /\ author' = FALSE /\ custody' = TRUE /\ Done
            /\ UNCHANGED <<actor, space>>
       [] Op.name = "judge" ->
            /\ actor' = "running" /\ To("acting")
            /\ UNCHANGED <<author, custody, space>>
  /\ UNCHANGED <<owner, core, state, journal, store, faults>>

OpFails ==
  /\ OpAt("saving") /\ Answered("op") /\ ~Saved("op")
  /\ save' = NoSave
  /\ Done
  /\ IF Op.name = "seal" THEN SealStops ELSE UNCHANGED <<core, store, author, custody, space>>
  /\ UNCHANGED <<owner, actor, state, journal, faults>>

(* The actor ends by itself, at its deadline, or because it is cancelled. *)
ActorEnds ==
  /\ actor = "running"
  /\ actor' \in {"completed", "failed"}
  /\ UNCHANGED <<owner, core, ops, author, space, custody, state, disk, faults>>

Corrected == IF state.attempts >= Budget THEN "REASSESS_REQUIRED" ELSE "CORRECTION_REQUIRED"

(* What it leaves: an author's result to be sealed, or a record of how the stage ended. *)
Outcomes ==
  IF Op.name = "author" THEN {<<"result", Corrected>>}
  ELSE IF actor = "completed" THEN {<<"ready", "DIAGNOSTIC_READY">>, <<"result", Corrected>>}
  ELSE {<<"STOPPED", "STOPPED">>}

OpConcludes ==
  /\ Heard /\ OpAt("acting") /\ actor \in {"completed", "failed"}
  /\ Live(Op.epoch)
  /\ actor' = "none"
  /\ IF Op.name = "author" /\ actor = "completed"
     THEN author' = TRUE /\ Done /\ UNCHANGED save
     ELSE /\ \E end \in Outcomes : Commit("op", end[1], end[2], state.attempts, Op.epoch)
          /\ To("concluding")
          /\ UNCHANGED author
  /\ UNCHANGED <<owner, core, space, custody, state, journal, store, faults>>

OpOutdated ==
  /\ Heard /\ OpAt("acting") /\ actor \in {"completed", "failed"}
  /\ ~Live(Op.epoch)
  /\ actor' = "none"
  /\ Done
  /\ UNCHANGED <<owner, core, author, space, custody, state, disk, faults>>

OpEnds ==
  /\ OpAt("concluding") /\ Answered("op")
  /\ save' = NoSave
  /\ Done
  /\ space' = IF state.phase = "DIAGNOSTIC_READY" THEN space ELSE RevokedSpace
  /\ custody' = (custody /\ state.phase = "DIAGNOSTIC_READY")
  /\ UNCHANGED <<owner, core, actor, author, state, journal, store, faults>>
-----------------------------------------------------------------------------
(* pause(): refused while one is under way; where the job cannot be resumed it stops. *)
Eligible ==
  /\ ops = <<>> /\ Idle
  /\ state.phase \in Resumable /\ state.attempts < Budget

Control(kind, id) == [kind |-> kind, at |-> "queued", id |-> id]

Pause ==
  /\ Heard /\ mode = "active" /\ ~qualifying /\ Owned
  /\ Eligible
  /\ Cardinality({i \in DOMAIN journal : journal[i] = "pause"}) < MaxPauses
  /\ mode' = "pausing"
  /\ core' = Fenced(core)
  /\ space' = RevokedSpace
  /\ controls' = Append(controls, Control("pause", core.epoch + 1))
  /\ UNCHANGED <<permitted, checkpoint, stopping, qualifying, ops, actor, author, custody, state,
                 disk, faults>>

(* resume(): with the digest of a checkpoint, the last one or the one before, and again.
   After a stop it is refused at once. *)
Resume(id) ==
  /\ Heard /\ mode \in {"active", "paused", "resuming"}
  /\ id \in {core.epoch - 1, core.epoch}
  /\ Len(controls) < MaxControls
  /\ controls' = Append(controls, Control("resume", id))
  /\ UNCHANGED <<mode, permitted, checkpoint, stopping, qualifying, core, stages, state, disk,
                 faults>>

Turn == Head(controls)
TurnAt(kind, label) == controls # <<>> /\ Turn.kind = kind /\ Turn.at = label
Goes(label) == controls' = <<[Turn EXCEPT !.at = label]>> \o Tail(controls)
Over == controls' = Tail(controls)

Clean == Alive /\ Idle

PauseDrains ==
  /\ Heard /\ TurnAt("pause", "queued") /\ Clean
  /\ IF space = "none" THEN Goes("before") /\ custody' = FALSE /\ UNCHANGED space
                       ELSE Goes("closing") /\ space' = "revoked" /\ UNCHANGED custody
  /\ UNCHANGED <<mode, permitted, checkpoint, stopping, qualifying, core, ops, actor, author,
                 state, disk, faults>>

PauseDrained ==
  /\ Heard /\ TurnAt("pause", "closing") /\ Alive
  /\ space' = "none" /\ custody' = FALSE
  /\ Goes("before")
  /\ UNCHANGED <<mode, permitted, checkpoint, stopping, qualifying, core, ops, actor, author,
                 state, disk, faults>>

PauseRecords ==
  /\ Heard /\ TurnAt("pause", "before")
  /\ Clean /\ space = "none" /\ ~custody /\ mode = "pausing"
  /\ Commit("control", "pause", state.phase, state.attempts, core.epoch)
  /\ Goes("saving")
  /\ UNCHANGED <<mode, permitted, checkpoint, stopping, qualifying, core, stages, state, journal,
                 store, faults>>

ControlSaved ==
  /\ controls # <<>> /\ Turn.at = "saving" /\ Saved("control")
  /\ save' = NoSave
  /\ Goes("after")
  /\ UNCHANGED <<mode, permitted, checkpoint, stopping, qualifying, core, stages, state, journal,
                 store, faults>>

Paused ==
  /\ Heard /\ TurnAt("pause", "after")
  /\ Owned /\ mode = "pausing"
  /\ checkpoint' = [id |-> Turn.id, head |-> Len(journal)]
  /\ mode' = "paused"
  /\ Over
  /\ UNCHANGED <<permitted, stopping, qualifying, core, stages, state, disk, faults>>

(* A resume with a checkpoint that is not the owner's last one is refused. *)
Current == mode = "paused" /\ checkpoint # NoCheckpoint /\ checkpoint.id = Turn.id

ResumeRefused ==
  /\ Heard /\ TurnAt("resume", "queued")
  /\ ~Current \/ ~Owned
  /\ Over
  /\ UNCHANGED <<mode, permitted, checkpoint, stopping, qualifying, core, stages, state, disk,
                 faults>>

ResumeStarts ==
  /\ Heard /\ TurnAt("resume", "queued") /\ Current /\ Owned
  /\ Goes("before")
  /\ UNCHANGED <<mode, permitted, checkpoint, stopping, qualifying, core, stages, state, disk,
                 faults>>

(* The checkpoint is consumed before its record is written. *)
StillCurrent ==
  Current /\ Owned /\ checkpoint.head = Len(journal) /\ core.epoch = checkpoint.id

ResumeConsumes ==
  /\ Heard /\ TurnAt("resume", "before") /\ StillCurrent
  /\ checkpoint' = NoCheckpoint
  /\ mode' = "resuming"
  /\ Goes("consumed")
  /\ UNCHANGED <<permitted, stopping, qualifying, core, stages, state, disk, faults>>

ResumeRecords ==
  /\ Heard /\ TurnAt("resume", "consumed")
  /\ Clean /\ space = "none" /\ ~custody /\ mode = "resuming"
  /\ Commit("control", "resume", state.phase, state.attempts, core.epoch)
  /\ Goes("saving")
  /\ UNCHANGED <<mode, permitted, checkpoint, stopping, qualifying, core, stages, state, journal,
                 store, faults>>

Resumed ==
  /\ Heard /\ TurnAt("resume", "after")
  /\ Alive /\ mode = "resuming"
  /\ core' = [core EXCEPT !.denied = FALSE]
  /\ permitted' = "author"
  /\ mode' = "active"
  /\ Over
  /\ UNCHANGED <<checkpoint, stopping, qualifying, stages, state, disk, faults>>

(* What fails leaves the owner blocked: its store is revoked and its core closed.  If a
   stop came in between, that one cleans up. *)
MayContinue ==
  CASE Turn.kind = "pause" /\ Turn.at = "queued" -> Clean
    [] Turn.kind = "pause" /\ Turn.at = "closing" -> Alive
    [] Turn.kind = "pause" /\ Turn.at = "before" ->
         Clean /\ space = "none" /\ ~custody /\ mode = "pausing"
    [] Turn.kind = "pause" /\ Turn.at = "after" -> Owned /\ mode = "pausing"
    [] Turn.kind = "resume" /\ Turn.at = "before" -> StillCurrent
    [] Turn.kind = "resume" /\ Turn.at = "consumed" ->
         Clean /\ space = "none" /\ ~custody /\ mode = "resuming"
    [] Turn.kind = "resume" /\ Turn.at = "after" -> Alive /\ mode = "resuming"
    [] OTHER -> TRUE

ControlFails ==
  /\ controls # <<>>
  /\ \/ Turn.at = "saving" /\ Answered("control") /\ ~Saved("control") /\ UNCHANGED faults
     \/ Turn.at # "saving" /\ Heard /\ ~MayContinue /\ UNCHANGED faults
     \/ Turn.at = "closing" /\ Heard /\ faults < MaxFaults /\ faults' = faults + 1
  /\ save' = IF Answered("control") THEN NoSave ELSE save
  /\ checkpoint' = NoCheckpoint
  /\ IF mode = "stopped"
     THEN UNCHANGED <<mode, core, store>> /\ Over
     ELSE /\ mode' = "blocked"
          /\ core' = Closing(Fenced(core))
          /\ store' = [store EXCEPT !.revoked = TRUE]
          /\ Goes("cleaning")
  /\ space' = RevokedSpace
  /\ UNCHANGED <<permitted, stopping, qualifying, ops, actor, author, custody, state, journal>>

ControlCleaned ==
  /\ Heard /\ controls # <<>> /\ Turn.at = "cleaning"
  /\ core.closing \in {"closed", "failed"}
  /\ Over
  /\ UNCHANGED <<mode, permitted, checkpoint, stopping, qualifying, core, stages, state, disk,
                 faults>>
-----------------------------------------------------------------------------
(* stop(), once, and for a pause where the job cannot be resumed. *)
Stop ==
  /\ Heard /\ stopping.at = "no"
  /\ mode' = "stopped"
  /\ checkpoint' = NoCheckpoint
  /\ core' = Fenced(core)
  /\ space' = RevokedSpace
  /\ stopping' = [stopping EXCEPT !.at = "called"]
  /\ UNCHANGED <<permitted, controls, qualifying, ops, actor, author, custody, state, disk, faults>>

Stopping(label) == stopping' = [stopping EXCEPT !.at = label]
StopFailed == stopping' = [at |-> "core", failed |-> TRUE] /\ core' = Closing(core)

(* An idle owner waits for its controls and drains; a busy one waits for its stages. *)
StopWaits ==
  /\ Heard /\ stopping.at = "called"
  /\ IF ops = <<>> /\ Tracked = {} /\ actor = "none" /\ ~author
     THEN Stopping("controls") ELSE Stopping("stages")
  /\ UNCHANGED <<mode, permitted, checkpoint, controls, qualifying, core, stages, state, disk,
                 faults>>

Quiet ==
  \/ stopping.at = "controls" /\ controls = <<>>
  \/ stopping.at = "stages" /\ Tracked = {}

StopMayGoOn == Alive /\ (stopping.at = "controls" => Idle)

StopDrains ==
  /\ Heard /\ Quiet /\ StopMayGoOn
  /\ Stopping("closing")
  /\ author' = FALSE
  /\ UNCHANGED <<mode, permitted, checkpoint, controls, qualifying, core, ops, actor, space,
                 custody, state, disk, faults>>

(* STOPPED is recorded unless the job has ended already; then the core closes. *)
StopsUnrecorded ==
  /\ Heard /\ stopping.at = "closing"
  /\ Alive /\ ~Pending
  /\ space' = "none" /\ custody' = FALSE
  /\ Stopping("core") /\ core' = Closing(core)
  /\ UNCHANGED <<mode, permitted, checkpoint, controls, qualifying, ops, actor, author, state,
                 disk, faults>>
StopRecords ==
  /\ Heard /\ stopping.at = "closing"
  /\ Alive /\ ~Pending
  /\ space' = "none" /\ custody' = FALSE
  /\ IF state.phase \in Terminal
     THEN Stopping("core") /\ core' = Closing(core) /\ UNCHANGED save
     ELSE /\ Commit("stop", "STOPPED", "STOPPED", state.attempts, core.epoch)
          /\ Stopping("saving")
          /\ UNCHANGED core
  /\ UNCHANGED <<mode, permitted, checkpoint, controls, qualifying, ops, actor, author, state,
                 journal, store, faults>>

StopSaved ==
  /\ stopping.at = "saving" /\ Saved("stop")
  /\ save' = NoSave
  /\ Stopping("core") /\ core' = Closing(core)
  /\ UNCHANGED <<mode, permitted, checkpoint, controls, qualifying, stages, state, journal, store,
                 faults>>

StopFails ==
  /\ \/ Heard /\ Quiet /\ ~StopMayGoOn /\ UNCHANGED faults
     \/ Heard /\ stopping.at = "closing" /\ ~(Alive /\ ~Pending) /\ UNCHANGED faults
     \/ Heard /\ stopping.at = "closing" /\ space # "none" /\ faults < MaxFaults
          /\ faults' = faults + 1
     \/ stopping.at = "saving" /\ Answered("stop") /\ ~Saved("stop") /\ UNCHANGED faults
  /\ save' = IF Answered("stop") THEN NoSave ELSE save
  /\ StopFailed
  /\ space' = RevokedSpace
  /\ UNCHANGED <<mode, permitted, checkpoint, controls, qualifying, ops, actor, author, custody,
                 state, journal, store>>

StopHasFailed == stopping.failed \/ core.closing = "failed"
StopEnds ==
  /\ Heard /\ stopping.at = "core"
  /\ core.closing \in {"closed", "failed"} /\ controls = <<>>
  /\ stopping' = [stopping EXCEPT !.at = IF StopHasFailed THEN "failed" ELSE "stopped"]
  /\ UNCHANGED <<mode, permitted, checkpoint, controls, qualifying, core, stages, state, disk,
                 faults>>

(* close() of the core: its stages end, its workspace closes, and the store gives up its
   lock if it is still the owner's. *)
CoreCloses ==
  /\ Heard /\ core.closing = "waiting"
  /\ Tracked = {} /\ save.at = "none"
  /\ \E bad \in BOOLEAN :
       /\ bad => space # "none" /\ faults < MaxFaults
       /\ faults' = IF bad THEN faults + 1 ELSE faults
       /\ space' = IF bad THEN space ELSE "none"
       /\ core' = [core EXCEPT !.closing = IF bad \/ store.poisoned THEN "failed" ELSE "closed"]
  /\ store' = [store EXCEPT !.revoked = TRUE, !.closed = ~store.poisoned]
  /\ UNCHANGED <<owner, ops, actor, author, custody, state, save, journal>>
-----------------------------------------------------------------------------
StoreStep == StoreAccepts \/ StoreWrites \/ StoreRefuses \/ StoreAnswers
OpStep ==
  \/ \E i \in DOMAIN ops : Enqueues(i)
  \/ OpRefused \/ OpCloses \/ OpCommits \/ OpProceeds \/ OpFails
  \/ OpCloseFails \/ OpConcludes \/ OpOutdated \/ OpEnds
ControlStep ==
  \/ PauseDrains \/ PauseDrained \/ PauseRecords \/ ControlSaved \/ Paused
  \/ ResumeRefused \/ ResumeStarts \/ ResumeConsumes \/ ResumeRecords \/ Resumed
  \/ ControlFails \/ ControlCleaned
StopStep == StopDrains \/ StopRecords \/ StopSaved \/ StopFails \/ StopEnds \/ CoreCloses
Fault == StoreFails \/ OwnerLost

Call ==
  \/ \E name \in Names : Launch(name)
  \/ Pause
  \/ \E id \in 1 .. core.epoch : Resume(id)
-----------------------------------------------------------------------------
Phases == Terminal \cup Resumable \cup {"AUTHORING", "FROZEN", "REVIEWING", "DIAGNOSTIC_READY"}
Papers == {"accepted", "finalized", "reserved", "completed"}
Types == Papers \cup {"attempt", "seal", "assign", "result", "ready", "STOPPED", "pause", "resume"}
States == [phase : Phases, attempts : 0 .. Budget, revision : Nat]
Turns == [kind : {"pause", "resume"}, id : Nat,
          at : {"queued", "closing", "before", "consumed", "saving", "after", "cleaning"}]
Stages == [name : Names, epoch : Nat,
           at : {"launched", "queued", "closing", "saving", "acting", "concluding"}]
Commits == [at : {"asked", "appending", "written", "ok", "failed"}, type : Types, epoch : Nat,
            for : {"op", "control", "stop", "delivery"}, next : States]
Stops == [failed : BOOLEAN, at : {"no", "called", "controls", "stages", "closing", "saving",
                                 "core", "stopped", "failed"}]
Cores == [stopped : BOOLEAN, denied : BOOLEAN, epoch : Nat,
          closing : {"no", "waiting", "closed", "failed"}]
Stores == [revoked : BOOLEAN, poisoned : BOOLEAN, closed : BOOLEAN]
TypeOK ==
  /\ mode \in {"active", "pausing", "paused", "resuming", "blocked", "stopped"}
  /\ permitted \in {"anything", "author"}
  /\ checkpoint \in [id : Nat, head : Nat]
  /\ controls \in Seq(Turns) /\ ops \in Seq(Stages)
  /\ stopping \in Stops
  /\ qualifying \in BOOLEAN
  /\ core \in Cores
  /\ actor \in {"none", "running", "completed", "failed"} /\ author \in BOOLEAN
  /\ space \in {"none", "open", "revoked"} /\ custody \in BOOLEAN
  /\ state \in States /\ state.revision <= Len(journal)
  /\ save \in Commits \cup {NoSave}
  /\ journal \in Seq(Types)
  /\ store \in Stores
  /\ faults \in 0 .. MaxFaults

(* A pause is what it says: nothing of the job is under way or held, nothing is admitted,
   and the head of the journal is the pause's record, which its checkpoint names. *)
PausedIsDrained ==
  mode = "paused" =>
    /\ ops = <<>> /\ actor = "none" /\ ~author /\ space = "none" /\ ~custody
    /\ core.denied /\ save = NoSave
    /\ checkpoint = [id |-> core.epoch, head |-> Len(journal)]
    /\ journal # <<>> /\ journal[Len(journal)] = "pause" /\ state.revision = Len(journal)

(* Each pause is resumed at most once, however many ask at the same time, and what comes
   after a resume is an attempt of an author, another pause, or the end. *)
Between(i, j) == {journal[k] : k \in (i + 1) .. (j - 1)}
OnDisk(type) == \E i \in DOMAIN journal : journal[i] = type
OpenPause ==
  \E i \in DOMAIN journal :
    journal[i] = "pause" /\ \A j \in DOMAIN journal : j > i => journal[j] # "resume"
Alternating ==
  /\ \A i, j \in DOMAIN journal : i < j /\ journal[i] = journal[j] =>
       /\ journal[i] = "pause" => "resume" \in Between(i, j)
       /\ journal[i] = "resume" => "pause" \in Between(i, j)
  /\ \A i \in DOMAIN journal : journal[i] = "resume" => "pause" \in Between(0, i)
  /\ \A i \in 1 .. (Len(journal) - 1) :
       journal[i] = "resume" => journal[i + 1] \in {"attempt", "pause", "STOPPED"}
ResumedOnce == Alternating /\ (mode = "active" => ~OpenPause)

(* No attempt is given back: those on disk are all that the controller counts, but for one
   it has not heard of yet, and never more than the budget. *)
Spent == Cardinality({i \in DOMAIN journal : journal[i] = "attempt"})
BudgetKept ==
  /\ Spent <= Budget
  /\ state.attempts <= Spent
  /\ mode = "active" /\ save = NoSave /\ ~core.stopped /\ Owned => state.attempts = Spent

(* Once the owner is fenced no stage and no delivery asks for a record, or gets one that it
   had asked for: what reaches the disk then is a control, the end, or was being written. *)
FencedIsQuiet ==
  [][(mode # "active" /\ save' # save /\ save'.at \in {"asked", "appending"}) =>
       save'.for \in {"control", "stop"}]_vars

(* Together: a job is taken up again only where it was left, once, and pays for
   what it has spent. *)
TakenUpOnce == TypeOK /\ PausedIsDrained /\ ResumedOnce /\ BudgetKept
=============================================================================
