------------------------------- MODULE Delivery -------------------------------
(***************************************************************************)
(* createDeliveryCoordinatorM4B of src/src/governance/delivery.mjs on the  *)
(* owner of Continuity, and the custody's delivery writer of               *)
(* workspace.mjs.  A ready candidate may be accepted on record, is         *)
(* qualified once, and then delivered once to the one destination: a       *)
(* reservation on disk, a copy, the record of its completion, and a marker *)
(* in the output that binds them.                                          *)
(*                                                                         *)
(* A stop, a lost owner, a failed write and a change at the destination    *)
(* come at any moment.  What has been attempted and did not end is         *)
(* uncertain for good: nothing is repaired, removed or tried again.        *)
(*                                                                         *)
(* Where two operators with the same parameters follow each other, the     *)
(* first is a plausible mistake in the second.                             *)
(***************************************************************************)
EXTENDS Continuity

VARIABLES
  phase,      \* of the delivery: none, reserved, completed, uncertain
  accepted,   \* an acceptance is on record
  qualified,  \* the revision of the qualification's record, 0 if there is none
  consumed,   \* the one admission of an export is spent
  halted,     \* the coordinator was stopped
  job,        \* the request under way: its kind, how far it is, the head it saw
  copy,       \* the writer's handle: none, live, or revoked
  output,     \* what is at the destination
  tampered,   \* somebody else has changed the destination or the sealed files
  stopper     \* history: who stopped the controller's core, for the properties

deliveryVars == <<phase, accepted, qualified, consumed, halted, job, copy, output, tampered>>
allVars == <<vars, deliveryVars, stopper>>

NoJob == [kind |-> "none", at |-> "none", head |-> 0]
Kinds == {"accept", "qualify", "export"}

(* The destination has been captured while nothing was there. *)
DeliveryInit ==
  /\ Init
  /\ phase = "none" /\ accepted = FALSE /\ qualified = 0
  /\ consumed = FALSE /\ halted = FALSE
  /\ job = NoJob
  /\ copy = "none" /\ output = "absent" /\ tampered = FALSE
  /\ stopper = "nobody"
-----------------------------------------------------------------------------
(* check(): asked before and after every await, and by the writer before every write. *)
QualificationIdle ==
  /\ Alive /\ ~core.denied
  /\ Idle /\ save.at = "none"
  /\ state.phase = "DIAGNOSTIC_READY" /\ custody
DestinationHolds == ~tampered
Checks ==
  /\ ~halted
  /\ mode = "active" /\ qualifying
  /\ QualificationIdle /\ DestinationHolds

JobTo(label) == job' = [job EXCEPT !.at = label]

(* run(): one at a time, on an idle owner. *)
Ask(kind) ==
  /\ Heard /\ ~halted /\ job = NoJob
  /\ mode = "active" /\ ~qualifying /\ ops = <<>>
  /\ QualificationIdle /\ DestinationHolds
  /\ qualifying' = TRUE
  /\ job' = [kind |-> kind, at |-> "asked", head |-> 0]
  /\ UNCHANGED <<mode, permitted, checkpoint, controls, stopping, core, stages, state, disk,
                 faults>>
  /\ UNCHANGED <<phase, accepted, qualified, consumed, halted, copy, output, tampered>>

Ends == job' = NoJob /\ qualifying' = FALSE
OwnerStays == UNCHANGED <<mode, permitted, checkpoint, controls, stopping>>
CoreStays == UNCHANGED <<core, stages, state, disk, faults>>
PaperStays == UNCHANGED <<phase, accepted, qualified, consumed>>

MayAsk(kind) ==
  /\ phase = "none" /\ ~consumed
  /\ CASE kind = "accept" -> ~accepted /\ qualified = 0
       [] kind = "qualify" -> qualified = 0
       [] kind = "export" -> qualified # 0

(* The admission of an export is spent before anything is awaited. *)
JobStarts ==
  /\ Heard /\ job.at = "asked" /\ Checks /\ MayAsk(job.kind)
  /\ job' = [job EXCEPT !.at = "proving", !.head = Len(journal)]
  /\ IF job.kind = "export" THEN consumed' = TRUE /\ phase' = "reserved"
                            ELSE UNCHANGED <<consumed, phase>>
  /\ OwnerStays /\ CoreStays
  /\ UNCHANGED <<qualifying, accepted, qualified, halted, copy, output, tampered>>

JobRefused ==
  /\ Heard /\ job.at = "asked" /\ ~(Checks /\ MayAsk(job.kind))
  /\ Ends
  /\ OwnerStays /\ CoreStays /\ PaperStays
  /\ UNCHANGED <<halted, copy, output, tampered>>

(* The evidence is read again and the head has not moved; an export also finds the head
   where the qualification left it. *)
Proven ==
  /\ Checks /\ job.head = Len(journal)
  /\ job.kind = "export" => job.head = qualified

JobProves ==
  /\ Heard /\ job.at = "proving" /\ Proven
  /\ JobTo("recording")
  /\ OwnerStays /\ CoreStays /\ PaperStays
  /\ UNCHANGED <<qualifying, halted, copy, output, tampered>>

Type == CASE job.kind = "accept" -> "accepted"
          [] job.kind = "qualify" -> "finalized"
          [] job.kind = "export" /\ job.at = "recording" -> "reserved"
          [] OTHER -> "completed"

(* validateDeliveryAuditM4B and validateAcceptanceAuditV2: what the store lets in. *)
Audited ==
  CASE Type = "accepted" -> ~OnDisk("accepted") /\ ~OnDisk("finalized")
    [] Type = "finalized" -> ~OnDisk("finalized")
    [] Type = "reserved" -> journal[Len(journal)] = "finalized"
    [] Type = "completed" -> OnDisk("reserved") /\ ~OnDisk("completed")

JobRecords ==
  /\ Heard /\ job.at \in {"recording", "copied"} /\ Checks /\ Audited
  /\ Commit("delivery", Type, state.phase, state.attempts, core.epoch)
  /\ JobTo(IF job.at = "recording" THEN "saving" ELSE "completing")
  /\ OwnerStays /\ PaperStays
  /\ UNCHANGED <<core, stages, state, journal, store, faults>>
  /\ UNCHANGED <<qualifying, halted, copy, output, tampered>>

JobSaved ==
  /\ job.at \in {"saving", "completing"} /\ Saved("delivery")
  /\ save' = NoSave
  /\ JobTo(IF job.at = "saving" THEN "reading" ELSE "rereading")
  /\ OwnerStays /\ PaperStays
  /\ UNCHANGED <<core, stages, state, journal, store, faults>>
  /\ UNCHANGED <<qualifying, halted, copy, output, tampered>>

(* The artifact is read back: an acceptance or a qualification has ended. *)
JobFinalizes ==
  /\ Heard /\ job.at = "reading" /\ job.kind # "export" /\ Checks
  /\ Ends
  /\ accepted' = (accepted \/ job.kind = "accept")
  /\ qualified' = IF job.kind = "qualify" THEN Len(journal) ELSE qualified
  /\ OwnerStays /\ CoreStays
  /\ UNCHANGED <<phase, consumed, halted, copy, output, tampered>>

(* An export gets the custody's writer, which writes file by file: the directories and the
   payload, the descriptor and the receipt.  The last look at all of it ends the copy. *)
ClaimsTheDestination ==
  /\ copy = "none" /\ output = "absent"
  /\ copy' = "live"
JobPrepares ==
  /\ Heard /\ job.at = "reading" /\ job.kind = "export" /\ Checks
  /\ ClaimsTheDestination
  /\ JobTo("copying")
  /\ OwnerStays /\ CoreStays /\ PaperStays
  /\ UNCHANGED <<qualifying, halted, output, tampered>>

GuardedAtFirst == copy # "none"
Guarded == copy = "live" /\ Checks
Follows(from, at, to, goes) == output = from /\ job.at = at /\ output' = to /\ JobTo(goes)
Copies ==
  \/ Follows("absent", "copying", "partial", "copying")
  \/ Follows("partial", "copying", "payload", "copying")
LooksItOver(goes) == Follows("payload", "copying", "payload", goes)
Marks ==
  \/ Follows("payload", "marking", "torn", "marking")
  \/ Follows("torn", "marking", "marked", "marked")
WriterMarksFirst ==
  /\ Heard /\ Guarded
  /\ Copies \/ LooksItOver("marking") \/ Marks
  /\ OwnerStays /\ CoreStays /\ PaperStays
  /\ UNCHANGED <<qualifying, halted, copy, tampered>>
WriterWrites ==
  /\ Heard /\ Guarded
  /\ Copies \/ LooksItOver("copied") \/ Marks
  /\ OwnerStays /\ CoreStays /\ PaperStays
  /\ UNCHANGED <<qualifying, halted, copy, tampered>>

(* The completion is on disk before the marker is begun. *)
JobMarks ==
  /\ Heard /\ job.at = "rereading" /\ Checks
  /\ JobTo("marking")
  /\ OwnerStays /\ CoreStays /\ PaperStays
  /\ UNCHANGED <<qualifying, halted, copy, output, tampered>>

JobCompletes ==
  /\ Heard /\ job.at = "marked" /\ Checks
  /\ phase' = "completed"
  /\ Ends
  /\ OwnerStays /\ CoreStays
  /\ UNCHANGED <<accepted, qualified, consumed, halted, copy, output, tampered>>

(* poison(): the controller stops where it is and the store is revoked. *)
Poisons ==
  /\ core' = [CutOff(core) EXCEPT !.denied = TRUE]
  /\ space' = RevokedSpace
  /\ store' = [store EXCEPT !.revoked = TRUE]

PoisonsNot == UNCHANGED <<core, space, store>>

Attempted == job.at \notin {"asked", "proving", "recording"}
JobMayGoOn ==
  CASE job.at = "proving" -> Proven
    [] job.at \in {"saving", "completing"} -> ~Answered("delivery") \/ Saved("delivery")
    [] job.at \in {"recording", "copied"} -> Checks /\ Audited
    [] job.at \in {"copying", "marking"} -> Guarded
    [] job.at \in {"none", "asked", "cleaning"} -> TRUE
    [] OTHER -> Checks

(* What fails after it was attempted, and an export whatever it has done so far, leaves
   the delivery uncertain. *)
Uncertain == job.kind = "export" \/ Attempted
JobFails ==
  /\ \/ ~JobMayGoOn /\ (Heard \/ Answered("delivery")) /\ UNCHANGED faults
     \/ job.at \in {"copying", "marking"} /\ Heard /\ faults < MaxFaults /\ faults' = faults + 1
  /\ save' = IF Answered("delivery") THEN NoSave ELSE save
  /\ IF Uncertain
     THEN /\ phase' = "uncertain" /\ consumed' = TRUE
          /\ Poisons
     ELSE PoisonsNot /\ UNCHANGED <<phase, consumed>>
  /\ copy' = IF copy = "live" THEN "revoked" ELSE copy
  /\ Ends
  /\ OwnerStays
  /\ UNCHANGED <<ops, actor, author, custody, state, journal>>
  /\ UNCHANGED <<accepted, qualified, halted, output, tampered>>
-----------------------------------------------------------------------------
(* stop() revokes the writer at once, and goes on when the request under way has ended.  The
   close of the delivery may fail it: that looks at the destination, not at all that may
   have been changed. *)
StopDelivery ==
  /\ Stop
  /\ halted' = TRUE /\ consumed' = TRUE
  /\ copy' = IF copy = "live" THEN "revoked" ELSE copy
  /\ UNCHANGED <<phase, accepted, qualified, job, output, tampered>>

StopAwaits ==
  /\ job = NoJob /\ ~core.stopped
  /\ StopWaits
  /\ UNCHANGED deliveryVars

(* After a poison nothing is recorded any more: the core is closed. *)
StopDrainsAlways ==
  /\ Heard /\ stopping.at = "called" /\ job = NoJob
  /\ copy = "revoked" /\ tampered /\ StopFailed
  /\ space' = RevokedSpace
  /\ UNCHANGED <<mode, permitted, checkpoint, controls, qualifying, ops, actor, author, custody,
                 state, disk, faults>>
  /\ UNCHANGED deliveryVars
StopCloses ==
  /\ Heard /\ stopping.at = "called" /\ job = NoJob
  /\ \/ copy = "revoked" /\ tampered /\ StopFailed
     \/ core.stopped /\ Stopping("core") /\ core' = Closing(core)
  /\ space' = RevokedSpace
  /\ UNCHANGED <<mode, permitted, checkpoint, controls, qualifying, ops, actor, author, custody,
                 state, disk, faults>>
  /\ UNCHANGED deliveryVars

(* inspectGovernanceM4B(): what a cold look at the journal and the output makes of it. *)
OutputHolds == output = "marked" /\ ~tampered
Inspected ==
  CASE OnDisk("completed") -> IF OutputHolds THEN "completed" ELSE "uncertain"
    [] OnDisk("reserved") /\ ~OnDisk("completed") -> "reserved"
    [] OTHER -> "none"

(* Somebody else writes to the destination or to the sealed files. *)
Tamper ==
  /\ state.phase = "DIAGNOSTIC_READY" /\ ~halted /\ ~tampered
  /\ faults < MaxFaults
  /\ faults' = faults + 1
  /\ tampered' = TRUE
  /\ UNCHANGED <<owner, core, stages, state, disk>>
  /\ UNCHANGED <<phase, accepted, qualified, consumed, halted, job, copy, output>>
-----------------------------------------------------------------------------
JobStep ==
  \/ JobStarts \/ JobRefused \/ JobProves \/ JobRecords \/ JobSaved \/ JobFinalizes
  \/ JobPrepares \/ WriterWrites \/ JobMarks \/ JobCompletes \/ JobFails

EndStep == (StopStep /\ UNCHANGED deliveryVars) \/ StopAwaits \/ StopCloses

(* The first that stops the core is who stopped it. *)
StoppedBy(who) == stopper' = IF core'.stopped /\ ~core.stopped THEN who ELSE stopper

StoreMoves == StoreStep /\ UNCHANGED <<deliveryVars, stopper>>
StageMoves == OpStep /\ UNCHANGED deliveryVars /\ StoppedBy("seal")
ControlMoves == ControlStep /\ UNCHANGED deliveryVars /\ StoppedBy("control")
EndMoves == EndStep /\ StoppedBy("stop")
JobMoves == JobStep /\ StoppedBy("delivery")
ActorMoves == ActorEnds /\ UNCHANGED <<deliveryVars, stopper>>

Next ==
  \/ StoreMoves \/ StageMoves \/ ControlMoves \/ EndMoves \/ JobMoves \/ ActorMoves
  \/ (Fault \/ Call) /\ UNCHANGED <<deliveryVars, stopper>>
  \/ (StopDelivery \/ Tamper \/ \E kind \in Kinds : Ask(kind)) /\ UNCHANGED stopper

Spec == DeliveryInit /\ [][Next]_allVars

(* Whoever is under way goes on, and an actor ends, at its deadline at the latest. *)
FairSpec ==
  /\ Spec
  /\ WF_allVars(StoreMoves) /\ WF_allVars(StageMoves) /\ WF_allVars(ControlMoves)
  /\ WF_allVars(EndMoves) /\ WF_allVars(JobMoves) /\ WF_allVars(ActorMoves)
-----------------------------------------------------------------------------
DeliveryTypeOK ==
  /\ phase \in {"none", "reserved", "completed", "uncertain"}
  /\ accepted \in BOOLEAN /\ consumed \in BOOLEAN /\ halted \in BOOLEAN /\ tampered \in BOOLEAN
  /\ qualified \in Nat
  /\ job \in {NoJob} \cup
       [kind : Kinds, head : Nat,
        at : {"asked", "proving", "recording", "saving", "reading", "copying", "copied",
              "completing", "rereading", "marking", "marked"}]
  /\ copy \in {"none", "live", "revoked"}
  /\ output \in {"absent", "partial", "payload", "torn", "marked"}

(* The output never says more than the journal: nothing is there without a reservation, no
   marker without the record of the completion, and what is called completed is all there,
   also for a cold look at it.  The records come once and in their order. *)
InOrder ==
  /\ \A i, j \in DOMAIN journal : i < j /\ journal[i] = journal[j] => journal[i] \notin Papers
  /\ \A i \in DOMAIN journal :
       /\ journal[i] = "accepted" => "finalized" \notin Between(0, i)
       /\ journal[i] = "reserved" => "finalized" \in Between(0, i)
       /\ journal[i] = "completed" => "reserved" \in Between(0, i)
DeliveryIsEarned ==
  /\ DeliveryTypeOK
  /\ output # "absent" => OnDisk("reserved")
  /\ output \in {"torn", "marked"} => OnDisk("completed")
  /\ OnDisk("completed") => output \in {"payload", "torn", "marked"}
  /\ phase = "completed" => output = "marked" /\ OnDisk("completed") /\ consumed
  /\ phase = "completed" /\ DestinationHolds => Inspected = "completed"
  /\ InOrder

(* A stop that reports no failure has the end of the job on disk, as its last record.  Only
   where a seal, a pause or resume, or a delivery that is now uncertain had failed and stopped
   the core before may it go without, and then STOPPED is not on disk. *)
StopIsRecorded ==
  stopping.at = "stopped" =>
    /\ store.closed
    /\ \/ state.phase \in Terminal /\ state.revision = Len(journal)
       \/ /\ ~OnDisk("STOPPED")
          /\ stopper \in {"seal", "control"} \/ (stopper = "delivery" /\ phase = "uncertain")

(* What is uncertain stays as it is, on disk and at the destination. *)
UncertainIsTheEnd ==
  [][phase = "uncertain" => UNCHANGED <<phase, journal, output, accepted, qualified>>]_allVars

(* A stop ends the copy: not one file more is written, whatever the writer was at. *)
StopEndsTheCopy == [][halted \/ ~Owned => UNCHANGED <<output, accepted, qualified>>]_allVars

(* Why all of this holds.  One record is being saved at a time, and who waits for it is where
   it says; it was asked for in an epoch that may have ended. *)
Last == journal[Len(journal)]
Unsaved == save.at \in {"asked", "appending"}
Waits(who) ==
  \/ who = "op" /\ ops # <<>> /\ Op.at \in {"saving", "concluding"}
  \/ who = "control" /\ controls # <<>> /\ Turn.at = "saving"
  \/ who = "stop" /\ stopping.at = "saving"
  \/ who = "delivery" /\ job.at \in {"saving", "completing"}
Begun == {<<"author", "attempt", "AUTHORING">>, <<"seal", "seal", "FROZEN">>,
          <<"judge", "assign", "REVIEWING">>}
Concluded == {<<"result", "REASSESS_REQUIRED">>, <<"result", "CORRECTION_REQUIRED">>,
              <<"ready", "DIAGNOSTIC_READY">>, <<"STOPPED", "STOPPED">>}
Recorded == {<<"accept", "saving", "accepted">>, <<"qualify", "saving", "finalized">>,
             <<"export", "saving", "reserved">>, <<"export", "completing", "completed">>}
WhatIsSaved ==
  /\ save.for = "op" =>
       /\ save.epoch = Op.epoch
       /\ Op.at = "saving" => <<Op.name, save.type, save.next.phase>> \in Begun
       /\ Op.at = "concluding" => <<save.type, save.next.phase>> \in Concluded
  /\ save.for = "control" =>
       save.type = Turn.kind /\ save.next.phase = state.phase /\ state.phase \in Resumable
  /\ save.for = "stop" => save.type = "STOPPED" /\ save.next.phase = "STOPPED"
  /\ save.for = "delivery" =>
       <<job.kind, job.at, save.type>> \in Recorded /\ save.next.phase = state.phase
SavesStand ==
  /\ \A who \in {"op", "control", "stop", "delivery"} :
       Waits(who) <=> save.at # "none" /\ save.for = who
  /\ save.at # "none" =>
       /\ WhatIsSaved
       /\ save.epoch <= core.epoch
       /\ save.epoch = core.epoch /\ save.for \in {"op", "delivery"} => mode = "active"
  /\ save.at \in {"written", "ok"} =>
       journal # <<>> /\ Len(journal) = save.next.revision /\ Last = save.type
  /\ save.at = "ok" => state = save.next
  /\ save.at \notin {"none", "ok"} =>
       /\ save.next.revision = state.revision + 1
       /\ save.next.attempts = state.attempts + (IF save.type = "attempt" THEN 1 ELSE 0)

(* Only the oldest stage has begun, in the phase in which it may, and it goes on in its epoch
   only while the owner is active. *)
StageUnderWay == ops # <<>> /\ Op.at \notin {"launched", "queued"}
QueueStands ==
  \A i \in DOMAIN ops :
    /\ i > 1 => ops[i].at \in {"launched", "queued"}
    /\ ops[i].at # "launched" =>
         ops[i].epoch <= core.epoch /\ (ops[i].epoch = core.epoch => mode = "active")
StagesStand ==
  /\ QueueStands
  /\ StageUnderWay =>
       /\ ~core.stopped /\ copy = "none" /\ stopping.at \in {"no", "called", "stages"}
       /\ Op.at = "closing" =>
            Op.name = "author" /\ state.phase \in Resumable /\ state.attempts < Budget
       /\ Op.at = "saving" /\ save.at # "ok" =>
            CASE Op.name = "author" -> state.phase \in Resumable
              [] Op.name = "seal" -> state.phase = "AUTHORING"
              [] Op.name = "judge" -> state.phase = "FROZEN"
       /\ Op.at = "acting" \/ (Op.at = "concluding" /\ save.at # "ok") =>
            state.phase \in {"AUTHORING", "REVIEWING"}

(* Of what the owner is at follows what is not under way. *)
AtRest == {"pausing", "paused", "resuming"}
ModesStand ==
  /\ stopping.at # "no" <=> mode = "stopped"
  /\ core.closing # "no" \/ store.revoked \/ mode = "blocked" => core.stopped
  /\ core.stopped => store.revoked \/ mode = "stopped"
  /\ core.closing = "closed" => store.closed
  /\ core.closing \in {"closed", "failed"} => save.at = "none"
  /\ mode \in AtRest \cup {"blocked"} =>
       ops = <<>> /\ actor = "none" /\ ~author /\ job = NoJob /\ ~OnDisk("STOPPED")
  /\ mode \in AtRest => ~core.stopped /\ core.denied /\ state.phase \in Resumable
  /\ qualifying <=> job # NoJob
  /\ job # NoJob =>
       /\ ops = <<>> /\ mode \in {"active", "stopped"} /\ stopping.at \in {"no", "called"}
       /\ ~OnDisk("STOPPED") /\ state.phase = "DIAGNOSTIC_READY"
  /\ stopping.at = "controls" => ops = <<>>
  /\ stopping.at \in {"closing", "saving"} => Tracked = {}
  /\ stopping.at = "saving" => ~core.stopped
  /\ stopping.at = "stopped" => ~stopping.failed /\ core.closing = "closed"
  /\ stopping.failed => stopping.at \in {"core", "failed"}

(* Pauses and resumes take their turns. *)
TurnsStand ==
  \A i \in DOMAIN controls :
    /\ i > 1 => controls[i].at = "queued"
    /\ controls[i].kind = "pause" =>
         /\ mode \in {"pausing", "blocked", "stopped"} /\ ops = <<>> /\ job = NoJob
         /\ mode = "pausing" =>
              /\ controls[i].id = core.epoch
              /\ \A j \in DOMAIN controls : controls[j].kind = "pause" => j = i
ControlsStand ==
  /\ TurnsStand
  /\ controls # <<>> /\ Turn.at # "queued" =>
       /\ ops = <<>> /\ job = NoJob
       /\ <<Turn.kind, Turn.at>> \in
            {<<kind, "cleaning">> : kind \in {"pause", "resume"}}
              \cup {<<"pause", at>> : at \in {"closing", "before", "saving", "after"}}
              \cup {<<"resume", at>> : at \in {"before", "consumed", "saving", "after"}}
       /\ mode \in {"stopped", IF Turn.at = "cleaning" THEN "blocked"
                               ELSE IF Turn.kind = "pause" THEN "pausing"
                               ELSE IF Turn.at = "before" THEN "paused" ELSE "resuming"}
  /\ controls # <<>> /\ mode # "stopped" =>
       /\ Turn.kind = "pause" /\ Turn.at \in {"saving", "after"} => space = "none" /\ ~custody
       /\ Turn.at = "after" => journal # <<>> /\ Last = Turn.kind
       /\ Turn.at = "consumed" => journal # <<>> /\ Last = "pause"

(* As long as nothing was cut off the controller knows what is on disk. *)
InStep == mode \notin {"blocked", "stopped"} /\ ~core.stopped /\ Owned
CountsStand ==
  /\ Unsaved /\ save.type = "attempt" => save.next.attempts = Spent + 1
  /\ save.at = "written" /\ save.type = "attempt" => save.next.attempts = Spent
  /\ InStep =>
       /\ save.at # "failed"
       /\ save.at # "none" => save.epoch = core.epoch
       /\ save.at = "written" => Spent = save.next.attempts
       /\ save.at # "written" => state.revision = Len(journal) /\ Spent = state.attempts
  /\ state.phase \in Terminal =>
       state.revision = Len(journal) /\ save.at \notin {"asked", "appending", "written"}

(* What may follow in the journal: pauses and resumes, *)
PausesStand ==
  /\ OpenPause =>
       \/ mode \in {"paused", "resuming", "blocked", "stopped"}
       \/ mode = "pausing" /\ controls # <<>> /\ Turn.kind = "pause" /\ Turn.at \in {"saving", "after"}
  /\ Unsaved /\ save.type = "pause" => ~OpenPause
  /\ Unsaved /\ save.type = "resume" => journal # <<>> /\ Last = "pause"
  /\ journal # <<>> /\ Last = "resume" =>
       /\ state.phase \in Resumable
       /\ Unsaved => save.type \in {"attempt", "pause", "STOPPED"}

(* the end, which is known, or about to be, or about to fail a stop, *)
EndStands ==
  /\ save.at # "none" /\ save.type # "STOPPED" => ~OnDisk("STOPPED")
  /\ OnDisk("STOPPED") /\ state.phase # "STOPPED" =>
       \/ save.at = "written" \/ stopping.failed
       \/ ~core.stopped /\ state.phase \notin Terminal /\ state.revision # Len(journal)

(* and the papers of the delivery, with what is at the destination. *)
JobStands ==
  /\ Unsaved =>
       /\ save.type = "accepted" => ~OnDisk("accepted") /\ ~OnDisk("finalized")
       /\ save.type = "finalized" => ~OnDisk("finalized")
       /\ save.type = "reserved" => journal # <<>> /\ Last = "finalized"
       /\ save.type = "completed" => OnDisk("reserved") /\ ~OnDisk("completed")
  /\ phase = "none" => output = "absent" /\ copy = "none" /\ ~OnDisk("reserved") /\ ~OnDisk("completed")
  /\ job.at \notin {"none", "asked"} =>
       IF job.kind = "export" THEN phase = "reserved" /\ consumed ELSE phase = "none"
  /\ job.at \in {"copying", "copied", "completing", "rereading", "marking", "marked"} =>
       job.kind = "export" /\ OnDisk("reserved")
  /\ job.kind = "export" /\ job.at = "reading" => OnDisk("reserved")
  /\ job.at \in {"copied", "completing"} => output = "payload"
  /\ job.at \in {"rereading", "marking"} => OnDisk("completed")
  /\ job.at = "marked" => output = "marked"
  /\ phase = "uncertain" => store.revoked /\ job = NoJob /\ save.at = "none"
  /\ copy # "none" => state.phase \in {"DIAGNOSTIC_READY", "STOPPED"}
  /\ state.phase = "DIAGNOSTIC_READY" => journal # <<>>
DeliveryStands ==
  /\ SavesStand /\ StagesStand /\ ModesStand /\ ControlsStand
  /\ CountsStand /\ PausesStand /\ EndStands /\ JobStands

(* Who stopped the core is known: a stop did so only when the end was on record, or failed. *)
StopperStands ==
  /\ stopper = "nobody" <=> ~core.stopped
  /\ stopper \in {"nobody", "seal", "control", "stop", "delivery"}
  /\ stopper = "delivery" => phase = "uncertain"
  /\ stopper = "stop" => stopping.failed \/ state.phase \in Terminal

(* The controls are on record, and for the reasons above: a pause is drained, a resume is used
   once, an attempt is paid for, and a stop is in the journal unless something else stopped
   the core before it. *)
ControlsOnRecord == DeliveryStands /\ StopperStands /\ TakenUpOnce /\ StopIsRecorded

(* What a stop or a failure has ended goes on nowhere, and what a fence has cut off neither. *)
DeliveryHalts == UncertainIsTheEnd /\ StopEndsTheCopy /\ FencedIsQuiet

(* Every stop ends, and so does every pause, every resume that has begun, and every request
   of the coordinator. *)
AllEnds ==
  /\ (stopping.at = "called") ~> (stopping.at \in {"stopped", "failed"})
  /\ (mode \in {"pausing", "resuming"}) ~> (mode \notin {"pausing", "resuming"})
  /\ (job.at = "asked") ~> (job = NoJob)
=============================================================================
