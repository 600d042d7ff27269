------------------------------- MODULE Custody -------------------------------
(***************************************************************************)
(* createWorkspaceEngine of src/src/governance/workspace.mjs, the V2 lane: *)
(* the workspace of one attempt.  begin() copies the accepted baseline,    *)
(* the author changes granted files one at a time, seal() copies what      *)
(* there is, transfer() makes a custody of it, and judges read that        *)
(* through leases while the job goes on.  Revoke and close come at any     *)
(* moment.                                                                 *)
(*                                                                         *)
(* Every await is a point where others act, and every step after one       *)
(* guards itself anew.  The rest of the world may change a tree, the       *)
(* author may fail, and the controller's state may move on: `phase` is the *)
(* answer of authority.readCurrent().  A workspace that finds something it *)
(* did not do, or fails half way, is poisoned for good and keeps its lock  *)
(* on disk.  After a crash the root is there, and begin() refuses any root *)
(* that is: nothing is taken up again.                                     *)
(*                                                                         *)
(* A text stands for the bytes of a file, and a tree somebody else changed *)
(* is in `tampered`.  Where two operators with the same parameters follow  *)
(* each other, the first is a plausible mistake in the second.             *)
(***************************************************************************)
EXTENDS Integers, Sequences, FiniteSets

CONSTANTS
  Paths,        \* the files of the plan
  Readers,      \* the judges that read the candidate
  Plans,        \* grants of a plan: an operation for each path
  Texts,        \* what an author may write; 0 is what the baseline holds
  Capacity,     \* requests in the queue, reads under way (64 in the code)
  MaxTampers    \* bound on trees that change from outside

Operations == {"create", "replace", "delete"}
Missing == -1
Torn == -2
NoTree == [p \in Paths |-> Missing]
Contents == Texts \cup {0, Missing}

ASSUME CustodyAssumption ==
  /\ Plans \subseteq [Paths -> Operations]
  /\ {"validator"} \subseteq Readers /\ Readers \subseteq {"validator", "reviewer"}
  /\ Texts \subseteq Nat \ {0}
  /\ Capacity \in Nat \ {0} /\ MaxTampers \in Nat

VARIABLES
  engine,    \* poisoned, revoked, closed, the admission of the author, the epoch
  grants,    \* the operation the plan allows on each path
  begun,     \* how far begin() has come
  author,    \* the author's child: its run and its disposal
  queue,     \* the author's oldest first; the head is carried out
  working,   \* the tree the author changes
  cursor,    \* what the engine believes is in it
  consumed,  \* paths created or deleted
  seal,      \* how far seal() has come, its epoch, and the protected trees it saw
  sealed,    \* the sealed tree
  custody,   \* how far transfer() has come, and its epoch
  holds,     \* what each reader holds: a view, a lease, or nothing
  reads,     \* per reader how far its read has come
  replica,   \* how far the validator's replica has come, and the phase it began in
  delivery,  \* a delivery was admitted
  closing,   \* how far close() has come
  lock,      \* the lock file of the workspace is on disk
  phase,     \* what the controller says of the job
  tampered   \* trees that somebody else has changed

tree == <<working, cursor, consumed>>
work == <<queue, tree>>
judging == <<holds, reads, replica, delivery>>
world == <<author, phase, tampered>>
vars == <<engine, grants, begun, work, seal, sealed, custody, judging, closing, lock, world>>

Stages == <<"AUTHORING", "FROZEN", "VALIDATING", "REVIEWING", "DIAGNOSTIC_READY">>
Baseline == [p \in Paths |-> IF grants[p] = "create" THEN Missing ELSE 0]

Init ==
  /\ engine = [poisoned |-> FALSE, revoked |-> FALSE, closed |-> FALSE,
               admission |-> FALSE, epoch |-> 0]
  /\ grants \in Plans
  /\ begun = "no"
  /\ author = [run |-> "working", disposal |-> "pending"]
  /\ queue = <<>>
  /\ working = NoTree /\ cursor = Baseline /\ consumed = {}
  /\ seal = [at |-> "no", epoch |-> 0, saw |-> FALSE]
  /\ sealed = NoTree
  /\ custody = [at |-> "no", epoch |-> 0]
  /\ holds = [r \in Readers |-> "nothing"]
  /\ reads = [r \in Readers |-> "none"]
  /\ replica = [at |-> "none", phase |-> "none"]
  /\ delivery = FALSE
  /\ closing = "no"
  /\ lock = FALSE
  /\ phase = "AUTHORING"
  /\ tampered = {}
-----------------------------------------------------------------------------
(* poison(), revoke() and the guards.  An epoch counts for being the one a task began
   in: a second poison would change it again, and nobody could tell. *)
Poisoned ==
  IF engine.poisoned THEN engine
  ELSE [engine EXCEPT !.poisoned = TRUE, !.admission = FALSE, !.epoch = @ + 1]
Revoked ==
  IF engine.revoked THEN engine
  ELSE [engine EXCEPT !.revoked = TRUE, !.admission = FALSE, !.epoch = @ + 1]

Live == ~engine.poisoned /\ ~engine.revoked /\ ~engine.closed
Owned == "lock" \notin tampered
Whole(t) == t \notin tampered
ProtectedStill == ("protected" \in tampered) = seal.saw

(* guard() as the author's epoch, and as the owner's later ones: current() wants the
   very state the attempt began with, ownership() comes last and poisons. *)
Authorized == phase = "AUTHORING"
MayWrite == Live /\ engine.epoch = 0 /\ engine.admission /\ Authorized
MaySeal(e) == Live /\ engine.epoch = e /\ Authorized
-----------------------------------------------------------------------------
(* beginAttempt(), once: the root must not exist, nor anything but the baseline. *)
Begin ==
  /\ begun = "no" /\ closing = "no"
  /\ Live /\ Authorized
  /\ begun' = "checking"
  /\ engine' = [engine EXCEPT !.admission = TRUE]
  /\ UNCHANGED <<grants, work, seal, sealed, custody, judging, closing, lock, world>>

(* The steps of begin(): the root, the lock, the copy of the baseline, and a second
   look at the source before the author gets its handle. *)
BeginAllocates ==
  /\ begun = "checking"
  /\ MayWrite /\ Whole("protected")
  /\ begun' = "allocated"
  /\ UNCHANGED <<engine, grants, work, seal, sealed, custody, judging, closing, lock, world>>

BeginLocks ==
  /\ begun = "allocated"
  /\ MayWrite
  /\ begun' = "owned"
  /\ lock' = TRUE
  /\ UNCHANGED <<engine, grants, work, seal, sealed, custody, judging, closing, world>>

BeginCopies ==
  /\ begun = "owned"
  /\ MayWrite /\ Owned /\ Whole("protected")
  /\ begun' = "copied"
  /\ working' = Baseline
  /\ UNCHANGED <<engine, grants, queue, cursor, consumed, seal, sealed, custody,
                 judging, closing, lock, world>>

BeginPublishes ==
  /\ begun = "copied"
  /\ MayWrite /\ Owned /\ Whole("protected") /\ Whole("working")
  /\ begun' = "published"
  /\ UNCHANGED <<engine, grants, work, seal, sealed, custody, judging, closing, lock, world>>

(* A guard that fails before the root is made revokes the workspace; later it poisons. *)
BeginMayGoOn ==
  /\ MayWrite
  /\ begun \in {"owned", "copied"} => Owned
  /\ begun # "allocated" => Whole("protected")
  /\ begun = "copied" => Whole("working")

BeginFails ==
  /\ begun \in {"checking", "allocated", "owned", "copied"}
  /\ ~BeginMayGoOn
  /\ begun' = "failed"
  /\ engine' = IF begun = "checking" THEN Revoked ELSE Poisoned
  /\ UNCHANGED <<grants, work, seal, sealed, custody, judging, closing, lock, world>>
-----------------------------------------------------------------------------
(* workspaceFile(): a request of the author, who holds the handle of epoch 0. *)
Requests ==
  [op : Operations \cup {"read"}, path : Paths, expects : Contents, text : Texts \cup {0},
   at : {"waiting"}, submitted : {FALSE}]

(* Only what matters to an operation varies. *)
Sensible(r) ==
  /\ r.op = "create" <=> r.expects = Missing
  /\ r.op = "read" => r.expects = 0
  /\ r.op \in {"read", "delete"} <=> r.text = 0

Enqueue(r) ==
  /\ begun = "published" /\ author.run = "working"
  /\ MayWrite
  /\ Len(queue) < Capacity
  /\ IF Owned THEN queue' = Append(queue, r) /\ UNCHANGED engine
              ELSE engine' = Poisoned /\ UNCHANGED queue
  /\ UNCHANGED <<grants, begun, tree, seal, sealed, custody, judging, closing, lock, world>>

Job == Head(queue)
JobAt(label) == queue # <<>> /\ Job.at = label
Moved(at, submitted) == [Job EXCEPT !.at = at, !.submitted = submitted]
Progress(job) == queue' = <<job>> \o Tail(queue)

(* perform(): the grant, one creation or deletion for each path, and the contents the
   author says it has seen. *)
Allowed(r) ==
  /\ grants[r.path] = r.op
  /\ r.path \notin consumed
  /\ cursor[r.path] = r.expects

JobReads ==
  /\ JobAt("waiting") /\ Job.op = "read"
  /\ MayWrite /\ Owned /\ Whole("working")
  /\ queue' = Tail(queue)
  /\ UNCHANGED <<engine, grants, begun, tree, seal, sealed, custody, judging,
                 closing, lock, world>>

JobRefused ==
  /\ JobAt("waiting") /\ Job.op # "read"
  /\ MayWrite /\ Owned
  /\ ~Allowed(Job)
  /\ queue' = Tail(queue)
  /\ UNCHANGED <<engine, grants, begun, tree, seal, sealed, custody, judging,
                 closing, lock, world>>

(* A file to create is opened under its name, one to replace is staged beside the tree. *)
JobStarts ==
  /\ JobAt("waiting") /\ Job.op # "read"
  /\ MayWrite /\ Owned /\ Whole("working")
  /\ Allowed(Job)
  /\ Progress(Moved("staged", Job.op # "delete"))
  /\ working' = IF Job.op = "create" THEN [working EXCEPT ![Job.path] = Torn] ELSE working
  /\ UNCHANGED <<engine, grants, begun, cursor, consumed, seal, sealed, custody,
                 judging, closing, lock, world>>

(* The last byte, the rename or the unlink. *)
Result(r) == IF r.op = "delete" THEN Missing ELSE r.text
JobCommits ==
  /\ JobAt("staged")
  /\ MayWrite /\ Owned
  /\ Progress(Moved("committed", TRUE))
  /\ working' = [working EXCEPT ![Job.path] = Result(Job)]
  /\ UNCHANGED <<engine, grants, begun, cursor, consumed, seal, sealed, custody,
                 judging, closing, lock, world>>

JobAcknowledges ==
  /\ JobAt("committed")
  /\ MayWrite /\ Owned /\ Whole("working")
  /\ queue' = Tail(queue)
  /\ cursor' = [cursor EXCEPT ![Job.path] = Result(Job)]
  /\ consumed' = IF Job.op = "replace" THEN consumed ELSE consumed \cup {Job.path}
  /\ UNCHANGED <<engine, grants, begun, working, seal, sealed, custody, judging,
                 closing, lock, world>>

(* A guard fails, or the tree is found changed: what was submitted to the disk poisons
   the workspace, and so do a lock and a scanned tree that are not the engine's own.
   Between the two scans a change is noticed if it is one of the file at hand. *)
ScansTree == Job.at = "waiting" /\ (Job.op = "read" \/ Allowed(Job))
JobMayFail ==
  \/ ~MayWrite \/ ~Owned
  \/ ~Whole("working") /\ (ScansTree \/ Job.at # "waiting")

FoundTampered == MayWrite /\ (~Owned \/ ScansTree)
Fails == Job.submitted \/ FoundTampered
JobFails ==
  /\ queue # <<>>
  /\ JobMayFail
  /\ queue' = Tail(queue)
  /\ engine' = IF Fails THEN Poisoned ELSE engine
  /\ UNCHANGED <<grants, begun, tree, seal, sealed, custody, judging, closing,
                 lock, world>>
-----------------------------------------------------------------------------
(* seal(), once: the author's epoch ends, and what it had asked for settles. *)
Seal ==
  /\ seal.at = "no"
  /\ Live /\ begun # "no"
  /\ engine' = [engine EXCEPT !.admission = FALSE, !.epoch = @ + 1]
  /\ seal' = [seal EXCEPT !.at = "waiting", !.epoch = engine.epoch + 1]
  /\ UNCHANGED <<grants, begun, work, sealed, custody, judging, closing, lock, world>>

Begun == begun \in {"published", "failed"}
AuthorSettled == author.run # "working" /\ author.disposal # "pending"
AuthorCompleted == author.run = "completed" /\ author.disposal = "done"

SealSettlesEarly == Begun /\ AuthorSettled
SealSettled == Begun /\ queue = <<>> /\ AuthorSettled
SealBegins ==
  /\ seal.at = "waiting"
  /\ SealSettled
  /\ AuthorCompleted
  /\ MaySeal(seal.epoch) /\ Owned /\ Whole("working")
  /\ seal' = [seal EXCEPT !.at = "begun"]
  /\ UNCHANGED <<engine, grants, begun, work, sealed, custody, judging, closing, lock, world>>

SealAllocates ==
  /\ seal.at = "begun"
  /\ MaySeal(seal.epoch) /\ Owned
  /\ seal' = [seal EXCEPT !.at = "allocated"]
  /\ UNCHANGED <<engine, grants, begun, work, sealed, custody, judging, closing, lock, world>>

(* The contents are those read when the seal began, and nothing has changed since. *)
SealCopies ==
  /\ seal.at = "allocated"
  /\ MaySeal(seal.epoch) /\ Owned
  /\ seal' = [seal EXCEPT !.at = "copied"]
  /\ sealed' = working
  /\ UNCHANGED <<engine, grants, begun, work, custody, judging, closing, lock, world>>

SealAcknowledges ==
  /\ seal.at = "copied"
  /\ MaySeal(seal.epoch) /\ Owned /\ Whole("working") /\ Whole("sealed")
  /\ seal' = [seal EXCEPT !.at = "sealed", !.saw = "protected" \in tampered]
  /\ UNCHANGED <<engine, grants, begun, work, sealed, custody, judging, closing, lock, world>>

(* What fails before anything is written refuses the seal, and poisons only where
   something was found that is not the engine's own. *)
SealScans == (IF seal.at \in {"waiting", "copied"} THEN {"working"} ELSE {})
               \cup (IF seal.at = "copied" THEN {"sealed"} ELSE {})
SealMayGoOn == MaySeal(seal.epoch) /\ Owned /\ SealScans \cap tampered = {}

SealWaitsOn ==
  /\ seal.at \in {"begun", "allocated", "copied"} /\ ~SealMayGoOn
  /\ seal' = [seal EXCEPT !.at = "refused"]
  /\ engine' = IF seal.at # "begun" \/ MaySeal(seal.epoch) THEN Poisoned ELSE engine
  /\ UNCHANGED <<grants, begun, work, sealed, custody, judging, closing, lock, world>>
SealFails ==
  /\ \/ seal.at = "waiting" /\ SealSettled /\ (~AuthorCompleted \/ ~SealMayGoOn)
     \/ seal.at \in {"begun", "allocated", "copied"} /\ ~SealMayGoOn
  /\ seal' = [seal EXCEPT !.at = "refused"]
  /\ engine' = IF \/ seal.at \in {"allocated", "copied"}
                  \/ seal.at = "waiting" /\ AuthorCompleted /\ MaySeal(seal.epoch)
                  \/ seal.at = "begun" /\ MaySeal(seal.epoch)
               THEN Poisoned ELSE engine
  /\ UNCHANGED <<grants, begun, work, sealed, custody, judging, closing, lock, world>>
-----------------------------------------------------------------------------
(* transfer(), once: the epoch of the views ends before the controller may record the
   candidate.  Another call, or one without the seal's handle, poisons. *)
Transfer ==
  /\ seal.at = "sealed" /\ Live
  /\ IF custody.at = "no"
     THEN /\ engine' = [engine EXCEPT !.admission = FALSE, !.epoch = @ + 1]
          /\ custody' = [at |-> "moving", epoch |-> engine.epoch + 1]
     ELSE engine' = Poisoned /\ UNCHANGED custody
  /\ UNCHANGED <<grants, begun, work, seal, sealed, judging, closing, lock, world>>

Pending(r) == reads[r] \in {"asked", "reading"}
Viewing == \E r \in Readers : holds[r] = "view" /\ Pending(r)
TransferMayGoOn ==
  /\ AuthorCompleted /\ MaySeal(custody.epoch)
  /\ Owned /\ Whole("sealed") /\ Whole("working") /\ ProtectedStill

TransferSettles ==
  /\ custody.at = "moving" /\ ~Viewing
  /\ custody' = [custody EXCEPT !.at = IF TransferMayGoOn THEN "held" ELSE "refused"]
  /\ engine' = IF TransferMayGoOn THEN engine ELSE Poisoned
  /\ UNCHANGED <<grants, begun, work, seal, sealed, judging, closing, lock, world>>

(* check() of the custody, for its owner, for a delivery, or for a reader's lease.  The
   controller's state comes first: one that has moved past the candidate poisons, one
   that is not there yet, or that does not know the reader, refuses. *)
Judged == {"FROZEN", "VALIDATING", "REVIEWING", "DIAGNOSTIC_READY"}
Assigned(who) ==
  \/ who \in {"owner", "delivery"}
  \/ who = "validator" /\ phase \in {"VALIDATING", "REVIEWING", "DIAGNOSTIC_READY"}
  \/ who = "reviewer" /\ phase \in {"REVIEWING", "DIAGNOSTIC_READY"}

Intact == Owned /\ Whole("sealed") /\ Whole("working") /\ ProtectedStill

Check(who) ==
  IF ~Live \/ custody.at # "held" \/ engine.epoch # custody.epoch \/ phase = "UNAVAILABLE"
  THEN "refused"
  ELSE IF phase \notin Judged \cup {"AUTHORING"} THEN "poisoned"
  ELSE IF (phase = "AUTHORING" /\ who # "owner") \/ ~Assigned(who) THEN "refused"
  ELSE IF Intact THEN "ok" ELSE "poisoned"

After(outcome) == engine' = IF outcome = "poisoned" THEN Poisoned ELSE engine

(* verify() and descriptor(), whoever asks. *)
Verify ==
  /\ Check("owner") = "poisoned"
  /\ engine' = Poisoned
  /\ UNCHANGED <<grants, begun, work, seal, sealed, custody, judging, closing, lock, world>>

Busy == Cardinality({r \in Readers : holds[r] = "lease" /\ Pending(r)})
          + (IF replica.at \in {"asked", "making"} THEN 1 ELSE 0)

(* view() for the lane without a custody, lease() for the lane with one. *)
CheckView ==
  IF ~MaySeal(seal.epoch) THEN "refused"
  ELSE IF Owned /\ Whole("sealed") THEN "ok" ELSE "poisoned"

View(r) ==
  /\ seal.at = "sealed" /\ custody.at = "no"
  /\ holds[r] = "nothing"
  /\ CheckView # "refused"
  /\ After(CheckView)
  /\ holds' = IF CheckView = "ok" THEN [holds EXCEPT ![r] = "view"] ELSE holds
  /\ UNCHANGED <<grants, begun, work, seal, sealed, custody, reads, replica, delivery,
                 closing, lock, world>>

Lease(r) ==
  /\ ~delivery
  /\ ~Pending(r) /\ holds[r] # "lease"
  /\ Check(r) # "refused"
  /\ After(Check(r))
  /\ holds' = IF Check(r) = "ok" THEN [holds EXCEPT ![r] = "lease"] ELSE holds
  /\ reads' = [reads EXCEPT ![r] = "none"]
  /\ UNCHANGED <<grants, begun, work, seal, sealed, custody, replica, delivery, closing, lock,
                 world>>

(* A read, one for each handle, is asked for, then guarded before it looks and again
   before it answers. *)
CheckRead(r) == IF holds[r] = "view" THEN CheckView ELSE Check(r)

AskRead(r) ==
  /\ ~delivery /\ Live
  /\ holds[r] # "nothing" /\ reads[r] = "none"
  /\ holds[r] = "view" => engine.epoch = seal.epoch
  /\ holds[r] = "lease" => Busy < Capacity
  /\ reads' = [reads EXCEPT ![r] = "asked"]
  /\ UNCHANGED <<engine, grants, begun, work, seal, sealed, custody, holds, replica, delivery,
                 closing, lock, world>>

Settled(r, outcome, next) ==
  /\ After(outcome)
  /\ reads' = [reads EXCEPT ![r] = IF outcome = "ok" THEN next ELSE "refused"]
  /\ UNCHANGED <<grants, begun, work, seal, sealed, custody, holds, replica, delivery, closing,
                 lock, world>>

StartRead(r) ==
  /\ reads[r] = "asked"
  /\ Settled(r, CheckRead(r), "reading")

AnswerUnguarded(r) ==
  /\ reads[r] = "reading"
  /\ Settled(r, "ok", "answered")
AnswerRead(r) ==
  /\ reads[r] = "reading"
  /\ Settled(r, CheckRead(r), "answered")
-----------------------------------------------------------------------------
(* replica(): an independent copy of the sealed tree for the validator's commands.  The
   journal may not move on while it lives. *)
AskReplica ==
  /\ ~delivery /\ Live
  /\ holds["validator"] = "lease"
  /\ replica.at \in {"none", "closed", "bad"}
  /\ Busy < Capacity
  /\ replica' = [at |-> "asked", phase |-> "none"]
  /\ UNCHANGED <<engine, grants, begun, work, seal, sealed, custody, holds, reads, delivery,
                 closing, lock, world>>

CheckReplica ==
  IF Check("validator") = "ok" /\ replica.at # "asked" /\ phase # replica.phase THEN "refused"
  ELSE Check("validator")

ReplicaGoesOn(from, to) ==
  /\ replica.at = from
  /\ After(CheckReplica)
  /\ replica' = IF CheckReplica = "ok" THEN [at |-> to, phase |-> phase]
                ELSE [replica EXCEPT !.at = "bad"]
  /\ UNCHANGED <<grants, begun, work, seal, sealed, custody, holds, reads, delivery, closing,
                 lock, world>>

StartReplica == ReplicaGoesOn("asked", "making")
MakeReplica == ReplicaGoesOn("making", "ready")

(* prepareDelivery(), once: everything that reads the candidate has ended, and the job
   is ready; from then on nothing new reads it. *)
SettledAll == Busy = 0 /\ replica.at # "ready"
PrepareDelivery ==
  /\ ~delivery
  /\ SettledAll
  /\ Check("delivery") # "refused"
  /\ phase = "DIAGNOSTIC_READY" \/ Check("delivery") = "poisoned"
  /\ After(Check("delivery"))
  /\ delivery' = (Check("delivery") = "ok")
  /\ UNCHANGED <<grants, begun, work, seal, sealed, custody, holds, reads, replica, closing,
                 lock, world>>
-----------------------------------------------------------------------------
(* revoke() closes the replicas; close() revokes, waits for everything and removes the
   lock, if it is still the engine's own and nothing has gone wrong: the author has
   completed, and a delivery closes without a failed write or a changed destination. *)
ReplicaRevoked == replica' = IF replica.at = "ready" THEN [replica EXCEPT !.at = "closed"] ELSE replica

Revoke ==
  /\ ~engine.revoked
  /\ engine' = Revoked
  /\ ReplicaRevoked
  /\ UNCHANGED <<grants, begun, work, seal, sealed, custody, holds, reads, delivery, closing,
                 lock, world>>

Close ==
  /\ closing = "no"
  /\ closing' = "waiting"
  /\ engine' = Revoked
  /\ ReplicaRevoked
  /\ UNCHANGED <<grants, begun, work, seal, sealed, custody, holds, reads, delivery, lock, world>>

Quiet ==
  /\ begun \in {"no", "published", "failed"}
  /\ queue = <<>>
  /\ seal.at \in {"no", "sealed", "refused"}
  /\ custody.at # "moving"
  /\ \A r \in Readers : ~Pending(r)
  /\ replica.at \notin {"asked", "making"}

CloseSettles ==
  /\ closing = "waiting"
  /\ Quiet
  /\ begun # "no" => AuthorSettled
  /\ \E failed \in IF delivery THEN BOOLEAN ELSE {FALSE} :
       engine' = IF lock /\ (failed \/ ~AuthorCompleted) THEN Poisoned
                 ELSE IF ~lock /\ ~engine.poisoned THEN [engine EXCEPT !.closed = TRUE]
                 ELSE engine
  /\ closing' = IF engine'.poisoned THEN "refused" ELSE IF lock THEN "releasing" ELSE "closed"
  /\ UNCHANGED <<grants, begun, work, seal, sealed, custody, judging, lock, world>>

CloseReleases ==
  /\ closing = "releasing"
  /\ IF Owned
     THEN lock' = FALSE /\ closing' = "closed" /\ engine' = [engine EXCEPT !.closed = TRUE]
     ELSE UNCHANGED lock /\ closing' = "refused" /\ engine' = Poisoned
  /\ UNCHANGED <<grants, begun, work, seal, sealed, custody, judging, world>>
-----------------------------------------------------------------------------
(* The author's child ends and is disposed, by itself or by the owner's abort. *)
AuthorEnds ==
  /\ begun # "no"
  /\ \/ /\ author.run = "working"
        /\ \E end \in {"completed", "failed"} : author' = [author EXCEPT !.run = end]
     \/ /\ author.run # "working" /\ author.disposal = "pending"
        /\ \E end \in {"done", "failed"} : author' = [author EXCEPT !.disposal = end]
  /\ UNCHANGED <<engine, grants, begun, work, seal, sealed, custody, judging, closing, lock,
                 phase, tampered>>

(* The controller records the candidate it has in custody and goes on, or the job takes
   another turn, or the controller has stopped and answers no more.  Neither that nor a
   changed tree, but for the lock, is looked at once the workspace is revoked. *)
Advance ==
  /\ phase \in Judged \cup {"AUTHORING"} /\ phase # "DIAGNOSTIC_READY"
  /\ custody.at = "held"
  /\ \E i \in DOMAIN Stages : Stages[i] = phase /\ phase' = Stages[i + 1]
  /\ UNCHANGED <<engine, grants, begun, work, seal, sealed, custody, judging, closing, lock,
                 author, tampered>>

Leave ==
  /\ Live
  /\ phase \notin {"OTHER", "UNAVAILABLE"}
  /\ phase' \in {"OTHER", "UNAVAILABLE"}
  /\ UNCHANGED <<engine, grants, begun, work, seal, sealed, custody, judging, closing, lock,
                 author, tampered>>

Tamper(t) ==
  /\ Cardinality(tampered) < MaxTampers
  /\ t \notin tampered
  /\ t = "lock" => lock
  /\ t # "lock" => Live
  /\ t = "sealed" => seal.at \in {"copied", "sealed"}
  /\ t = "working" => begun \in {"copied", "published"}
  /\ tampered' = tampered \cup {t}
  /\ UNCHANGED <<engine, grants, begun, work, seal, sealed, custody, judging, closing, lock,
                 author, phase>>

(* What the engine does by itself. *)
EngineStep ==
  \/ BeginAllocates \/ BeginLocks \/ BeginCopies \/ BeginPublishes \/ BeginFails
  \/ JobReads \/ JobRefused \/ JobStarts \/ JobCommits \/ JobAcknowledges \/ JobFails
  \/ SealBegins \/ SealAllocates \/ SealCopies \/ SealAcknowledges \/ SealFails
  \/ TransferSettles
  \/ \E r \in Readers : StartRead(r) \/ AnswerRead(r)
  \/ StartReplica \/ MakeReplica
  \/ CloseSettles \/ CloseReleases

Call ==
  \/ Begin \/ Seal \/ Transfer \/ Verify \/ Revoke
  \/ \E r \in Requests : Sensible(r) /\ Enqueue(r)
  \/ \E r \in Readers : View(r) \/ Lease(r) \/ AskRead(r)
  \/ PrepareDelivery

World == AuthorEnds \/ Leave \/ \E t \in {"lock", "working", "sealed", "protected"} : Tamper(t)
-----------------------------------------------------------------------------
(* Every variable has its type, and no queue runs over. *)
JobType ==
  [op : Operations \cup {"read"}, path : Paths, expects : Contents, text : Texts \cup {0},
   at : {"waiting", "staged", "committed"}, submitted : BOOLEAN]
Phases == {"AUTHORING", "OTHER", "UNAVAILABLE"} \cup Judged
EngineType ==
  [poisoned : BOOLEAN, revoked : BOOLEAN, closed : BOOLEAN, admission : BOOLEAN, epoch : 0 .. 4]

AttemptTyped ==
  /\ grants \in [Paths -> Operations]
  /\ begun \in {"no", "checking", "allocated", "owned", "copied", "published", "failed"}
  /\ author \in [run : {"working", "completed", "failed"}, disposal : {"pending", "done", "failed"}]
  /\ queue \in Seq(JobType) /\ Len(queue) <= Capacity
  /\ working \in [Paths -> Contents \cup {Torn}]
  /\ cursor \in [Paths -> Contents]
  /\ seal \in [at : {"no", "waiting", "begun", "allocated", "copied", "sealed", "refused"},
               epoch : Nat, saw : BOOLEAN]
  /\ sealed \in [Paths -> Contents \cup {Torn}]
  /\ closing \in {"no", "waiting", "releasing", "closed", "refused"}
  /\ lock \in BOOLEAN
JudgingTyped ==
  /\ custody \in [at : {"no", "moving", "held", "refused"}, epoch : Nat]
  /\ holds \in [Readers -> {"nothing", "view", "lease"}]
  /\ reads \in [Readers -> {"none", "asked", "reading", "answered", "refused"}]
  /\ replica \in [at : {"none", "asked", "making", "ready", "closed", "bad"},
                  phase : Phases \cup {"none"}]
  /\ delivery \in BOOLEAN
  /\ phase \in Phases
  /\ tampered \subseteq {"lock", "working", "sealed", "protected"}

TypeOK == engine \in EngineType /\ AttemptTyped /\ JudgingTyped /\ Busy <= Capacity

(* Every turn of the epoch is on record: a seal, a transfer, a poison and a revocation
   turn it once each, so that an epoch names what the workspace has been through. *)
EpochOnRecord ==
  /\ engine.epoch = (IF seal.at = "no" THEN 0 ELSE 1) + (IF custody.at = "no" THEN 0 ELSE 1)
                      + (IF engine.poisoned THEN 1 ELSE 0) + (IF engine.revoked THEN 1 ELSE 0)
  /\ seal.at # "no" => seal.epoch = 1
  /\ custody.at # "no" => custody.epoch = 2 /\ seal.at = "sealed"

(* No torn tree: what is on disk is what the author was told, unless a change is under
   way or the workspace is poisoned; whatever was cut short is never taken for work. *)
NoTornTree ==
  (begun = "published" /\ working # cursor) =>
    engine.poisoned \/ (queue # <<>> /\ Job.submitted)

(* What a seal holds is the baseline with every acknowledged change in it and no other,
   and its author had completed and was gone. *)
SealHoldsTheWork ==
  seal.at = "sealed" =>
    /\ sealed = cursor /\ working = cursor
    /\ \A p \in Paths : grants[p] = "replace" => sealed[p] # Missing
    /\ AuthorCompleted /\ queue = <<>>

(* Only the oldest request is under way, and as long as nothing has gone wrong the tree
   differs from what the author was told in the file of that request alone, once its
   change was submitted. *)
OneAtATime ==
  /\ \A i \in DOMAIN queue : i > 1 => queue[i].at = "waiting"
  /\ \A i \in DOMAIN queue : queue[i].at = "waiting" => ~queue[i].submitted
  /\ \A i \in DOMAIN queue : queue[i].at # "waiting" =>
       queue[i].op # "read" /\ grants[queue[i].path] = queue[i].op
  /\ begun = "published" /\ ~engine.poisoned =>
       /\ \A p \in Paths : working[p] # cursor[p] => queue # <<>> /\ p = Job.path /\ Job.submitted
       /\ JobAt("committed") => working[Job.path] = Result(Job)

(* The author's tree begins as the baseline, and nobody but the author changes it: what is
   being sealed is what was acknowledged. *)
TreeOfTheAuthor ==
  /\ begun # "published" => cursor = Baseline /\ queue = <<>>
  /\ begun = "copied" => working = Baseline
  /\ begun = "failed" => ~Live
  /\ \A p \in Paths : grants[p] = "replace" => cursor[p] # Missing
  /\ seal.at \in {"begun", "allocated", "copied", "sealed"} =>
       begun = "published" /\ queue = <<>> /\ AuthorCompleted /\ working = cursor
  /\ seal.at \in {"copied", "sealed"} => sealed = working

CandidateIsTheWork ==
  /\ TypeOK /\ EpochOnRecord /\ OneAtATime /\ TreeOfTheAuthor
  /\ NoTornTree /\ SealHoldsTheWork

(* A delivery is alone with the candidate: nothing else reads it or copies it, whatever
   was under way when it was admitted. *)
DeliveryAlone ==
  delivery => Busy = 0 /\ replica.at # "ready"

(* Who gives the lock up has found the author gone, everything settled and nothing wrong,
   and that stays so until the lock is gone. *)
ReleaseIsSound ==
  /\ closing # "no" => engine.revoked
  /\ closing = "releasing" => ~engine.poisoned /\ AuthorCompleted /\ Quiet

(* Nothing happens after the end: once a workspace is revoked or poisoned its files stay
   as they are, no seal is made of them, and no read, lease or delivery under way gets
   its answer. *)
NothingAfterTheEnd ==
  [][(engine.revoked \/ engine.poisoned) =>
       /\ UNCHANGED <<working, sealed, holds, delivery>>
       /\ lock' => lock
       /\ \A r \in Readers : reads'[r] = "answered" => reads[r] = "answered"
       /\ replica'.at \in {"making", "ready"} => replica.at = replica'.at]_vars

(* From the call of seal() on the author's tree stands still, whatever was queued. *)
SealedTreeStill ==
  [][seal.at # "no" => working' = working]_vars

(* Only a sound workspace gives its lock up: one that was poisoned, whose author failed
   or whose work is torn stays behind as it is. *)
LockGivenUpSound ==
  [][lock /\ ~lock' => /\ ~engine.poisoned /\ AuthorCompleted /\ Quiet
                       /\ Owned
                       /\ begun = "published" => working = cursor]_vars

(* Every close() ends, with or without the lock. *)
CloseEnds == (closing = "waiting") ~> (closing \in {"closed", "refused"})
=============================================================================
