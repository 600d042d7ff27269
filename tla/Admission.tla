------------------------------ MODULE Admission ------------------------------
(***************************************************************************)
(* createAdmission of src/src/agent-dispatch.mjs: the leases that decide   *)
(* when an assignment of one owner may run.  A lease is taken              *)
(* synchronously for an assignment key, is active at once when a slot is   *)
(* free and nobody waits, waits in a FIFO otherwise, is cancelled when its *)
(* scope aborts before it was admitted, and stays in the lease map until   *)
(* its caller's "finally" releases it.  Deleting a saved assignment takes  *)
(* the same map exclusively; disposing the dispatcher closes it for good.  *)
(*                                                                         *)
(* JavaScript runs each call to completion.  The only loop, drain, takes   *)
(* one step per iteration here, and while it runs nothing else can.        *)
(*                                                                         *)
(* Where two operators with the same parameters follow each other, the     *)
(* first is a plausible mistake in the second: it is in no behaviour of    *)
(* this specification, and shows that a property would notice it.          *)
(***************************************************************************)
EXTENDS Naturals, Sequences, FiniteSets, SequencesExt

CONSTANTS Runs,         \* assignment keys
          Slots,        \* native execution slots (2 in the code)
          QueueLimit    \* pending reservations allowed (8 in the code)

ASSUME SlotsAssumption == Slots \in Nat \ {0}
ASSUME QueueLimitAssumption == QueueLimit \in Nat

VARIABLES
  leases,     \* per key the lease's status, "absent" without a lease
  pending,    \* keys of the waiting leases, oldest first
  active,     \* the counter of occupied slots
  aborted,    \* keys whose lease's scope signal has aborted
  draining,   \* drain() is running
  deleting,   \* a deletion holds the map
  closed,     \* dispose() was called
  awaited,    \* keys whose leases dispose() found and still waits for
  disposeDone \* the promise dispose() returned has resolved

admissionVars ==
  <<leases, pending, active, aborted, draining, deleting, closed, awaited, disposeDone>>

LeaseStatus == {"absent", "pending", "active", "cancelled"}

Holders == {k \in Runs : leases[k] = "active"}
NoLeases == \A k \in Runs : leases[k] = "absent"

AdmissionInit ==
  /\ leases = [k \in Runs |-> "absent"]
  /\ pending = <<>>
  /\ active = 0
  /\ aborted = {}
  /\ draining = FALSE
  /\ deleting = FALSE
  /\ closed = FALSE
  /\ awaited = {}
  /\ disposeDone = FALSE
-----------------------------------------------------------------------------
(* A reservation waits when the slots are taken or others already wait. *)
MustWait == active >= Slots \/ pending # <<>>

(* What reserve() refuses, before it changes anything: a closed dispatcher, a key
   that is taken or being deleted, a caller who will not queue, a full queue. *)
Admissible(k, queue) ==
  /\ ~draining
  /\ ~closed
  /\ ~deleting
  /\ leases[k] = "absent"
  /\ MustWait => queue /\ Len(pending) < QueueLimit

(* reserve(). *)
Reserve(k, queue) ==
  /\ Admissible(k, queue)
  /\ IF MustWait
     THEN /\ leases' = [leases EXCEPT ![k] = "pending"]
          /\ pending' = Append(pending, k)
          /\ UNCHANGED active
     ELSE /\ leases' = [leases EXCEPT ![k] = "active"]
          /\ active' = active + 1
          /\ UNCHANGED pending
  /\ UNCHANGED <<aborted, draining, deleting, closed, awaited, disposeDone>>

(* The queue after lease.cancel() has spliced k out of it. *)
Withdrawn(k) ==
  IF k \in ToSet(pending)
  THEN RemoveAt(pending, CHOOSE i \in DOMAIN pending : pending[i] = k)
  ELSE pending

(* A lease's scope aborts (its caller's signal, or the deadline timer): the
   abort listener cancels a waiting lease and leaves an active one alone. *)
Abort(k) ==
  /\ ~draining
  /\ leases[k] # "absent"
  /\ k \notin aborted
  /\ aborted' = aborted \cup {k}
  /\ IF leases[k] = "pending"
     THEN /\ leases' = [leases EXCEPT ![k] = "cancelled"]
          /\ pending' = Withdrawn(k)
     ELSE UNCHANGED <<leases, pending>>
  /\ UNCHANGED <<active, draining, deleting, closed, awaited, disposeDone>>

(* lease.release(), from the caller's "finally", which a waiting caller cannot
   reach.  It ends by calling drain. *)
ReleaseWithoutDrain(k) ==
  /\ ~draining
  /\ leases[k] \in {"active", "cancelled"}
  /\ active' = IF leases[k] = "active" THEN active - 1 ELSE active
  /\ leases' = [leases EXCEPT ![k] = "absent"]
  /\ aborted' = aborted \ {k}
  /\ awaited' = awaited \ {k}
  /\ UNCHANGED <<pending, draining, deleting, closed, disposeDone>>
Release(k) ==
  /\ ~draining
  /\ leases[k] \in {"active", "cancelled"}
  /\ active' = IF leases[k] = "active" THEN active - 1 ELSE active
  /\ leases' = [leases EXCEPT ![k] = "absent"]
  /\ aborted' = aborted \ {k}
  /\ awaited' = awaited \ {k}
  /\ draining' = TRUE
  /\ UNCHANGED <<pending, deleting, closed, disposeDone>>

DrainContinues == ~closed /\ active < Slots /\ pending # <<>>

(* One iteration of drain's loop: shift the head, then activate it, or cancel
   it if its scope has aborted. *)
DrainNextNewest ==
  /\ draining
  /\ DrainContinues
  /\ leases' = [leases EXCEPT ![Last(pending)] = "active"]
  /\ active' = active + 1
  /\ pending' = Front(pending)
  /\ UNCHANGED <<aborted, draining, deleting, closed, awaited, disposeDone>>
DrainNext ==
  /\ draining
  /\ DrainContinues
  /\ LET k == Head(pending) IN
       IF k \in aborted
       THEN /\ leases' = [leases EXCEPT ![k] = "cancelled"]
            /\ UNCHANGED active
       ELSE /\ leases' = [leases EXCEPT ![k] = "active"]
            /\ active' = active + 1
  /\ pending' = Tail(pending)
  /\ UNCHANGED <<aborted, draining, deleting, closed, awaited, disposeDone>>

DrainEnd ==
  /\ draining
  /\ ~DrainContinues
  /\ draining' = FALSE
  /\ UNCHANGED <<leases, pending, active, aborted, deleting, closed, awaited, disposeDone>>

(* reserveDeletion() and the function it returns. *)
BeginDeletionWhenNoneActive ==
  /\ ~draining
  /\ ~closed
  /\ ~deleting
  /\ active = 0
  /\ deleting' = TRUE
  /\ UNCHANGED <<leases, pending, active, aborted, draining, closed, awaited, disposeDone>>
BeginDeletion ==
  /\ ~draining
  /\ ~closed
  /\ ~deleting
  /\ NoLeases
  /\ deleting' = TRUE
  /\ UNCHANGED <<leases, pending, active, aborted, draining, closed, awaited, disposeDone>>

EndDeletion ==
  /\ ~draining
  /\ deleting
  /\ deleting' = FALSE
  /\ UNCHANGED <<leases, pending, active, aborted, draining, closed, awaited, disposeDone>>

(* dispose(): close, abort every current lease (which cancels the waiting
   ones), and wait for the deletion and for the leases found here to end. *)
Dispose ==
  /\ ~draining
  /\ ~closed
  /\ closed' = TRUE
  /\ awaited' = {k \in Runs : leases[k] # "absent"}
  /\ aborted' = aborted \cup awaited'
  /\ leases' = [k \in Runs |-> IF leases[k] = "pending" THEN "cancelled" ELSE leases[k]]
  /\ pending' = <<>>
  /\ UNCHANGED <<active, draining, deleting, disposeDone>>

DisposeSettles ==
  /\ ~draining
  /\ closed
  /\ ~disposeDone
  /\ ~deleting
  /\ awaited = {}
  /\ disposeDone' = TRUE
  /\ UNCHANGED <<leases, pending, active, aborted, draining, deleting, closed, awaited>>

AdmissionNext ==
  \/ \E k \in Runs, queue \in BOOLEAN : Reserve(k, queue)
  \/ \E k \in Runs : Abort(k) \/ Release(k)
  \/ DrainNext \/ DrainEnd
  \/ BeginDeletion \/ EndDeletion
  \/ Dispose \/ DisposeSettles

Spec == AdmissionInit /\ [][AdmissionNext]_admissionVars

(* drain and the continuation of dispose() run without waiting for anybody.
   A caller whose lease is active or cancelled reaches its "finally", and a
   deletion its own: src/src/agent-dispatch.mjs awaits only store operations,
   the child's result and its disposal in between, which are assumed to settle
   (every lease also has a deadline timer that aborts them). *)
Fairness ==
  /\ WF_admissionVars(DrainNext \/ DrainEnd)
  /\ WF_admissionVars(EndDeletion)
  /\ WF_admissionVars(DisposeSettles)
  /\ \A k \in Runs : SF_admissionVars(Release(k))

FairSpec == Spec /\ Fairness
-----------------------------------------------------------------------------
TypeOK ==
  /\ leases \in [Runs -> LeaseStatus]
  /\ pending \in Seq(Runs)
  /\ active \in Nat
  /\ aborted \in SUBSET Runs
  /\ draining \in BOOLEAN
  /\ deleting \in BOOLEAN
  /\ closed \in BOOLEAN
  /\ awaited \in SUBSET Runs
  /\ disposeDone \in BOOLEAN

(* The counter that admits is the number of leases that are active, and it never
   exceeds the slots: a release that is not matched by an admission, or a cancelled
   lease that gives a slot back, would let a third child start or lose a slot. *)
SlotAccounting ==
  /\ active = Cardinality(Holders)
  /\ active <= Slots

(* The queue holds exactly the waiting leases, each once, at most QueueLimit, and
   none whose scope has aborted: no waiter is lost and none is admitted twice. *)
QueueAccounting ==
  /\ \A k \in Runs : leases[k] = "pending" <=> k \in ToSet(pending)
  /\ \A i, j \in DOMAIN pending : pending[i] = pending[j] => i = j
  /\ Len(pending) <= QueueLimit
  /\ \A k \in aborted : leases[k] \in {"active", "cancelled"}

(* Between calls nobody waits while a slot is free. *)
WorkConserving == ~draining /\ pending # <<>> => active = Slots

(* A deletion in progress excludes every lease, queued ones included: no assignment
   is deleted under a run or a review that may still read it. *)
DeletionExclusive == deleting => NoLeases

(* Disposal resolves only when nothing is held: no lease and no deletion. *)
DisposeComplete == disposeDone => closed /\ ~deleting /\ NoLeases

(* What induction needs beyond the properties themselves: the holders are finitely
   many, and in a dispatcher that was disposed nobody waits and the leases that are
   left are those dispose() found. *)
FiniteHolders == IsFiniteSet(Holders)
ShutQueue ==
  closed => /\ pending = <<>>
            /\ \A k \in Runs : leases[k] # "absent" => k \in awaited

(* All of it holds in every state: slots, queue, deletion and disposal of
   createAdmission() agree with each other after each of its operations. *)
IInv ==
  /\ TypeOK
  /\ FiniteHolders
  /\ SlotAccounting
  /\ QueueAccounting
  /\ WorkConserving
  /\ DeletionExclusive
  /\ DisposeComplete
  /\ ShutQueue

(* Nobody overtakes: a key becomes active only from the head of the queue, or from
   outside when nobody waits. *)
FifoStep ==
  \A k \in Runs : leases[k] # "active" /\ leases'[k] = "active" =>
    \/ leases[k] = "absent" /\ pending = <<>>
    \/ leases[k] = "pending" /\ k = Head(pending)
FifoAdmission == [][FifoStep]_admissionVars

(* Once disposed, no lease is taken and none becomes active. *)
ShutStep ==
  closed => \A k \in Runs : leases'[k] # leases[k] => leases'[k] = "absent"
ClosedStaysShut == [][ShutStep]_admissionVars

(* Every waiter is eventually admitted or cancelled, and disposing the dispatcher
   eventually resolves. *)
CallersResolve ==
  /\ \A k \in Runs : leases[k] = "pending" ~> leases[k] # "pending"
  /\ closed ~> disposeDone

(* The abstract promise: leases implement a first-come first-served pool. *)
Pool == INSTANCE FifoPool WITH
  Clients <- Runs, Limit <- QueueLimit,
  holders <- Holders, queue <- pending, open <- ~closed
PoolSpec == Pool!Spec
=============================================================================
