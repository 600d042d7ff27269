--------------------------- MODULE CustodyProofs ---------------------------
(***************************************************************************)
(* The safety properties of Custody and PinnedRunner, proved for every set *)
(* of paths, every plan, every text, every report and every bound.         *)
(***************************************************************************)
EXTENDS PinnedRunner, FiniteSetTheorems, SequenceTheorems, TLAPS
-----------------------------------------------------------------------------
(* What the workspace keeps by itself, without the runner at its side. *)
CustodyKept ==
  /\ TypeOK /\ EpochOnRecord /\ OneAtATime /\ TreeOfTheAuthor
  /\ DeliveryAlone /\ ReleaseIsSound

(* A judge that reads the candidate through a lease. *)
Reading(r) == holds[r] = "lease" /\ Pending(r)
Copying == replica.at \in {"asked", "making"}

BusyMeaning ==
  /\ IsFiniteSet({r \in Readers : Reading(r)})
  /\ Cardinality({r \in Readers : Reading(r)}) \in Nat
  /\ Busy = Cardinality({r \in Readers : Reading(r)}) + (IF Copying THEN 1 ELSE 0)
  /\ Busy \in Nat
  /\ Busy = 0 <=> (\A r \in Readers : ~Reading(r)) /\ ~Copying

(* Busy counts what it says, and is zero when nobody reads and nothing is copied. *)
LEMMA BusyCounts == BusyMeaning
<1> DEFINE R == {r \in Readers : Reading(r)}
<1>1. IsFiniteSet(R)
  <2>1. IsFiniteSet({"validator", "reviewer"})
    <3>1. IsFiniteSet({"validator"})
      BY FS_Singleton
    <3>2. IsFiniteSet({"validator"} \cup {"reviewer"})
      BY <3>1, FS_AddElement
    <3>3. {"validator"} \cup {"reviewer"} = {"validator", "reviewer"}
      OBVIOUS
    <3> QED BY <3>2, <3>3
  <2>2. R \subseteq {"validator", "reviewer"}
    BY CustodyAssumption
  <2> QED BY <2>1, <2>2, FS_Subset
<1>2. Cardinality(R) \in Nat /\ (Cardinality(R) = 0 <=> R = {})
  BY <1>1, FS_CardinalityType, FS_EmptySet
<1>3. Busy = Cardinality(R) + (IF Copying THEN 1 ELSE 0)
  BY DEF Busy, Reading, Copying
<1>4. R = {} <=> \A r \in Readers : ~Reading(r)
  OBVIOUS
<1> HIDE DEF R
<1>5. Busy \in Nat /\ (Busy = 0 <=> R = {} /\ ~Copying)
  BY <1>2, <1>3
<1> QED BY <1>1, <1>2, <1>3, <1>4, <1>5 DEF R, BusyMeaning

(* Who only ends reads and copies makes the workspace no busier, and leaves a delivery
   alone. *)
LEMMA NoBusier ==
  ASSUME \A r \in Readers : Reading(r)' => Reading(r),
         Copying' => Copying, replica'.at = "ready" => replica.at = "ready",
         delivery' => delivery, DeliveryAlone
  PROVE  Busy' <= Busy /\ DeliveryAlone'
<1> DEFINE R == {r \in Readers : Reading(r)}
           S == {r \in Readers : Reading(r)'}
<1>1. BusyMeaning /\ BusyMeaning'
  BY BusyCounts, PTL
<1>2. IsFiniteSet(R) /\ S \subseteq R
  BY <1>1 DEF BusyMeaning
<1>3. Cardinality(S) <= Cardinality(R)
  BY <1>2, FS_Subset
<1>4. /\ Busy = Cardinality(R) + (IF Copying THEN 1 ELSE 0) /\ Cardinality(R) \in Nat
      /\ Busy' = Cardinality(S) + (IF Copying' THEN 1 ELSE 0) /\ Cardinality(S) \in Nat
      /\ Busy \in Nat /\ Busy' \in Nat
  BY <1>1 DEF BusyMeaning, Reading, Copying, Pending
<1> HIDE DEF R, S
<1>5. Busy' <= Busy
  BY <1>3, <1>4
<1>6. DeliveryAlone'
  <2> HIDE DEF Busy
  <2>1. Busy = 0 => Busy' = 0
    BY <1>4, <1>5
  <2> QED BY <2>1 DEF DeliveryAlone
<1> QED BY <1>5, <1>6

(* How the engine moves but for seal() and transfer(): what has gone wrong stays so, and
   the epoch turns with it. *)
EngineMoved ==
  engine' \in {engine, Poisoned, Revoked, [engine EXCEPT !.closed = TRUE],
              [engine EXCEPT !.admission = TRUE]}

(* So the engine keeps its type, its epoch stays on record, and an end is an end. *)
LEMMA EngineMoves ==
  ASSUME TypeOK, EpochOnRecord, EngineMoved,
         seal'.at = "no" <=> seal.at = "no", seal'.epoch = seal.epoch,
         seal.at = "sealed" => seal'.at = "sealed",
         custody'.at = "no" <=> custody.at = "no", custody'.epoch = custody.epoch
  PROVE  /\ engine' \in EngineType /\ EpochOnRecord'
         /\ engine.poisoned => engine'.poisoned
         /\ engine.revoked => engine'.revoked
         /\ ~Live => ~Live'
<1> DEFINE e == engine
           N == [poisoned : BOOLEAN, revoked : BOOLEAN, closed : BOOLEAN,
                 admission : BOOLEAN, epoch : Nat]
<1>1. e \in EngineType /\ e \in N
  BY DEF TypeOK, EngineType
<1>2. /\ engine' \in N
      /\ (e.poisoned => engine'.poisoned) /\ (e.revoked => engine'.revoked)
      /\ (e.closed => engine'.closed)
      /\ engine'.epoch - (IF engine'.poisoned THEN 1 ELSE 0) - (IF engine'.revoked THEN 1 ELSE 0)
           = e.epoch - (IF e.poisoned THEN 1 ELSE 0) - (IF e.revoked THEN 1 ELSE 0)
  <2>1. CASE engine' = engine
    BY <1>1, <2>1
  <2>2. CASE engine' = Poisoned
    <3>1. CASE e.poisoned
      BY <1>1, <2>2, <3>1 DEF Poisoned
    <3>2. CASE ~e.poisoned
      <4> DEFINE x == e.epoch + 1
      <4>1. engine' = [e EXCEPT !.poisoned = TRUE, !.admission = FALSE, !.epoch = x]
        BY <2>2, <3>2 DEF Poisoned
      <4>2. x \in Nat /\ x = e.epoch + 1
        BY <1>1
      <4> HIDE DEF x
      <4>3. /\ engine' \in N /\ engine'.poisoned = TRUE /\ engine'.epoch = x
            /\ engine'.revoked = e.revoked /\ engine'.closed = e.closed
        BY <1>1, <4>1, <4>2
      <4> QED BY <1>1, <3>2, <4>2, <4>3
    <3> QED BY <3>1, <3>2
  <2>3. CASE engine' = Revoked
    <3>1. CASE e.revoked
      BY <1>1, <2>3, <3>1 DEF Revoked
    <3>2. CASE ~e.revoked
      <4> DEFINE x == e.epoch + 1
      <4>1. engine' = [e EXCEPT !.revoked = TRUE, !.admission = FALSE, !.epoch = x]
        BY <2>3, <3>2 DEF Revoked
      <4>2. x \in Nat /\ x = e.epoch + 1
        BY <1>1
      <4> HIDE DEF x
      <4>3. /\ engine' \in N /\ engine'.revoked = TRUE /\ engine'.epoch = x
            /\ engine'.poisoned = e.poisoned /\ engine'.closed = e.closed
        BY <1>1, <4>1, <4>2
      <4> QED BY <1>1, <3>2, <4>2, <4>3
    <3> QED BY <3>1, <3>2
  <2>4. CASE engine' = [engine EXCEPT !.closed = TRUE]
    BY <1>1, <2>4
  <2>5. CASE engine' = [engine EXCEPT !.admission = TRUE]
    BY <1>1, <2>5
  <2> QED BY <2>1, <2>2, <2>3, <2>4, <2>5 DEF EngineMoved
<1>3. e.epoch \in Nat /\ engine'.epoch \in Nat
  BY <1>1, <1>2
<1>4. EpochOnRecord'
  BY <1>2, <1>3 DEF EpochOnRecord
<1>5. engine'.epoch \in 0 .. 4
  BY <1>3, <1>4 DEF EpochOnRecord
<1>6. engine' \in EngineType
  BY <1>2, <1>5 DEF EngineType
<1>7. ~Live => ~Live'
  BY <1>2 DEF Live
<1> QED BY <1>2, <1>4, <1>6, <1>7

(* A step that touches no file and no request, and undoes no seal that is under way, keeps
   what is said of the author's tree. *)
LEMMA TreeLeftAlone ==
  ASSUME OneAtATime, TreeOfTheAuthor, AuthorCompleted => AuthorCompleted',
         UNCHANGED <<grants, begun, queue, working, cursor, sealed>>,
         seal'.at = seal.at \/ seal'.at \in {"no", "waiting", "refused"},
         engine.poisoned => engine'.poisoned, ~Live => ~Live'
  PROVE  OneAtATime' /\ TreeOfTheAuthor'
<1>1. OneAtATime'
  BY DEF OneAtATime, Job, JobAt, Result
<1>2. TreeOfTheAuthor'
  <2>1. Baseline' = Baseline
    BY DEF Baseline
  <2> QED BY <2>1 DEF TreeOfTheAuthor
<1> QED BY <1>1, <1>2

(* A release stays sound if what is quiet stays quiet. *)
LEMMA ReleaseLeftAlone ==
  ASSUME ReleaseIsSound, UNCHANGED <<closing, author, begun, queue>>,
         engine.revoked => engine'.revoked,
         closing = "releasing" =>
           /\ engine'.poisoned => engine.poisoned
           /\ seal'.at = seal.at
           /\ custody'.at = "moving" => custody.at = "moving"
           /\ \A r \in Readers : Pending(r)' => Pending(r)
           /\ Copying' => Copying
  PROVE  ReleaseIsSound'
<1> QED BY DEF ReleaseIsSound, Quiet, AuthorCompleted, Copying

(* The runner is told of nothing that a workspace does without it. *)
LEMMA RunnerLeftAlone ==
  ASSUME RunnerKnows, UNCHANGED runnerVars, Copying' => Copying
  PROVE  RunnerKnows'
<1> QED BY DEF RunnerKnows, InScope, runnerVars, process, Copying

(* What every step keeps that moves the engine as it may and lets nobody new read: types,
   epochs and a delivery's peace. *)
LEMMA StepKeeps ==
  ASSUME CustodyKept, EngineMoved, AttemptTyped', JudgingTyped',
         seal'.at = "no" <=> seal.at = "no", seal'.epoch = seal.epoch,
         seal.at = "sealed" => seal'.at = "sealed",
         custody'.at = "no" <=> custody.at = "no", custody'.epoch = custody.epoch,
         \A r \in Readers : Reading(r)' => Reading(r),
         Copying' => Copying, replica'.at = "ready" => replica.at = "ready",
         delivery' => delivery
  PROVE  /\ TypeOK' /\ EpochOnRecord' /\ DeliveryAlone'
         /\ engine.poisoned => engine'.poisoned
         /\ engine.revoked => engine'.revoked
         /\ ~Live => ~Live'
<1> USE DEF CustodyKept
<1>1. /\ engine' \in EngineType /\ EpochOnRecord'
      /\ engine.poisoned => engine'.poisoned
      /\ engine.revoked => engine'.revoked
      /\ ~Live => ~Live'
  BY EngineMoves
<1>2. Busy' <= Busy /\ DeliveryAlone'
  BY NoBusier
<1>3. BusyMeaning /\ BusyMeaning'
  BY BusyCounts, PTL
<1>4. Busy' <= Capacity
  <2> HIDE DEF Busy
  <2>1. Busy \in Nat /\ Busy' \in Nat /\ Busy <= Capacity /\ Capacity \in Nat
    BY <1>3, CustodyAssumption DEF BusyMeaning, TypeOK
  <2> QED BY <1>2, <2>1
<1> QED BY <1>1, <1>2, <1>4 DEF TypeOK

(* A step that changes neither the tree nor what is being closed. *)
LEMMA JudgingKeeps ==
  ASSUME CustodyKept, EngineMoved, JudgingTyped',
         UNCHANGED <<grants, begun, author, queue, working, cursor, sealed, closing, lock>>,
         \/ seal' = seal
         \/ seal.at \in {"waiting", "begun", "allocated", "copied"} /\ seal' = [seal EXCEPT !.at = "refused"],
         custody'.at = "no" <=> custody.at = "no", custody'.epoch = custody.epoch,
         custody'.at = "moving" => custody.at = "moving",
         \A r \in Readers : Reading(r)' => Reading(r),
         Copying' => Copying, replica'.at = "ready" => replica.at = "ready",
         delivery' => delivery,
         closing = "releasing" =>
           /\ engine'.poisoned => engine.poisoned
           /\ \A r \in Readers : Pending(r)' => Pending(r)
  PROVE  CustodyKept'
<1> USE DEF CustodyKept
<1>1. /\ seal'.at \in {seal.at, "refused"} /\ seal'.epoch = seal.epoch
      /\ seal'.at # seal.at => seal.at \in {"waiting", "begun", "allocated", "copied"}
      /\ AttemptTyped'
  BY DEF TypeOK, AttemptTyped
<1>2. /\ TypeOK' /\ EpochOnRecord' /\ DeliveryAlone'
      /\ engine.poisoned => engine'.poisoned
      /\ engine.revoked => engine'.revoked
      /\ ~Live => ~Live'
  BY <1>1, StepKeeps
<1>3. OneAtATime' /\ TreeOfTheAuthor'
  BY <1>1, <1>2, TreeLeftAlone DEF AuthorCompleted
<1>4. ReleaseIsSound'
  <2>1. closing = "releasing" => seal'.at = seal.at
    BY <1>1 DEF ReleaseIsSound, Quiet
  <2> QED BY <1>2, <2>1, ReleaseLeftAlone
<1> QED BY <1>2, <1>3, <1>4

(* A workspace that is not live any more checks nothing, and a check moves the engine only
   where it finds something that is not its own. *)
LEMMA CheckRefuses ==
  ASSUME ~Live, NEW who
  PROVE  Check(who) = "refused" /\ CheckView = "refused" /\ CheckReplica = "refused"
<1> QED BY DEF Check, CheckView, MaySeal, CheckReplica

(* The outcome of a check moves the engine as it may, and only where it poisons. *)
LEMMA AfterMoves ==
  ASSUME NEW outcome, After(outcome)
  PROVE  EngineMoved /\ (outcome # "poisoned" => engine' = engine)
<1> QED BY DEF After, EngineMoved
-----------------------------------------------------------------------------
(* Views, leases and reads: who gets one, starts it or answers it makes nobody busier. *)
LEMMA ReadersKeep ==
  ASSUME CustodyKept, NEW r \in Readers,
         View(r) \/ Lease(r) \/ StartRead(r) \/ AnswerRead(r)
  PROVE  CustodyKept'
<1> USE DEF work, tree, judging, world
<1>1. closing = "releasing" => ~Live
  BY DEF CustodyKept, ReleaseIsSound, Live
<1>2. JudgingTyped
  BY DEF CustodyKept, TypeOK
<1>3. CASE View(r)
  <2>1. EngineMoved /\ (CheckView # "poisoned" => engine' = engine) /\ CheckView # "refused"
    BY <1>3, AfterMoves DEF View
  <2>2. /\ holds' \in [Readers -> {"nothing", "view", "lease"}]
        /\ \A q \in Readers : holds'[q] = "lease" => holds[q] = "lease"
    BY <1>2, <1>3 DEF View, JudgingTyped
  <2>3. /\ UNCHANGED <<grants, begun, author, queue, working, cursor, sealed, closing, lock>>
        /\ UNCHANGED <<seal, custody, reads, replica, delivery, phase, tampered>>
    BY <1>3 DEF View
  <2>4. JudgingTyped'
    BY <1>2, <2>2, <2>3 DEF JudgingTyped
  <2>5. closing = "releasing" => FALSE
    BY <1>1, <2>1, CheckRefuses
  <2> QED BY <2>1, <2>2, <2>3, <2>4, <2>5, JudgingKeeps DEF Reading, Copying, Pending
<1>4. CASE Lease(r)
  <2>1. EngineMoved /\ (Check(r) # "poisoned" => engine' = engine) /\ Check(r) # "refused"
    BY <1>4, AfterMoves DEF Lease
  <2>2. /\ holds' \in [Readers -> {"nothing", "view", "lease"}]
        /\ reads' \in [Readers -> {"none", "asked", "reading", "answered", "refused"}]
        /\ \A q \in Readers \ {r} : holds'[q] = holds[q] /\ reads'[q] = reads[q]
        /\ reads'[r] = "none"
    BY <1>2, <1>4 DEF Lease, JudgingTyped
  <2>3. /\ UNCHANGED <<grants, begun, author, queue, working, cursor, sealed, closing, lock>>
        /\ UNCHANGED <<seal, custody, replica, delivery, phase, tampered>>
    BY <1>4 DEF Lease
  <2>4. JudgingTyped'
    BY <1>2, <2>2, <2>3 DEF JudgingTyped
  <2>5. closing = "releasing" => FALSE
    BY <1>1, <2>1, CheckRefuses
  <2>6. \A q \in Readers : Reading(q)' => Reading(q)
    BY <2>2 DEF Reading, Pending
  <2> QED BY <2>1, <2>3, <2>4, <2>5, <2>6, JudgingKeeps DEF Copying
<1>5. ASSUME NEW outcome, NEW next \in {"reading", "answered"}, Settled(r, outcome, next),
             Pending(r), ~Live => outcome = "refused"
      PROVE  CustodyKept'
  <2>1. EngineMoved /\ (outcome # "poisoned" => engine' = engine)
    BY <1>5, AfterMoves DEF Settled
  <2>2. /\ reads' \in [Readers -> {"none", "asked", "reading", "answered", "refused"}]
        /\ \A q \in Readers \ {r} : reads'[q] = reads[q]
    BY <1>2, <1>5 DEF Settled, JudgingTyped
  <2>3. /\ UNCHANGED <<grants, begun, author, queue, working, cursor, sealed, closing, lock>>
        /\ UNCHANGED <<seal, custody, holds, replica, delivery, phase, tampered>>
    BY <1>5 DEF Settled
  <2>4. JudgingTyped'
    BY <1>2, <2>2, <2>3 DEF JudgingTyped
  <2>5. \A q \in Readers : (Reading(q)' => Reading(q)) /\ (Pending(q)' => Pending(q))
    BY <1>5, <2>2, <2>3 DEF Reading, Pending
  <2>6. closing = "releasing" => engine' = engine
    BY <1>1, <1>5, <2>1
  <2> QED BY <2>1, <2>3, <2>4, <2>5, <2>6, JudgingKeeps DEF Copying
<1>6. ~Live => CheckRead(r) = "refused"
  BY CheckRefuses DEF CheckRead
<1>7. CASE StartRead(r)
  BY <1>5, <1>6, <1>7 DEF StartRead, Pending
<1>8. CASE AnswerRead(r)
  BY <1>5, <1>6, <1>8 DEF AnswerRead, Pending
<1> QED BY <1>3, <1>4, <1>7, <1>8

(* A read that is asked for fits into what the workspace may do at once, and comes before
   a delivery. *)
LEMMA AskReadKeeps ==
  ASSUME CustodyKept, NEW r \in Readers, AskRead(r)
  PROVE  CustodyKept'
<1> USE DEF CustodyKept, work, tree, judging, world
<1> DEFINE R == {q \in Readers : Reading(q)}
           S == {q \in Readers : Reading(q)'}
<1>1. /\ UNCHANGED <<engine, grants, begun, author, queue, working, cursor, sealed, closing, lock>>
      /\ UNCHANGED <<seal, custody, holds, replica, delivery, phase, tampered, consumed>>
      /\ ~delivery /\ Live
  BY DEF AskRead
<1>2. /\ reads' \in [Readers -> {"none", "asked", "reading", "answered", "refused"}]
      /\ \A q \in Readers \ {r} : reads'[q] = reads[q]
  BY DEF AskRead, TypeOK, JudgingTyped
<1>3. /\ BusyMeaning /\ BusyMeaning'
      /\ Busy = Cardinality(R) + (IF Copying THEN 1 ELSE 0) /\ Cardinality(R) \in Nat
      /\ Busy' = Cardinality(S) + (IF Copying THEN 1 ELSE 0) /\ Cardinality(S) \in Nat
      /\ IsFiniteSet(R)
  <2>1. BusyMeaning /\ BusyMeaning'
    BY BusyCounts, PTL
  <2> QED BY <1>1, <2>1 DEF BusyMeaning, Reading, Copying, Pending
<1>4. Busy' <= Capacity
  <2>1. CASE holds[r] = "lease"
    <3>1. S \subseteq R \cup {r} /\ Busy < Capacity
      BY <1>1, <1>2, <2>1 DEF Reading, Pending, AskRead
    <3>2. Cardinality(S) <= Cardinality(R \cup {r}) /\ IsFiniteSet(R \cup {r})
      <4>1. IsFiniteSet(R \cup {r})
        BY <1>3, FS_AddElement
      <4> HIDE DEF R, S
      <4> QED BY <3>1, <4>1, FS_Subset
    <3>3. Cardinality(R \cup {r}) <= Cardinality(R) + 1
      <4> HIDE DEF R
      <4> QED BY <1>3, FS_AddElement
    <3>4. Cardinality(R \cup {r}) \in Nat
      BY <3>2, FS_CardinalityType
    <3> HIDE DEF R, S, Busy
    <3> QED BY <1>3, <3>1, <3>2, <3>3, <3>4, CustodyAssumption
  <2>2. CASE holds[r] # "lease"
    <3>1. S = R
      BY <1>1, <1>2, <2>2 DEF Reading, Pending
    <3> HIDE DEF R, S, Busy
    <3> QED BY <1>3, <3>1 DEF TypeOK
  <2> QED BY <2>1, <2>2
<1>5. TypeOK'
  <2> HIDE DEF Busy
  <2> QED BY <1>1, <1>2, <1>4 DEF TypeOK, AttemptTyped, JudgingTyped
<1>6. EpochOnRecord' /\ DeliveryAlone'
  BY <1>1 DEF EpochOnRecord, DeliveryAlone
<1>7. OneAtATime' /\ TreeOfTheAuthor'
  BY <1>1, TreeLeftAlone DEF AuthorCompleted, Live
<1>8. ReleaseIsSound'
  BY <1>1 DEF ReleaseIsSound, Live
<1> QED BY <1>5, <1>6, <1>7, <1>8

(* A replica that is asked for, and the steps that make it: one that is being made counts
   as busy, so that no delivery has been admitted. *)
LEMMA AskReplicaKeeps ==
  ASSUME CustodyKept, AskReplica
  PROVE  CustodyKept'
<1> USE DEF CustodyKept, work, tree, judging, world
<1> DEFINE R == {q \in Readers : Reading(q)}
<1>1. /\ UNCHANGED <<engine, grants, begun, author, queue, working, cursor, sealed, closing, lock>>
      /\ UNCHANGED <<seal, custody, holds, reads, delivery, phase, tampered, consumed>>
      /\ ~delivery /\ Live /\ ~Copying /\ Busy < Capacity
      /\ replica' = [at |-> "asked", phase |-> "none"]
  BY DEF AskReplica, Copying
<1>2. /\ Busy = Cardinality(R) /\ Busy' = Cardinality(R) + 1 /\ Cardinality(R) \in Nat
  <2>1. BusyMeaning /\ BusyMeaning'
    BY BusyCounts, PTL
  <2>2. Copying' /\ {q \in Readers : Reading(q)'} = R
    BY <1>1 DEF Copying, Reading, Pending
  <2>3. /\ Busy = Cardinality(R) + 0 /\ Cardinality(R) \in Nat
        /\ Busy' = Cardinality({q \in Readers : Reading(q)'}) + 1
    BY <1>1, <2>1, <2>2 DEF BusyMeaning, Reading, Pending, Copying
  <2> HIDE DEF R, Busy
  <2> QED BY <2>2, <2>3
<1>3. TypeOK'
  <2> HIDE DEF Busy, R
  <2>1. Busy' <= Capacity
    BY <1>1, <1>2, CustodyAssumption
  <2> QED BY <1>1, <2>1 DEF TypeOK, AttemptTyped, JudgingTyped
<1>4. EpochOnRecord' /\ DeliveryAlone'
  BY <1>1 DEF EpochOnRecord, DeliveryAlone
<1>5. OneAtATime' /\ TreeOfTheAuthor'
  BY <1>1, TreeLeftAlone DEF AuthorCompleted, Live
<1>6. ReleaseIsSound'
  BY <1>1 DEF ReleaseIsSound, Live
<1> QED BY <1>3, <1>4, <1>5, <1>6

(* A copy goes on or fails. *)
LEMMA ReplicaKeeps ==
  ASSUME CustodyKept, StartReplica \/ MakeReplica
  PROVE  CustodyKept'
<1> USE DEF work, tree, judging, world
<1>1. PICK from \in {"asked", "making"}, to \in {"making", "ready"} :
        /\ ReplicaGoesOn(from, to)
        /\ from = "asked" => to = "making"
  BY DEF StartReplica, MakeReplica
<1>2. /\ UNCHANGED <<grants, begun, author, queue, working, cursor, sealed, closing, lock>>
      /\ UNCHANGED <<seal, custody, holds, reads, delivery, phase, tampered>>
      /\ Copying
      /\ EngineMoved /\ (CheckReplica # "poisoned" => engine' = engine)
  BY <1>1, AfterMoves DEF ReplicaGoesOn, Copying
<1>3. /\ replica' \in [at : {"making", "ready", "bad"}, phase : Phases \cup {"none"}]
      /\ CheckReplica # "ok" => replica'.at = "bad"
  BY <1>1 DEF ReplicaGoesOn, CustodyKept, TypeOK, JudgingTyped
<1>4. JudgingTyped'
  BY <1>2, <1>3 DEF JudgingTyped, CustodyKept, TypeOK
<1>5. closing = "releasing" => FALSE
  BY <1>2 DEF CustodyKept, ReleaseIsSound, Quiet, Copying
<1>6. ~delivery
  <2>1. BusyMeaning
    BY BusyCounts
  <2> QED BY <1>2, <2>1 DEF CustodyKept, DeliveryAlone, BusyMeaning
<1>7. /\ engine' \in EngineType /\ EpochOnRecord'
      /\ engine.poisoned => engine'.poisoned
      /\ engine.revoked => engine'.revoked
      /\ ~Live => ~Live'
  BY <1>2, EngineMoves DEF CustodyKept
<1>8. Busy' <= Capacity
  <2> DEFINE R == {q \in Readers : Reading(q)}
  <2>1. BusyMeaning /\ BusyMeaning'
    BY BusyCounts, PTL
  <2>2. {q \in Readers : Reading(q)'} = R
    BY <1>2 DEF Reading, Pending
  <2>3. /\ Busy = Cardinality(R) + 1 /\ Cardinality(R) \in Nat
        /\ Busy' = Cardinality({q \in Readers : Reading(q)'}) + (IF Copying' THEN 1 ELSE 0)
    BY <1>2, <2>1 DEF BusyMeaning, Reading, Pending, Copying
  <2>4. Busy <= Capacity
    BY DEF CustodyKept, TypeOK
  <2> HIDE DEF R, Busy
  <2> QED BY <2>2, <2>3, <2>4, CustodyAssumption
<1>9. TypeOK'
  <2> HIDE DEF Busy
  <2> QED BY <1>2, <1>4, <1>7, <1>8 DEF TypeOK, AttemptTyped, CustodyKept
<1>10. DeliveryAlone' /\ ReleaseIsSound'
  BY <1>2, <1>5, <1>6, <1>7 DEF DeliveryAlone, ReleaseIsSound, CustodyKept
<1>11. OneAtATime' /\ TreeOfTheAuthor'
  BY <1>2, <1>7, TreeLeftAlone DEF CustodyKept, AuthorCompleted
<1> QED BY <1>7, <1>9, <1>10, <1>11 DEF CustodyKept

(* A delivery is admitted when nobody reads and nothing is copied. *)
LEMMA PrepareDeliveryKeeps ==
  ASSUME CustodyKept, PrepareDelivery
  PROVE  CustodyKept'
<1> USE DEF work, tree, judging, world
<1>1. /\ UNCHANGED <<grants, begun, author, queue, working, cursor, sealed, closing, lock>>
      /\ UNCHANGED <<seal, custody, holds, reads, replica, phase, tampered>>
      /\ EngineMoved /\ (Check("delivery") # "poisoned" => engine' = engine)
      /\ Check("delivery") # "refused" /\ delivery' \in BOOLEAN
      /\ Busy = 0 /\ replica.at # "ready"
  BY AfterMoves DEF PrepareDelivery, SettledAll
<1>2. Live /\ closing # "releasing"
  <2>1. Live
    BY <1>1, CheckRefuses
  <2> QED BY <2>1 DEF CustodyKept, ReleaseIsSound, Live
<1>3. /\ engine' \in EngineType /\ EpochOnRecord'
      /\ engine.poisoned => engine'.poisoned
      /\ engine.revoked => engine'.revoked
      /\ ~Live => ~Live'
  BY <1>1, EngineMoves DEF CustodyKept
<1>4. Busy' = 0
  BY <1>1 DEF Busy, Pending
<1>5. TypeOK'
  <2> HIDE DEF Busy
  <2>1. Busy' <= Capacity
    BY <1>4, CustodyAssumption
  <2> QED BY <1>1, <1>3, <2>1 DEF TypeOK, AttemptTyped, JudgingTyped, CustodyKept
<1>6. DeliveryAlone' /\ ReleaseIsSound'
  BY <1>1, <1>2, <1>3, <1>4 DEF DeliveryAlone, ReleaseIsSound, CustodyKept
<1>7. OneAtATime' /\ TreeOfTheAuthor'
  BY <1>1, <1>3, TreeLeftAlone DEF CustodyKept, AuthorCompleted
<1> QED BY <1>3, <1>5, <1>6, <1>7 DEF CustodyKept

(* The calls and changes that leave the author's tree and its judges alone. *)
LEMMA OthersKeep ==
  ASSUME CustodyKept,
         \/ Verify \/ Revoke \/ TransferSettles \/ SealFails
         \/ Advance \/ Leave \/ \E t \in {"lock", "working", "sealed", "protected"} : Tamper(t)
  PROVE  CustodyKept'
<1> USE DEF work, tree, judging, world
<1>1. closing = "releasing" => ~Live /\ engine.revoked /\ Quiet
  BY DEF CustodyKept, ReleaseIsSound, Live
<1>2. JudgingTyped
  BY DEF CustodyKept, TypeOK
<1>3. CASE Verify
  <2>1. /\ EngineMoved /\ Check("owner") = "poisoned"
        /\ UNCHANGED <<grants, begun, author, queue, working, cursor, sealed, closing, lock>>
        /\ UNCHANGED <<seal, custody, holds, reads, replica, delivery, phase, tampered>>
    BY <1>3 DEF Verify, EngineMoved
  <2>2. closing # "releasing" /\ JudgingTyped'
    BY <1>1, <1>2, <2>1, CheckRefuses DEF JudgingTyped
  <2> QED BY <2>1, <2>2, JudgingKeeps DEF Reading, Copying, Pending
<1>4. CASE Revoke
  <2>1. /\ EngineMoved /\ ~engine.revoked
        /\ UNCHANGED <<grants, begun, author, queue, working, cursor, sealed, closing, lock>>
        /\ UNCHANGED <<seal, custody, holds, reads, delivery, phase, tampered>>
        /\ ReplicaRevoked
    BY <1>4 DEF Revoke, EngineMoved
  <2>2. /\ replica' \in [at : {"none", "asked", "making", "ready", "closed", "bad"},
                         phase : Phases \cup {"none"}]
        /\ (Copying' => Copying) /\ replica'.at # "ready"
    BY <1>2, <2>1 DEF ReplicaRevoked, JudgingTyped, Copying
  <2>3. closing # "releasing" /\ JudgingTyped'
    BY <1>1, <1>2, <2>1, <2>2 DEF JudgingTyped
  <2> QED BY <2>1, <2>2, <2>3, JudgingKeeps DEF Reading, Pending
<1>5. CASE TransferSettles
  <2>1. /\ EngineMoved /\ custody.at = "moving"
        /\ UNCHANGED <<grants, begun, author, queue, working, cursor, sealed, closing, lock>>
        /\ UNCHANGED <<seal, holds, reads, replica, delivery, phase, tampered>>
        /\ custody' = [custody EXCEPT !.at = IF TransferMayGoOn THEN "held" ELSE "refused"]
    BY <1>5 DEF TransferSettles, EngineMoved
  <2>2. custody' \in [at : {"held", "refused"}, epoch : Nat] /\ custody'.epoch = custody.epoch
    BY <1>2, <2>1 DEF JudgingTyped
  <2>3. closing # "releasing" /\ JudgingTyped'
    BY <1>1, <1>2, <2>1, <2>2 DEF JudgingTyped, Quiet
  <2> QED BY <2>1, <2>2, <2>3, JudgingKeeps DEF Reading, Copying, Pending
<1>6. CASE SealFails
  <2>1. /\ EngineMoved /\ seal.at \in {"waiting", "begun", "allocated", "copied"}
        /\ UNCHANGED <<grants, begun, author, queue, working, cursor, sealed, closing, lock>>
        /\ UNCHANGED <<custody, holds, reads, replica, delivery, phase, tampered>>
        /\ seal' = [seal EXCEPT !.at = "refused"]
    BY <1>6 DEF SealFails, EngineMoved
  <2>2. closing # "releasing" /\ JudgingTyped'
    BY <1>1, <1>2, <2>1 DEF JudgingTyped, Quiet
  <2> QED BY <2>1, <2>2, JudgingKeeps DEF Reading, Copying, Pending
<1>7. CASE Advance \/ Leave
  <2>1. /\ EngineMoved /\ engine' = engine
        /\ UNCHANGED <<grants, begun, author, queue, working, cursor, sealed, closing, lock>>
        /\ UNCHANGED <<seal, custody, holds, reads, replica, delivery, tampered>>
    BY <1>7 DEF Advance, Leave, EngineMoved
  <2>2. phase' \in Phases
    BY <1>7 DEF Advance, Leave, Stages, Phases, Judged
  <2>3. JudgingTyped'
    BY <1>2, <2>1, <2>2 DEF JudgingTyped
  <2> QED BY <2>1, <2>3, JudgingKeeps DEF Reading, Copying, Pending
<1>8. CASE \E t \in {"lock", "working", "sealed", "protected"} : Tamper(t)
  <2>1. /\ EngineMoved /\ engine' = engine
        /\ UNCHANGED <<grants, begun, author, queue, working, cursor, sealed, closing, lock>>
        /\ UNCHANGED <<seal, custody, holds, reads, replica, delivery, phase>>
    BY <1>8 DEF Tamper, EngineMoved
  <2>2. tampered' \subseteq {"lock", "working", "sealed", "protected"}
    BY <1>2, <1>8 DEF Tamper, JudgingTyped
  <2>3. JudgingTyped'
    BY <1>2, <2>1, <2>2 DEF JudgingTyped
  <2> QED BY <2>1, <2>3, JudgingKeeps DEF Reading, Copying, Pending
<1> QED BY <1>3, <1>4, <1>5, <1>6, <1>7, <1>8
-----------------------------------------------------------------------------
(* A step that concerns no judge keeps their peace; what is left to say is about the tree
   and the release. *)
LEMMA AttemptKeeps ==
  ASSUME CustodyKept, EngineMoved, AttemptTyped',
         UNCHANGED <<custody, judging, phase, tampered>>,
         seal'.at = "no" <=> seal.at = "no", seal'.epoch = seal.epoch,
         seal.at = "sealed" => seal'.at = "sealed"
  PROVE  /\ TypeOK' /\ EpochOnRecord' /\ DeliveryAlone'
         /\ engine.poisoned => engine'.poisoned
         /\ engine.revoked => engine'.revoked
         /\ ~Live => ~Live'
<1>1. JudgingTyped'
  BY DEF CustodyKept, TypeOK, JudgingTyped, judging
<1>2. UNCHANGED <<holds, reads, replica, delivery, custody>>
  BY DEF judging
<1> QED BY <1>1, <1>2, StepKeeps DEF Reading, Copying, Pending

(* begin(): nothing is in the tree before it is published, and what fails is not live. *)
LEMMA BeginKeeps ==
  ASSUME CustodyKept,
         Begin \/ BeginAllocates \/ BeginLocks \/ BeginCopies \/ BeginPublishes \/ BeginFails
  PROVE  CustodyKept'
<1> USE DEF work, tree, world
<1>1. /\ EngineMoved
      /\ UNCHANGED <<grants, author, queue, cursor, consumed, seal, sealed, closing>>
      /\ UNCHANGED <<custody, judging, phase, tampered>>
      /\ begun \in {"no", "checking", "allocated", "owned", "copied"}
      /\ begun' \in {"checking", "allocated", "owned", "copied", "published", "failed"}
      /\ lock' \in BOOLEAN
      /\ begun' = "copied" => working' = Baseline
      /\ begun' # "copied" => working' = working
      /\ begun' = "published" => begun = "copied"
      /\ begun' = "failed" => engine' \in {Poisoned, Revoked}
  BY DEF Begin, BeginAllocates, BeginLocks, BeginCopies, BeginPublishes, BeginFails, EngineMoved,
         CustodyKept, TypeOK, AttemptTyped
<1>2. closing # "releasing"
  <2>1. CASE Live
    BY <2>1 DEF CustodyKept, ReleaseIsSound, Live
  <2>2. CASE begun \in {"checking", "allocated", "owned", "copied"}
    BY <2>2 DEF CustodyKept, ReleaseIsSound, Quiet
  <2> QED BY <2>1, <2>2 DEF Begin, BeginAllocates, BeginLocks, BeginCopies, BeginPublishes, BeginFails
<1>3. AttemptTyped'
  <2>1. grants \in [Paths -> Operations] /\ AttemptTyped
    BY DEF CustodyKept, TypeOK, AttemptTyped
  <2>2. Baseline \in [Paths -> Contents \cup {Torn}]
    BY DEF Baseline, Contents
  <2> QED BY <1>1, <2>1, <2>2 DEF AttemptTyped
<1>4. /\ TypeOK' /\ EpochOnRecord' /\ DeliveryAlone'
      /\ engine.poisoned => engine'.poisoned
      /\ engine.revoked => engine'.revoked
      /\ ~Live => ~Live'
  BY <1>1, <1>3, AttemptKeeps
<1>5. queue = <<>> /\ cursor = Baseline /\ (begun = "copied" => working = Baseline)
      /\ ~(seal.at \in {"begun", "allocated", "copied", "sealed"})
  BY <1>1 DEF CustodyKept, TreeOfTheAuthor
<1>6. Baseline' = Baseline
  BY <1>1 DEF Baseline
<1>7. begun' = "failed" => ~Live'
  <2>1. Poisoned.poisoned /\ Revoked.revoked
    BY DEF CustodyKept, TypeOK, EngineType, Poisoned, Revoked
  <2> QED BY <1>1, <2>1 DEF Live
<1>8. TreeOfTheAuthor'
  BY <1>1, <1>5, <1>6, <1>7 DEF TreeOfTheAuthor, CustodyKept
<1>9. OneAtATime'
  <2>1. queue' = <<>> /\ (begun' = "published" => working' = cursor')
    BY <1>1, <1>5
  <2> QED BY <2>1 DEF OneAtATime, JobAt
<1>10. ReleaseIsSound'
  BY <1>1, <1>2, <1>4 DEF CustodyKept, ReleaseIsSound
<1> QED BY <1>4, <1>8, <1>9, <1>10 DEF CustodyKept

(* The request at hand, those behind it, and the queue in which it has moved on. *)
LEMMA JobFacts ==
  ASSUME CustodyKept, queue # <<>>
  PROVE  /\ Job = queue[1] /\ Job \in JobType /\ begun = "published"
         /\ Job.at = "waiting" => ~Job.submitted
         /\ Job.at # "waiting" => Job.op # "read" /\ grants[Job.path] = Job.op
         /\ Len(queue) \in Nat \ {0} /\ DOMAIN queue = 1 .. Len(queue)
         /\ Tail(queue) \in Seq(JobType) /\ Len(Tail(queue)) = Len(queue) - 1
         /\ DOMAIN Tail(queue) = 1 .. Len(queue) - 1
         /\ \A i \in 1 .. Len(queue) - 1 : Tail(queue)[i] = queue[i + 1]
         /\ \A i \in 2 .. Len(queue) : queue[i].at = "waiting" /\ ~queue[i].submitted
<1>1. queue \in Seq(JobType)
  BY DEF CustodyKept, TypeOK, AttemptTyped
<1>2. /\ Job = queue[1] /\ Job \in JobType
      /\ Len(queue) \in Nat \ {0} /\ DOMAIN queue = 1 .. Len(queue)
      /\ Tail(queue) \in Seq(JobType) /\ Len(Tail(queue)) = Len(queue) - 1
      /\ DOMAIN Tail(queue) = 1 .. Len(queue) - 1
      /\ \A i \in 1 .. Len(queue) - 1 : Tail(queue)[i] = queue[i + 1]
  BY <1>1, HeadTailProperties, LenProperties, ElementOfSeq DEF Job
<1>3. begun = "published"
  BY DEF CustodyKept, TreeOfTheAuthor
<1>4. 1 \in DOMAIN queue /\ \A i \in 2 .. Len(queue) : i \in DOMAIN queue /\ i > 1
  BY <1>2
<1>5. /\ Job.at = "waiting" => ~Job.submitted
      /\ Job.at # "waiting" => Job.op # "read" /\ grants[Job.path] = Job.op
      /\ \A i \in 2 .. Len(queue) : queue[i].at = "waiting" /\ ~queue[i].submitted
  BY <1>2, <1>4 DEF CustodyKept, OneAtATime
<1> QED BY <1>2, <1>3, <1>5

(* A step of the oldest request rewrites that request and leaves those behind it. *)
LEMMA HeadMoves ==
  ASSUME CustodyKept, queue # <<>>, NEW job \in JobType, Progress(job)
  PROVE  /\ queue' \in Seq(JobType) /\ Len(queue') = Len(queue) /\ queue' # <<>>
         /\ DOMAIN queue' = 1 .. Len(queue) /\ Job' = job /\ queue'[1] = job
         /\ \A i \in 2 .. Len(queue) : queue'[i] = queue[i]
<1> DEFINE n == Len(queue)
           t == Tail(queue)
<1>1. /\ n \in Nat \ {0} /\ t \in Seq(JobType) /\ Len(t) = n - 1
      /\ \A i \in 1 .. n - 1 : t[i] = queue[i + 1]
  BY JobFacts
<1>2. <<job>> \in Seq(JobType) /\ Len(<<job>>) = 1 /\ <<job>>[1] = job
  OBVIOUS
<1>3. queue' = <<job>> \o t
  BY DEF Progress
<1> HIDE DEF n, t
<1>4. /\ queue' \in Seq(JobType)
      /\ Len(queue') = 1 + Len(t)
      /\ \A i \in 1 .. 1 + Len(t) :
           queue'[i] = IF i <= 1 THEN <<job>>[i] ELSE t[i - 1]
  BY <1>1, <1>2, <1>3, ConcatProperties
<1>5. Len(queue') = n /\ queue'[1] = job /\ DOMAIN queue' = 1 .. n
  BY <1>1, <1>2, <1>4, LenProperties
<1>6. ASSUME NEW i \in 2 .. n
      PROVE  queue'[i] = queue[i]
  <2>1. i \in 1 .. 1 + Len(t) /\ ~(i <= 1) /\ i - 1 \in 1 .. n - 1 /\ (i - 1) + 1 = i
    BY <1>1
  <2> QED BY <1>1, <1>4, <2>1
<1>7. queue' # <<>> /\ Job' = job
  BY <1>1, <1>4, <1>5, HeadTailProperties, EmptySeq DEF Job
<1> QED BY <1>4, <1>5, <1>6, <1>7 DEF n

(* Who asks the disk for something holds the workspace in the author's epoch, in which
   nothing is being sealed or released. *)
LEMMA Writing ==
  ASSUME CustodyKept
  PROVE  /\ MayWrite => seal.at = "no" /\ ~engine.poisoned
         /\ Live \/ queue # <<>> => closing # "releasing"
<1>1. MayWrite => seal.at = "no"
  <2> SUFFICES ASSUME MayWrite
               PROVE  seal.at = "no"
    OBVIOUS
  <2>1. engine.epoch = 0
    BY DEF MayWrite
  <2> QED BY <2>1 DEF CustodyKept, EpochOnRecord
<1> QED BY <1>1 DEF MayWrite, Live, CustodyKept, ReleaseIsSound, Quiet

(* The step of a request keeps what the workspace keeps, if the new tree does. *)
LEMMA AuthorKeeps ==
  ASSUME CustodyKept, EngineMoved, Live \/ queue # <<>>,
         UNCHANGED <<grants, begun, author, seal, sealed, closing, lock>>,
         UNCHANGED <<custody, judging, phase, tampered>>,
         begun = "published",
         queue' \in Seq(JobType), Len(queue') <= Capacity,
         working' \in [Paths -> Contents \cup {Torn}], cursor' \in [Paths -> Contents],
         seal.at = "no" \/ (queue # <<>> /\ UNCHANGED <<working, cursor>>),
         \A p \in Paths : grants[p] = "replace" => cursor'[p] # Missing,
         OneAtATime'
  PROVE  CustodyKept'
<1>1. AttemptTyped'
  BY DEF CustodyKept, TypeOK, AttemptTyped
<1>2. /\ TypeOK' /\ EpochOnRecord' /\ DeliveryAlone'
      /\ engine.poisoned => engine'.poisoned
      /\ engine.revoked => engine'.revoked
      /\ ~Live => ~Live'
  BY <1>1, AttemptKeeps
<1>3. ~(seal.at \in {"begun", "allocated", "copied", "sealed"})
  BY DEF CustodyKept, TreeOfTheAuthor
<1>4. TreeOfTheAuthor'
  BY <1>3 DEF CustodyKept, TreeOfTheAuthor
<1>5. ReleaseIsSound'
  BY <1>2, Writing DEF CustodyKept, ReleaseIsSound
<1> QED BY <1>2, <1>4, <1>5 DEF CustodyKept

(* A new request goes behind the others. *)
LEMMA EnqueueKeeps ==
  ASSUME CustodyKept, NEW r \in Requests, Enqueue(r)
  PROVE  CustodyKept'
<1> USE DEF work, tree, world
<1> DEFINE n == Len(queue)
<1>1. /\ UNCHANGED <<grants, begun, author, seal, sealed, closing, lock, working, cursor>>
      /\ UNCHANGED <<custody, judging, phase, tampered>>
      /\ begun = "published" /\ MayWrite /\ Live /\ n < Capacity
      /\ \/ queue' = Append(queue, r) /\ engine' = engine
         \/ engine' = Poisoned /\ queue' = queue
  BY DEF Enqueue, MayWrite
<1>2. seal.at = "no" /\ ~engine.poisoned
  BY <1>1, Writing
<1>3. r \in JobType /\ r.at = "waiting" /\ ~r.submitted
  BY DEF Requests, JobType
<1>4. /\ queue \in Seq(JobType) /\ n \in Nat /\ DOMAIN queue = 1 .. n
      /\ working \in [Paths -> Contents \cup {Torn}] /\ cursor \in [Paths -> Contents]
      /\ n <= Capacity
  BY LenProperties DEF CustodyKept, TypeOK, AttemptTyped
<1>5. CASE queue' = queue /\ engine' = Poisoned
  <2>1. engine'.poisoned
    BY <1>5 DEF CustodyKept, TypeOK, EngineType, Poisoned
  <2>2. OneAtATime'
    BY <1>1, <1>5, <2>1 DEF CustodyKept, OneAtATime
  <2>3. EngineMoved
    BY <1>5 DEF EngineMoved
  <2> HIDE DEF n
  <2> QED BY <1>1, <1>2, <1>4, <1>5, <2>2, <2>3, AuthorKeeps DEF CustodyKept, TreeOfTheAuthor, n
<1>6. CASE queue' = Append(queue, r) /\ engine' = engine
  <2>1. /\ queue' \in Seq(JobType) /\ Len(queue') = n + 1 /\ DOMAIN queue' = 1 .. n + 1
        /\ \A i \in 1 .. n : queue'[i] = queue[i]
        /\ queue'[n + 1] = r
    BY <1>3, <1>4, <1>6, AppendProperties, LenProperties
  <2>2. /\ queue # <<>> => Job' = Job
        /\ queue = <<>> => Job' = r /\ n = 0
        /\ queue' # <<>>
    BY <1>3, <1>4, <1>6, <2>1, HeadTailProperties, EmptySeq DEF Job
  <2> HIDE DEF n
  <2>3. \A i \in DOMAIN queue' :
          /\ i > 1 => queue'[i].at = "waiting"
          /\ queue'[i].at = "waiting" => ~queue'[i].submitted
          /\ queue'[i].at # "waiting" => queue'[i].op # "read" /\ grants[queue'[i].path] = queue'[i].op
    BY <1>3, <1>4, <2>1 DEF CustodyKept, OneAtATime
  <2>4. /\ \A p \in Paths : working[p] # cursor[p] => p = Job'.path /\ Job'.submitted
        /\ Job'.at = "committed" => working[Job'.path] = Result(Job')
    BY <1>1, <1>2, <1>3, <2>2 DEF CustodyKept, OneAtATime, JobAt
  <2>5. OneAtATime'
    BY <1>1, <2>2, <2>3, <2>4 DEF OneAtATime, JobAt, Result
  <2>6. EngineMoved /\ Len(queue') <= Capacity
    BY <1>1, <1>4, <1>6, <2>1, CustodyAssumption DEF EngineMoved
  <2> QED BY <1>1, <1>2, <1>4, <2>1, <2>5, <2>6, AuthorKeeps DEF CustodyKept, TreeOfTheAuthor
<1> QED BY <1>1, <1>5, <1>6

(* A request that leaves the queue while the tree is what the author was told. *)
LEMMA HeadLeaves ==
  ASSUME CustodyKept, queue # <<>>, queue' = Tail(queue), UNCHANGED <<grants, begun>>,
         engine.poisoned => engine'.poisoned,
         ~engine'.poisoned => working' = cursor'
  PROVE  OneAtATime' /\ queue' \in Seq(JobType) /\ Len(queue') <= Capacity
<1> DEFINE n == Len(queue)
<1>1. /\ n \in Nat \ {0} /\ Len(queue') = n - 1 /\ queue' \in Seq(JobType)
      /\ DOMAIN queue' = 1 .. n - 1
      /\ \A i \in 1 .. n - 1 : queue'[i] = queue[i + 1]
      /\ \A i \in 2 .. n : queue[i].at = "waiting" /\ ~queue[i].submitted
      /\ n <= Capacity
  BY JobFacts DEF CustodyKept, TypeOK, AttemptTyped
<1> HIDE DEF n
<1>2. \A i \in 1 .. n - 1 : queue'[i].at = "waiting" /\ ~queue'[i].submitted
  BY <1>1
<1>3. queue' # <<>> => Job'.at = "waiting"
  <2>1. queue' # <<>> => Job' = queue'[1] /\ 1 \in DOMAIN queue'
    BY <1>1, HeadTailProperties, LenProperties DEF Job
  <2> QED BY <1>1, <1>2, <2>1
<1>4. OneAtATime'
  BY <1>1, <1>2, <1>3 DEF OneAtATime, JobAt
<1> QED BY <1>1, <1>4, CustodyAssumption

(* The steps of the request at hand: it is refused, or goes to the disk, or is answered. *)
LEMMA JobKeeps ==
  ASSUME CustodyKept,
         JobReads \/ JobRefused \/ JobStarts \/ JobCommits \/ JobAcknowledges \/ JobFails
  PROVE  CustodyKept'
<1> USE DEF work, tree, world
<1>1. /\ queue # <<>> /\ EngineMoved
      /\ UNCHANGED <<grants, begun, author, seal, sealed, closing, lock>>
      /\ UNCHANGED <<custody, judging, phase, tampered>>
  BY DEF JobReads, JobRefused, JobStarts, JobCommits, JobAcknowledges, JobFails, JobAt, EngineMoved
<1>2. /\ Job \in JobType /\ begun = "published"
      /\ Job.at = "waiting" => ~Job.submitted
      /\ Job.at # "waiting" => Job.op # "read" /\ grants[Job.path] = Job.op
  BY <1>1, JobFacts
<1>3. /\ working \in [Paths -> Contents \cup {Torn}] /\ cursor \in [Paths -> Contents]
      /\ queue \in Seq(JobType) /\ Len(queue) <= Capacity /\ grants \in [Paths -> Operations]
      /\ engine \in EngineType
      /\ \A p \in Paths : grants[p] = "replace" => cursor[p] # Missing
  BY DEF CustodyKept, TypeOK, AttemptTyped, TreeOfTheAuthor
<1>4. ~engine.poisoned =>
        /\ \A p \in Paths : working[p] # cursor[p] => p = Job.path /\ Job.submitted
        /\ Job.at = "committed" => working[Job.path] = Result(Job)
  BY <1>1, <1>2 DEF CustodyKept, OneAtATime, JobAt
<1>5. ~engine.poisoned /\ ~Job.submitted => working = cursor
  BY <1>3, <1>4
<1>6. Job.path \in Paths /\ Result(Job) \in Contents /\ (Job.op = "replace" => Result(Job) # Missing)
  <2>1. Job.path \in Paths /\ Job.text \in Texts \cup {0}
    BY <1>2 DEF JobType
  <2>2. Job.text # Missing
    BY <2>1, CustodyAssumption DEF Missing
  <2> QED BY <2>1, <2>2 DEF Result, Contents
<1>7. CASE JobReads \/ JobRefused
  <2>1. queue' = Tail(queue) /\ Job.at = "waiting" /\ UNCHANGED <<engine, working, cursor>>
    BY <1>7 DEF JobReads, JobRefused, JobAt
  <2>2. ~engine'.poisoned => working' = cursor'
    BY <1>2, <1>5, <2>1
  <2>3. OneAtATime' /\ queue' \in Seq(JobType) /\ Len(queue') <= Capacity
    BY <1>1, <2>1, <2>2, HeadLeaves
  <2> QED BY <1>1, <1>2, <1>3, <2>1, <2>3, AuthorKeeps
<1>8. CASE JobFails
  <2>1. queue' = Tail(queue) /\ UNCHANGED <<working, cursor>> /\ (Job.submitted => engine' = Poisoned)
        /\ engine' \in {engine, Poisoned}
    BY <1>8 DEF JobFails, Fails
  <2>2. (engine.poisoned => engine'.poisoned) /\ (Job.submitted => engine'.poisoned)
    BY <1>3, <2>1 DEF Poisoned, EngineType
  <2>3. ~engine'.poisoned => working' = cursor'
    BY <1>5, <2>1, <2>2
  <2>4. OneAtATime' /\ queue' \in Seq(JobType) /\ Len(queue') <= Capacity
    BY <1>1, <2>1, <2>2, <2>3, HeadLeaves
  <2> QED BY <1>1, <1>2, <1>3, <2>1, <2>4, AuthorKeeps
<1>9. CASE JobStarts \/ JobCommits \/ JobAcknowledges
  <2>1. MayWrite /\ seal.at = "no" /\ ~engine.poisoned /\ engine' = engine
    BY <1>9, Writing DEF JobStarts, JobCommits, JobAcknowledges
  <2>2. ASSUME NEW job \in JobType, Progress(job), cursor' = cursor,
               working' \in [Paths -> Contents \cup {Torn}],
               job.path = Job.path, job.op = Job.op, job.at # "waiting",
               job.op # "read", grants[job.path] = job.op,
               \A p \in Paths : working'[p] # cursor[p] => p = Job.path /\ job.submitted,
               job.at = "committed" => working'[Job.path] = Result(job)
        PROVE  CustodyKept'
    <3> DEFINE n == Len(queue)
    <3>1. /\ queue' \in Seq(JobType) /\ Len(queue') = n /\ queue' # <<>>
          /\ DOMAIN queue' = 1 .. n /\ Job' = job /\ queue'[1] = job
          /\ \A i \in 2 .. n : queue'[i] = queue[i]
      BY <1>1, <2>2, HeadMoves
    <3>2. n \in Nat \ {0} /\ \A i \in 2 .. n : queue[i].at = "waiting" /\ ~queue[i].submitted
      BY <1>1, JobFacts
    <3> HIDE DEF n
    <3>3. ASSUME NEW i \in DOMAIN queue'
          PROVE  /\ i > 1 => queue'[i].at = "waiting"
                 /\ queue'[i].at = "waiting" => ~queue'[i].submitted
                 /\ queue'[i].at # "waiting" =>
                      queue'[i].op # "read" /\ grants[queue'[i].path] = queue'[i].op
      <4>1. CASE i = 1
        BY <2>2, <3>1, <4>1
      <4>2. CASE i \in 2 .. n
        BY <3>1, <3>2, <4>2
      <4> QED BY <3>1, <3>2, <4>1, <4>2
    <3>4. OneAtATime'
      BY <1>1, <2>2, <3>1, <3>3 DEF OneAtATime, JobAt, Result
    <3> QED BY <1>1, <1>2, <1>3, <2>1, <2>2, <3>1, <3>4, AuthorKeeps DEF n
  <2>3. CASE JobStarts
    <3> DEFINE job == Moved("staged", Job.op # "delete")
    <3>1. /\ Progress(job) /\ cursor' = cursor /\ Allowed(Job) /\ Job.op # "read" /\ Job.at = "waiting"
          /\ working' = IF Job.op = "create" THEN [working EXCEPT ![Job.path] = Torn] ELSE working
      BY <2>3 DEF JobStarts, JobAt
    <3>2. /\ job \in JobType /\ job.path = Job.path /\ job.op = Job.op /\ job.at = "staged"
          /\ job.submitted = (Job.op # "delete")
      BY <1>2 DEF Moved, JobType
    <3>3. /\ working' \in [Paths -> Contents \cup {Torn}]
          /\ \A p \in Paths : working'[p] # cursor[p] => p = Job.path /\ Job.op = "create"
      BY <1>2, <1>3, <1>5, <1>6, <2>1, <3>1
    <3> HIDE DEF job
    <3> QED BY <2>2, <3>1, <3>2, <3>3 DEF Allowed
  <2>4. CASE JobCommits
    <3> DEFINE job == Moved("committed", TRUE)
    <3>1. /\ Progress(job) /\ cursor' = cursor /\ Job.at = "staged"
          /\ working' = [working EXCEPT ![Job.path] = Result(Job)]
      BY <2>4 DEF JobCommits, JobAt
    <3>2. /\ job \in JobType /\ job.path = Job.path /\ job.op = Job.op /\ job.at = "committed"
          /\ job.submitted /\ Result(job) = Result(Job)
      BY <1>2 DEF Moved, JobType, Result
    <3>3. /\ working' \in [Paths -> Contents \cup {Torn}]
          /\ \A p \in Paths : working'[p] # cursor[p] => p = Job.path
          /\ working'[Job.path] = Result(Job)
      BY <1>3, <1>4, <1>6, <2>1, <3>1
    <3> HIDE DEF job
    <3> QED BY <1>2, <2>2, <3>1, <3>2, <3>3
  <2>5. CASE JobAcknowledges
    <3>1. /\ queue' = Tail(queue) /\ working' = working /\ Job.at = "committed"
          /\ cursor' = [cursor EXCEPT ![Job.path] = Result(Job)]
      BY <2>5 DEF JobAcknowledges, JobAt
    <3>2. /\ cursor' \in [Paths -> Contents] /\ working' = cursor'
          /\ \A p \in Paths : grants[p] = "replace" => cursor'[p] # Missing
      <4>1. /\ cursor' \in [Paths -> Contents]
            /\ \A p \in Paths : cursor'[p] = IF p = Job.path THEN Result(Job) ELSE cursor[p]
        BY <1>3, <1>6, <3>1
      <4>2. \A p \in Paths : working[p] = cursor'[p]
        BY <1>4, <2>1, <3>1, <4>1
      <4> QED BY <1>2, <1>3, <1>6, <3>1, <4>1, <4>2
    <3>3. OneAtATime' /\ queue' \in Seq(JobType) /\ Len(queue') <= Capacity
      BY <1>1, <2>1, <3>1, <3>2, HeadLeaves
    <3> QED BY <1>1, <1>2, <1>3, <2>1, <3>1, <3>2, <3>3, AuthorKeeps
  <2> QED BY <1>9, <2>3, <2>4, <2>5
<1> QED BY <1>7, <1>8, <1>9

(* seal() and transfer() turn the epoch, each once and only while the workspace lives. *)
LEMMA TurnKeeps ==
  ASSUME CustodyKept, Seal \/ Transfer
  PROVE  CustodyKept'
<1> USE DEF work, tree, world
<1>1. /\ Live /\ ~engine.poisoned /\ ~engine.revoked /\ closing # "releasing"
      /\ UNCHANGED <<grants, begun, author, queue, working, cursor, sealed, closing, lock>>
      /\ UNCHANGED <<judging, phase, tampered>>
  BY DEF Seal, Transfer, Live, CustodyKept, ReleaseIsSound
<1>2. UNCHANGED <<holds, reads, replica, delivery>>
  BY <1>1 DEF judging
<1>3. /\ engine \in EngineType /\ AttemptTyped /\ JudgingTyped /\ EpochOnRecord
      /\ DeliveryAlone /\ OneAtATime /\ TreeOfTheAuthor /\ ReleaseIsSound
  BY DEF CustodyKept, TypeOK
<1>4. Busy' = Busy
  BY <1>2 DEF Busy, Pending
<1>5. ASSUME engine' \in EngineType, AttemptTyped', JudgingTyped', EpochOnRecord',
             engine'.poisoned = engine.poisoned, engine'.revoked = engine.revoked,
             engine'.closed = engine.closed, seal'.at \in {seal.at, "waiting"}
      PROVE  CustodyKept'
  <2>1. TypeOK'
    <3> HIDE DEF Busy
    <3> QED BY <1>4, <1>5 DEF TypeOK, CustodyKept
  <2>2. OneAtATime' /\ TreeOfTheAuthor'
    <3>1. ~Live => ~Live'
      BY <1>5 DEF Live
    <3> QED BY <1>1, <1>3, <1>5, <3>1, TreeLeftAlone DEF AuthorCompleted
  <2>3. DeliveryAlone' /\ ReleaseIsSound'
    BY <1>1, <1>2, <1>3, <1>4, <1>5 DEF DeliveryAlone, ReleaseIsSound
  <2> QED BY <1>5, <2>1, <2>2, <2>3 DEF CustodyKept
<1> DEFINE x == engine.epoch + 1
<1>6. engine.epoch \in Nat /\ x = engine.epoch + 1 /\ x \in Nat
  BY <1>3 DEF EngineType
<1> HIDE DEF x
<1>7. CASE Seal
  <2>1. /\ seal.at = "no" /\ custody' = custody
        /\ engine' = [engine EXCEPT !.admission = FALSE, !.epoch = x]
        /\ seal' = [seal EXCEPT !.at = "waiting", !.epoch = x]
    BY <1>7 DEF Seal, x
  <2>2. engine.epoch = 0 /\ custody.at = "no" /\ x = 1
    <3>1. custody.at = "no"
      BY <1>3, <2>1 DEF EpochOnRecord
    <3> QED BY <1>1, <1>3, <1>6, <2>1, <3>1 DEF EpochOnRecord
  <2>3. /\ engine' \in EngineType /\ engine'.epoch = 1
        /\ engine'.poisoned = engine.poisoned /\ engine'.revoked = engine.revoked
        /\ engine'.closed = engine.closed
    <3>1. x \in 0 .. 4
      BY <2>2
    <3> QED BY <1>3, <2>1, <2>2, <3>1 DEF EngineType
  <2>4. seal' \in [at : {"waiting"}, epoch : Nat, saw : BOOLEAN] /\ seal'.epoch = 1
    BY <1>3, <1>6, <2>1, <2>2 DEF AttemptTyped
  <2>5. AttemptTyped' /\ JudgingTyped'
    BY <1>1, <1>2, <1>3, <2>1, <2>4 DEF AttemptTyped, JudgingTyped
  <2>6. EpochOnRecord'
    BY <1>1, <2>1, <2>2, <2>3, <2>4 DEF EpochOnRecord
  <2> QED BY <1>5, <2>3, <2>4, <2>5, <2>6
<1>8. CASE Transfer /\ custody.at # "no"
  <2>1. EngineMoved /\ UNCHANGED <<seal, custody>> /\ AttemptTyped'
    BY <1>1, <1>3, <1>8 DEF Transfer, EngineMoved, AttemptTyped
  <2>2. JudgingTyped'
    BY <1>1, <1>2, <1>3, <2>1 DEF JudgingTyped
  <2> QED BY <1>1, <1>2, <2>1, <2>2, JudgingKeeps DEF Reading, Copying, Pending
<1>9. CASE Transfer /\ custody.at = "no"
  <2>1. /\ seal.at = "sealed" /\ seal' = seal
        /\ engine' = [engine EXCEPT !.admission = FALSE, !.epoch = x]
        /\ custody' = [at |-> "moving", epoch |-> x]
    BY <1>9 DEF Transfer, x
  <2>2. engine.epoch = 1 /\ x = 2
    BY <1>1, <1>3, <1>6, <1>9, <2>1 DEF EpochOnRecord
  <2>3. /\ engine' \in EngineType /\ engine'.epoch = 2
        /\ engine'.poisoned = engine.poisoned /\ engine'.revoked = engine.revoked
        /\ engine'.closed = engine.closed
    <3>1. x \in 0 .. 4
      BY <2>2
    <3> QED BY <1>3, <2>1, <2>2, <3>1 DEF EngineType
  <2>4. custody' \in [at : {"moving"}, epoch : Nat] /\ custody'.epoch = 2
    BY <1>6, <2>1, <2>2
  <2>5. AttemptTyped' /\ JudgingTyped'
    BY <1>1, <1>2, <1>3, <2>1, <2>4 DEF AttemptTyped, JudgingTyped
  <2>6. EpochOnRecord'
    BY <1>1, <1>3, <2>1, <2>2, <2>3, <2>4 DEF EpochOnRecord
  <2> QED BY <1>5, <2>1, <2>3, <2>5, <2>6
<1> QED BY <1>7, <1>8, <1>9

(* The steps of a seal: it begins when the author is gone and the tree is what was
   acknowledged, and copies that. *)
LEMMA SealKeeps ==
  ASSUME CustodyKept, SealBegins \/ SealAllocates \/ SealCopies \/ SealAcknowledges
  PROVE  CustodyKept'
<1> USE DEF work, tree, world
<1>1. /\ Live /\ engine' = engine /\ EngineMoved
      /\ UNCHANGED <<grants, begun, author, queue, working, cursor, closing, lock>>
      /\ UNCHANGED <<custody, judging, phase, tampered>>
      /\ seal.at \in {"waiting", "begun", "allocated", "copied"}
  BY DEF SealBegins, SealAllocates, SealCopies, SealAcknowledges, MaySeal, EngineMoved
<1>2. AttemptTyped /\ TreeOfTheAuthor /\ OneAtATime
  BY DEF CustodyKept, TypeOK
<1>3. /\ seal' \in [at : {"begun", "allocated", "copied", "sealed"}, epoch : Nat, saw : BOOLEAN]
      /\ seal'.epoch = seal.epoch
      /\ seal'.at # "begun" => seal.at \in {"begun", "allocated", "copied"}
      /\ seal'.at = "begun" => SealSettled /\ AuthorCompleted
      /\ seal'.at = "copied" => sealed' = working
      /\ seal'.at = "sealed" => seal.at = "copied"
      /\ seal'.at # "copied" => sealed' = sealed
  <2>1. seal \in [at : {"no", "waiting", "begun", "allocated", "copied", "sealed", "refused"},
                  epoch : Nat, saw : BOOLEAN]
    BY <1>2 DEF AttemptTyped
  <2>2. CASE SealBegins
    BY <2>1, <2>2 DEF SealBegins
  <2>3. CASE SealAllocates
    BY <2>1, <2>3 DEF SealAllocates
  <2>4. CASE SealCopies
    BY <2>1, <2>4 DEF SealCopies
  <2>5. CASE SealAcknowledges
    <3>1. ("protected" \in tampered) \in BOOLEAN
      OBVIOUS
    <3>2. /\ seal.at = "copied" /\ sealed' = sealed
          /\ seal' = [seal EXCEPT !.at = "sealed", !.saw = "protected" \in tampered]
      BY <2>5 DEF SealAcknowledges
    <3> QED BY <2>1, <3>1, <3>2
  <2> QED BY <2>2, <2>3, <2>4, <2>5
<1>4. AttemptTyped'
  BY <1>1, <1>2, <1>3 DEF AttemptTyped
<1>5. TypeOK' /\ EpochOnRecord' /\ DeliveryAlone'
  BY <1>1, <1>3, <1>4, AttemptKeeps
<1>6. seal'.at = "begun" =>
        begun = "published" /\ queue = <<>> /\ AuthorCompleted /\ working = cursor
  <2> SUFFICES ASSUME seal'.at = "begun"
               PROVE  begun = "published" /\ queue = <<>> /\ AuthorCompleted /\ working = cursor
    OBVIOUS
  <2>1. begun = "published" /\ queue = <<>> /\ AuthorCompleted
    BY <1>1, <1>2, <1>3 DEF SealSettled, Begun, TreeOfTheAuthor
  <2>2. \A p \in Paths : working[p] = cursor[p]
    BY <1>1, <1>2, <2>1 DEF OneAtATime, Live
  <2> QED BY <1>2, <2>1, <2>2 DEF AttemptTyped
<1>7. begun = "published" /\ queue = <<>> /\ AuthorCompleted /\ working = cursor
  BY <1>1, <1>2, <1>3, <1>6 DEF TreeOfTheAuthor
<1>8. TreeOfTheAuthor'
  BY <1>1, <1>2, <1>3, <1>7 DEF TreeOfTheAuthor, AuthorCompleted
<1>9. OneAtATime'
  BY <1>1, <1>2, <1>7 DEF OneAtATime, JobAt
<1>10. ReleaseIsSound'
  BY <1>1 DEF CustodyKept, ReleaseIsSound, Live
<1> QED BY <1>5, <1>8, <1>9, <1>10 DEF CustodyKept

(* The author's end, once reached, stays. *)
LEMMA AuthorEndsKeeps ==
  ASSUME CustodyKept, AuthorEnds
  PROVE  CustodyKept'
<1> USE DEF work, tree, world
<1>1. /\ engine' = engine /\ EngineMoved
      /\ UNCHANGED <<grants, begun, queue, working, cursor, seal, sealed, closing, lock>>
      /\ UNCHANGED <<custody, judging, phase, tampered>>
  BY DEF AuthorEnds, EngineMoved
<1>2. AttemptTyped' /\ (AuthorCompleted => AuthorCompleted')
  BY <1>1 DEF CustodyKept, TypeOK, AttemptTyped, AuthorEnds, AuthorCompleted
<1>3. TypeOK' /\ EpochOnRecord' /\ DeliveryAlone'
  BY <1>1, <1>2, AttemptKeeps
<1>4. OneAtATime' /\ TreeOfTheAuthor'
  BY <1>1, <1>2, TreeLeftAlone DEF CustodyKept, Live
<1>5. ReleaseIsSound'
  BY <1>1, <1>2 DEF CustodyKept, ReleaseIsSound, Quiet, judging, Pending
<1> QED BY <1>3, <1>4, <1>5 DEF CustodyKept

(* close() revokes, waits until all is quiet and the author gone, and only then releases. *)
LEMMA CloseKeeps ==
  ASSUME CustodyKept, Close \/ CloseSettles \/ CloseReleases
  PROVE  CustodyKept'
<1> USE DEF work, tree, world
<1>1. /\ EngineMoved
      /\ UNCHANGED <<grants, begun, author, queue, working, cursor, seal, sealed>>
      /\ UNCHANGED <<custody, holds, reads, delivery, phase, tampered>>
      /\ closing' \in {"waiting", "releasing", "closed", "refused"} /\ lock' \in BOOLEAN
      /\ replica' \in {replica, [replica EXCEPT !.at = "closed"]}
  BY DEF Close, CloseSettles, CloseReleases, EngineMoved, ReplicaRevoked, judging, CustodyKept,
         TypeOK, AttemptTyped
<1>2. AttemptTyped' /\ JudgingTyped'
  BY <1>1 DEF CustodyKept, TypeOK, AttemptTyped, JudgingTyped
<1>3. (Copying' => Copying) /\ (replica'.at = "ready" => replica.at = "ready")
  BY <1>1 DEF CustodyKept, TypeOK, JudgingTyped, Copying
<1>4. /\ TypeOK' /\ EpochOnRecord' /\ DeliveryAlone'
      /\ engine.poisoned => engine'.poisoned
      /\ engine.revoked => engine'.revoked
      /\ ~Live => ~Live'
  BY <1>1, <1>2, <1>3, StepKeeps DEF Reading, Pending
<1>5. OneAtATime' /\ TreeOfTheAuthor'
  BY <1>1, <1>4, TreeLeftAlone DEF CustodyKept, AuthorCompleted
<1>6. ReleaseIsSound'
  <2>1. CASE Close
    <3>1. engine'.revoked /\ closing' = "waiting"
      BY <2>1 DEF Close, Revoked, CustodyKept, TypeOK, EngineType
    <3> QED BY <3>1 DEF ReleaseIsSound
  <2>2. CASE CloseSettles
    <3>1. /\ closing = "waiting" /\ engine.revoked /\ UNCHANGED judging /\ Quiet
          /\ closing' = "releasing" => ~engine'.poisoned /\ lock
          /\ lock /\ ~AuthorCompleted => engine' = Poisoned
      BY <2>2 DEF CloseSettles, CustodyKept, ReleaseIsSound
    <3>2. Poisoned.poisoned
      BY DEF Poisoned, CustodyKept, TypeOK, EngineType
    <3> QED BY <1>1, <1>4, <3>1, <3>2 DEF ReleaseIsSound, Quiet, Pending, AuthorCompleted, judging
  <2>3. CASE CloseReleases
    BY <1>4, <2>3 DEF CloseReleases, CustodyKept, ReleaseIsSound
  <2> QED BY <2>1, <2>2, <2>3
<1> QED BY <1>4, <1>5, <1>6 DEF CustodyKept
-----------------------------------------------------------------------------
(* What the workspace does by itself, and what is asked of it. *)
LEMMA WorkspaceKeeps ==
  ASSUME CustodyKept, EngineStep \/ Call \/ World \/ Advance \/ Close
  PROVE  CustodyKept'
<1>1. CASE EngineStep
  BY <1>1, BeginKeeps, JobKeeps, SealKeeps, OthersKeep, ReadersKeep, ReplicaKeeps, CloseKeeps
     DEF EngineStep
<1>2. CASE Call
  BY <1>2, BeginKeeps, TurnKeeps, OthersKeep, EnqueueKeeps, ReadersKeep, AskReadKeeps,
     PrepareDeliveryKeeps DEF Call
<1>3. CASE World \/ Advance \/ Close
  BY <1>3, AuthorEndsKeeps, OthersKeep, CloseKeeps DEF World
<1> QED BY <1>1, <1>2, <1>3

(* None of that begins a copy, but for the steps of one that was begun. *)
LEMMA WorkspaceCopiesNothing ==
  ASSUME CustodyKept, EngineStep \/ Call \/ World \/ Advance \/ Close
  PROVE  /\ Copying' => Copying
         /\ replica'.at = "ready" => replica.at \in {"making", "ready"}
<1> USE DEF work, tree, judging, world
<1>1. replica \in [at : {"none", "asked", "making", "ready", "closed", "bad"},
                   phase : Phases \cup {"none"}]
  BY DEF CustodyKept, TypeOK, JudgingTyped
<1>2. CASE EngineStep
  <2>1. CASE StartReplica \/ MakeReplica
    BY <1>1, <2>1 DEF StartReplica, MakeReplica, ReplicaGoesOn, Copying
  <2>2. CASE UNCHANGED replica
    BY <2>2 DEF Copying
  <2>3. CASE BeginAllocates \/ BeginLocks \/ BeginCopies \/ BeginPublishes \/ BeginFails
    BY <2>2, <2>3 DEF BeginAllocates, BeginLocks, BeginCopies, BeginPublishes, BeginFails
  <2>4. CASE JobReads \/ JobRefused \/ JobStarts \/ JobCommits \/ JobAcknowledges \/ JobFails
    BY <2>2, <2>4 DEF JobReads, JobRefused, JobStarts, JobCommits, JobAcknowledges, JobFails
  <2>5. CASE SealBegins \/ SealAllocates \/ SealCopies \/ SealAcknowledges \/ SealFails \/ TransferSettles
    BY <2>2, <2>5 DEF SealBegins, SealAllocates, SealCopies, SealAcknowledges, SealFails, TransferSettles
  <2>6. CASE (\E r \in Readers : StartRead(r) \/ AnswerRead(r)) \/ CloseSettles \/ CloseReleases
    BY <2>2, <2>6 DEF StartRead, AnswerRead, Settled, CloseSettles, CloseReleases
  <2> QED BY <1>2, <2>1, <2>3, <2>4, <2>5, <2>6 DEF EngineStep
<1>3. CASE Revoke \/ Close
  BY <1>1, <1>3 DEF Revoke, Close, ReplicaRevoked, Copying
<1>4. CASE Begin \/ Seal \/ Transfer \/ Verify \/ World \/ Advance \/ PrepareDelivery
           \/ (\E r \in Requests : Sensible(r) /\ Enqueue(r))
           \/ \E r \in Readers : View(r) \/ Lease(r) \/ AskRead(r)
  <2>1. UNCHANGED replica
    BY <1>4 DEF Begin, Seal, Transfer, Verify, World, AuthorEnds, Leave, Tamper, Advance,
                PrepareDelivery, Enqueue, View, Lease, AskRead
  <2> QED BY <2>1 DEF Copying
<1> QED BY <1>2, <1>3, <1>4 DEF Call

(* What a check of the runner leaves alone. *)
CustodyLeft == UNCHANGED <<grants, begun, work, seal, sealed, custody, closing, lock, world>>

(* A check of the runner changes no more than the engine, and nothing of one that is at its
   end. *)
LEMMA CheckKeeps ==
  ASSUME CustodyKept, NEW outcome, After(outcome), ~Live => outcome = "refused",
         CustodyLeft, UNCHANGED <<holds, reads, delivery>>,
         replica' \in {replica, [at |-> "none", phase |-> "none"]}
  PROVE  CustodyKept'
<1> USE DEF work, tree, world, CustodyLeft
<1>1. EngineMoved /\ (outcome # "poisoned" => engine' = engine)
  BY AfterMoves
<1>2. JudgingTyped' /\ (Copying' => Copying) /\ (replica'.at = "ready" => replica.at = "ready")
  BY DEF CustodyKept, TypeOK, JudgingTyped, Copying
<1>3. closing = "releasing" => engine' = engine
  BY <1>1 DEF CustodyKept, ReleaseIsSound, Live
<1> QED BY <1>1, <1>2, <1>3, JudgingKeeps DEF Reading, Pending

(* A runner whose workspace is at its end is refused whatever it asks. *)
LEMMA OutcomeRefused ==
  ASSUME ~Live
  PROVE  /\ VerifyOutcome = "refused" /\ Check("owner") = "refused"
         /\ Authority(VerifyOutcome) = "refused" /\ Authority(Check("owner")) = "refused"
<1> QED BY CheckRefuses DEF VerifyOutcome, Authority
-----------------------------------------------------------------------------
(* A step of the runner alone leaves the workspace as it is. *)
LEMMA CustodyAsItIs ==
  ASSUME CustodyKept, UNCHANGED custodyVars
  PROVE  CustodyKept'
<1> USE DEF custodyVars, vars, work, tree, judging, world
<1>1. EngineMoved /\ JudgingTyped'
  BY DEF EngineMoved, CustodyKept, TypeOK, JudgingTyped
<1> QED BY <1>1, JudgingKeeps DEF Reading, Pending, Copying

(* No step of a runner harms its workspace. *)
LEMMA RunnerKeepsCustody ==
  ASSUME CustodyKept, RunCommand \/ RunnerStep \/ Timeout \/ StopRunner \/ ChildEnds
  PROVE  CustodyKept'
<1>1. CASE RunCommand \/ Spawn \/ GraceEnds \/ Timeout \/ StopRunner \/ ChildEnds
  BY <1>1, CustodyAsItIs DEF RunCommand, Spawn, GraceEnds, Timeout, StopRunner, ChildEnds
<1>2. CASE Replicate
  BY <1>2, AskReplicaKeeps DEF Replicate
<1>3. CASE ReplicateFails \/ SpawnFails \/ Wait
  <2>1. CASE UNCHANGED custodyVars
    BY <2>1, CustodyAsItIs
  <2>2. CASE After(Authority(Check("owner"))) /\ CustodyLeft /\ UNCHANGED judging
    BY <2>2, CheckKeeps, OutcomeRefused DEF judging
  <2>3. CASE After(Authority(VerifyOutcome)) /\ CustodyLeft /\ UNCHANGED judging
    BY <2>3, CheckKeeps, OutcomeRefused DEF judging
  <2> QED BY <1>3, <2>1, <2>2, <2>3 DEF ReplicateFails, SpawnFails, Wait, CustodyLeft
<1>4. CASE Settle \/ Consume
  <2>1. CustodyLeft /\ UNCHANGED judging
    BY <1>4 DEF Settle, Consume, CustodyLeft
  <2>2. After(VerifyOutcome) \/ After(Authority(VerifyOutcome))
    BY <1>4 DEF Settle, Consume
  <2> QED BY <2>1, <2>2, CheckKeeps, OutcomeRefused DEF judging
<1>5. CASE CloseRunner
  <2>1. CustodyLeft /\ UNCHANGED <<holds, reads, delivery>>
    BY <1>5 DEF CloseRunner, Dropped, CustodyLeft
  <2>2. CASE drained
    <3>1. CASE Obtained
      <4>1. After(Check("owner")) /\ replica' = [at |-> "none", phase |-> "none"]
        BY <1>5, <2>2, <3>1 DEF CloseRunner, ReplicaClosed
      <4> QED BY <2>1, <4>1, CheckKeeps, OutcomeRefused
    <3>2. CASE ~Obtained
      <4>1. UNCHANGED custodyVars
        BY <1>5, <2>1, <2>2, <3>2 DEF CloseRunner, ReplicaClosed, CustodyLeft, custodyVars, vars, judging
      <4> QED BY <4>1, CustodyAsItIs
    <3> QED BY <3>1, <3>2
  <2>3. CASE ~drained
    <3>1. UNCHANGED custodyVars
      BY <1>5, <2>1, <2>3 DEF CloseRunner, CustodyLeft, custodyVars, vars, judging
    <3> QED BY <3>1, CustodyAsItIs
  <2> QED BY <2>2, <2>3
<1> QED BY <1>1, <1>2, <1>3, <1>4, <1>5 DEF RunnerStep

(* Before the first step there is a workspace to be made, and no runner. *)
LEMMA RunnerBegins ==
  ASSUME RunnerInit
  PROVE  CustodyKept /\ RunnerKnows /\ NothingLeftBehind
<1> USE DEF RunnerInit, Init
<1>1. Busy = 0
  BY BusyCounts DEF BusyMeaning, Reading, Pending, Copying
<1>2. engine \in EngineType
  BY DEF EngineType
<1>3. grants \in [Paths -> Operations] /\ Capacity \in Nat \ {0}
  BY CustodyAssumption
<1>4. Baseline \in [Paths -> Contents] /\ NoTree \in [Paths -> Contents]
  BY <1>3 DEF Baseline, NoTree, Contents, Operations
<1>5. queue \in Seq(JobType) /\ Len(queue) = 0
  OBVIOUS
<1>6. AttemptTyped
  <2>1. Len(queue) <= Capacity
    BY <1>3, <1>5
  <2>2. /\ cursor \in [Paths -> Contents] /\ working \in [Paths -> Contents \cup {Torn}]
        /\ sealed \in [Paths -> Contents \cup {Torn}]
    BY <1>4
  <2>3. seal \in [at : {"no", "waiting", "begun", "allocated", "copied", "sealed", "refused"},
                 epoch : Nat, saw : BOOLEAN]
    OBVIOUS
  <2>4. author \in [run : {"working", "completed", "failed"}, disposal : {"pending", "done", "failed"}]
    OBVIOUS
  <2>5. /\ begun \in {"no", "checking", "allocated", "owned", "copied", "published", "failed"}
        /\ closing \in {"no", "waiting", "releasing", "closed", "refused"} /\ lock \in BOOLEAN
    OBVIOUS
  <2> QED BY <1>3, <1>5, <2>1, <2>2, <2>3, <2>4, <2>5 DEF AttemptTyped
<1>7. JudgingTyped
  BY DEF JudgingTyped, Phases
<1>8. TypeOK
  <2> HIDE DEF Busy
  <2> QED BY <1>1, <1>2, <1>3, <1>6, <1>7 DEF TypeOK
<1>9. EpochOnRecord /\ OneAtATime
  BY <1>5 DEF EpochOnRecord, OneAtATime
<1>10. TreeOfTheAuthor
  BY <1>3 DEF TreeOfTheAuthor, Baseline, Missing
<1>11. DeliveryAlone /\ ReleaseIsSound
  BY DEF DeliveryAlone, ReleaseIsSound
<1>12. RunnerKnows /\ NothingLeftBehind
  BY DEF RunnerKnows, NothingLeftBehind, NoReceipt
<1> QED BY <1>8, <1>9, <1>10, <1>11, <1>12 DEF CustodyKept

(* What holds of a workspace with a runner at its side: the inductive invariant. *)
RunnerInv == CustodyKept /\ RunnerKnows /\ NothingLeftBehind

(* Only a run that asked for a copy has one under way; a run that is over, or not yet that
   far, finds none. *)
LEMMA NobodyCopies ==
  ASSUME RunnerKnows, run # "replicating"
  PROVE  ~Copying
<1> QED BY DEF RunnerKnows, Copying

(* A step of the runner keeps what it knows of its child, its copy and its receipt. *)
LEMMA RunnerKeepsCount ==
  ASSUME RunnerInv, RunCommand \/ RunnerStep \/ Timeout \/ StopRunner \/ ChildEnds
  PROVE  RunnerKnows' /\ NothingLeftBehind'
<1> USE DEF RunnerInv
<1>0. ~(NoReceipt.passed) /\ NoReceipt \in [at : {"none", "issued", "consumed", "lost"}, passed : BOOLEAN]
  BY DEF NoReceipt
<1>1. CASE RunCommand
  BY <1>0, <1>1 DEF RunCommand, Over, InScope, custodyVars, vars, judging, RunnerKnows, NothingLeftBehind
<1> USE DEF InScope, process
<1>2. CASE Replicate
  BY <1>2 DEF Replicate, AskReplica, RunnerKnows, NothingLeftBehind
<1>3. CASE ReplicateFails
  <2>1. UNCHANGED replica /\ RunFailed /\ run = "asked"
    BY <1>3 DEF ReplicateFails, custodyVars, vars, judging
  <2> QED BY <2>1 DEF RunFailed, ScopeEnds, RunnerKnows, NothingLeftBehind
<1>4. CASE Spawn
  <2>1. /\ replica' = replica /\ run = "replicating" /\ run' = "running" /\ drained' = FALSE
        /\ receipt' = receipt /\ VerifyOutcome = "ok" /\ child' = "running"
        /\ UNCHANGED <<printed, interrupted, aborted>>
    BY <1>4 DEF Spawn, Authority, custodyVars, vars, judging
  <2>2. replica.at = "ready"
    BY <2>1 DEF VerifyOutcome
  <2> QED BY <1>0, <2>1, <2>2 DEF RunnerKnows, NothingLeftBehind
<1>5. CASE SpawnFails
  <2>1. UNCHANGED replica /\ RunFailed /\ replica.at \in {"ready", "closed", "bad"} /\ run = "replicating"
    BY <1>5 DEF SpawnFails, custodyVars, vars, judging
  <2> QED BY <2>1 DEF RunFailed, ScopeEnds, RunnerKnows, NothingLeftBehind
<1>6. CASE Wait
  <2>1. /\ UNCHANGED <<replica, child, drained, receipt, printed, interrupted, aborted>>
        /\ run = "running" /\ run' = "settling"
    BY <1>6 DEF Wait, custodyVars, vars, judging
  <2> QED BY <2>1 DEF RunnerKnows, NothingLeftBehind
<1>7. CASE Settle
  <2>1. /\ UNCHANGED <<replica, child, interrupted>> /\ run = "settling" /\ Ended(child)
        /\ run' \in {"done", "failed"} /\ aborted' = FALSE /\ (interrupted => aborted)
    BY <1>7 DEF Settle, ScopeEnds, judging, RunnerKnows
  <2>2. \/ receipt' = receipt
        \/ \E output \in Outputs :
             printed' = output /\ receipt' = [at |-> "issued", passed |-> Passes(output)]
    BY <1>7 DEF Settle
  <2>3. /\ receipt' \in [at : {"none", "issued", "consumed", "lost"}, passed : BOOLEAN]
        /\ receipt'.passed => child' = "passed" /\ ~interrupted' /\ Complete(printed')
    <3>1. CASE receipt' = receipt
      BY <1>0, <2>1, <3>1 DEF RunnerKnows
    <3>2. ASSUME NEW output \in Outputs, printed' = output,
                 receipt' = [at |-> "issued", passed |-> Passes(output)]
          PROVE  <2>3!1 /\ <2>3!2
      <4>1. Passes(output) \in BOOLEAN /\ (Passes(output) => child = "passed" /\ ~aborted)
        BY DEF Passes, Passing
      <4>2. Passes(output) => Complete(output)
        BY DEF Passes, Passing, RunnerCapture, CheckPinnedTap, Complete
      <4> QED BY <2>1, <3>2, <4>1, <4>2
    <3> QED BY <2>2, <3>1, <3>2
  <2> QED BY <2>1, <2>3 DEF Ended, RunnerKnows, NothingLeftBehind
<1>8. CASE GraceEnds
  BY <1>8 DEF GraceEnds, RunFailed, ScopeEnds, RunnerKnows, NothingLeftBehind, custodyVars, vars, judging
<1>9. CASE Consume
  <2>1. /\ UNCHANGED <<replica, child, drained, printed, interrupted, aborted>>
        /\ run = "done" /\ run' = "consumed"
        /\ receipt' \in {[receipt EXCEPT !.at = "consumed"], [receipt EXCEPT !.at = "lost"]}
    BY <1>9 DEF Consume, judging
  <2> QED BY <2>1 DEF RunnerKnows, NothingLeftBehind
<1>10. CASE CloseRunner
  <2>1. /\ run \in {"failed", "consumed"} /\ run' \in {"closed", "refused"}
        /\ run' = "closed" => drained /\ ReplicaClosed
        /\ receipt' = NoReceipt /\ UNCHANGED aborted
        /\ replica' \in {replica, [at |-> "none", phase |-> "none"]}
        /\ child' = IF child = "running" THEN child ELSE "none"
        /\ drained' = TRUE
    BY <1>10 DEF CloseRunner, Dropped, ReplicaClosed
  <2>2. replica \in [at : {"none", "asked", "making", "ready", "closed", "bad"},
                     phase : Phases \cup {"none"}]
    BY DEF CustodyKept, TypeOK, JudgingTyped
  <2>3. replica.at \notin {"asked", "making"} /\ replica'.at \notin {"asked", "making"}
    BY <2>1, <2>2 DEF RunnerKnows
  <2>4. run' = "closed" => child' # "running" /\ replica'.at # "ready"
    BY <2>1, <2>2, <2>3 DEF RunnerKnows, ReplicaClosed, Obtained
  <2> QED BY <1>0, <2>1, <2>3, <2>4 DEF RunnerKnows, NothingLeftBehind
<1>11. CASE Timeout \/ StopRunner
  BY <1>0, <1>11 DEF Timeout, StopRunner, Over, RunnerKnows, NothingLeftBehind, custodyVars, vars, judging
<1>12. CASE ChildEnds
  BY <1>12 DEF ChildEnds, RunnerKnows, NothingLeftBehind, custodyVars, vars, judging
<1> QED BY <1>1, <1>2, <1>3, <1>4, <1>5, <1>6, <1>7, <1>8, <1>9, <1>10, <1>11, <1>12 DEF RunnerStep

(* Every step of the two together keeps the invariant. *)
LEMMA RunnerInvKept ==
  ASSUME RunnerInv, [Next]_allVars
  PROVE  RunnerInv'
<1>1. CASE UNCHANGED runnerVars /\ (EngineStep \/ Call \/ World \/ Advance \/ Close)
  <2>1. CustodyKept'
    BY <1>1, WorkspaceKeeps DEF RunnerInv
  <2>2. (Copying' => Copying) /\ (replica'.at = "ready" => replica.at \in {"making", "ready"})
    BY <1>1, WorkspaceCopiesNothing DEF RunnerInv
  <2>3. RunnerKnows'
    BY <1>1, <2>2, RunnerLeftAlone DEF RunnerInv
  <2>4. NothingLeftBehind'
    BY <1>1, <2>2, NobodyCopies DEF RunnerInv, NothingLeftBehind, Copying, runnerVars, process
  <2> QED BY <2>1, <2>3, <2>4 DEF RunnerInv
<1>2. CASE RunCommand \/ RunnerStep \/ Timeout \/ StopRunner \/ ChildEnds
  BY <1>2, RunnerKeepsCustody, RunnerKeepsCount DEF RunnerInv
<1>3. CASE UNCHANGED allVars
  <2>1. UNCHANGED custodyVars /\ UNCHANGED runnerVars /\ UNCHANGED replica
    BY <1>3 DEF allVars, custodyVars, vars, judging
  <2>2. CustodyKept'
    BY <2>1, CustodyAsItIs DEF RunnerInv
  <2> QED BY <2>1, <2>2 DEF RunnerInv, RunnerKnows, NothingLeftBehind, InScope, runnerVars, process
<1> QED BY <1>1, <1>2, <1>3 DEF Next, Own
-----------------------------------------------------------------------------
(* The parts of the run's invariant that follow from the inductive ones: no torn tree is
   taken for work, and a sealed tree is the author's. *)
LEMMA WorkStands ==
  ASSUME CustodyKept
  PROVE  NoTornTree /\ SealHoldsTheWork
<1>1. NoTornTree
  <2> SUFFICES ASSUME begun = "published", working # cursor, ~engine.poisoned
               PROVE  queue # <<>> /\ Job.submitted
    BY DEF NoTornTree
  <2>1. working \in [Paths -> Contents \cup {Torn}] /\ cursor \in [Paths -> Contents]
    BY DEF CustodyKept, TypeOK, AttemptTyped
  <2>2. \E p \in Paths : working[p] # cursor[p]
    BY <2>1
  <2> QED BY <2>2 DEF CustodyKept, OneAtATime
<1>2. SealHoldsTheWork
  BY DEF SealHoldsTheWork, CustodyKept, TreeOfTheAuthor
<1> QED BY <1>1, <1>2

(* The invariant holds in every state of every run, whatever the author, the judges, the
   controller, the child and the rest of the world do. *)
THEOREM RunnerSafe == Spec => []RunnerInv
<1>1. RunnerInit => RunnerInv
  BY RunnerBegins DEF RunnerInv
<1>2. RunnerInv /\ [Next]_allVars => RunnerInv'
  BY RunnerInvKept
<1> QED BY <1>1, <1>2, PTL DEF Spec

(* A candidate is its author's work and nothing else, a delivery has it for itself, the lock
   is given up in order and the runner knows what it started: for every plan, every number
   of files and judges and every bound (workspace.mjs, runner.mjs). *)
THEOREM CustodySafe == Spec => []CustodyInv
<1>1. RunnerInv => CustodyInv
  BY WorkStands DEF RunnerInv, CustodyKept, CustodyInv, CandidateIsTheWork
<1> QED BY <1>1, RunnerSafe, PTL

(* A runner whose close() ends without an error has no child and no replica left
   (runner.mjs, close()). *)
THEOREM RunnerLeavesNothing == Spec => []NothingLeftBehind
<1>1. RunnerInv => NothingLeftBehind
  BY DEF RunnerInv
<1> QED BY <1>1, RunnerSafe, PTL

(* A receipt that is handed out says passed only of a child that ended by itself and did, with
   a complete report and before any deadline or stop, and only while the assignment and the
   sealed files stand (runner.mjs, settle() and consume()). *)
THEOREM PassEarned == Spec => PassIsEarned
<1>1. RunnerInv /\ [Next]_allVars =>
        [(receipt'.at = "consumed" /\ receipt.at # "consumed") =>
           /\ phase = "VALIDATING" /\ Live /\ Intact /\ ~stopped
           /\ receipt.passed => child = "passed" /\ ~interrupted /\ Complete(printed)]_allVars
  <2> SUFFICES ASSUME RunnerInv, Next, receipt'.at = "consumed", receipt.at # "consumed"
               PROVE  /\ phase = "VALIDATING" /\ Live /\ Intact /\ ~stopped
                      /\ receipt.passed => child = "passed" /\ ~interrupted /\ Complete(printed)
    OBVIOUS
  <2>1. receipt.passed => child = "passed" /\ ~interrupted /\ Complete(printed)
    BY DEF RunnerInv, RunnerKnows
  <2>2. Consume
    <3>1. receipt' # receipt
      OBVIOUS
    <3>2. NoReceipt.at = "none"
      BY DEF NoReceipt
    <3>3. ~ (Own \/ ((Call \/ World) /\ UNCHANGED runnerVars)
               \/ (Over /\ (Advance \/ Close) /\ UNCHANGED runnerVars))
      BY <3>1 DEF Own, runnerVars
    <3>4. ~ (RunCommand \/ Timeout \/ StopRunner \/ ChildEnds)
      BY <3>1, <3>2 DEF RunCommand, Timeout, StopRunner, ChildEnds
    <3>5. ~ (Replicate \/ ReplicateFails \/ Spawn \/ SpawnFails \/ Wait \/ GraceEnds)
      BY <3>1 DEF Replicate, ReplicateFails, Spawn, SpawnFails, Wait, GraceEnds, RunFailed
    <3>6. ~ Settle
      BY <3>1 DEF Settle
    <3>7. ~ CloseRunner
      BY <3>2 DEF CloseRunner, Dropped
    <3> QED BY <3>3, <3>4, <3>5, <3>6, <3>7 DEF Next, RunnerStep
  <2>3. Authority(VerifyOutcome) = "ok"
    <3>1. receipt.at = "issued" /\ receipt \in [at : {"none", "issued", "consumed", "lost"}, passed : BOOLEAN]
      BY <2>2 DEF Consume, RunnerInv, RunnerKnows
    <3> QED BY <2>2, <3>1 DEF Consume
  <2>4. ~stopped /\ phase = "VALIDATING" /\ Check("owner") = "ok"
    BY <2>3 DEF Authority, VerifyOutcome
  <2>5. Live /\ Intact
    BY <2>4 DEF Check
  <2> QED BY <2>1, <2>4, <2>5
<1> QED BY <1>1, RunnerSafe, PTL DEF Spec, PassIsEarned
-----------------------------------------------------------------------------
(* The three promises of a workspace that is at its end, as what one step may do. *)
EndStands ==
  (engine.revoked \/ engine.poisoned) =>
    /\ UNCHANGED <<working, sealed, holds, delivery>>
    /\ lock' => lock
    /\ \A r \in Readers : reads'[r] = "answered" => reads[r] = "answered"
    /\ replica'.at \in {"making", "ready"} => replica.at = replica'.at
TreeStands == seal.at # "no" => working' = working
LockStands ==
  lock /\ ~lock' => /\ ~engine.poisoned /\ AuthorCompleted /\ Quiet
                    /\ Owned
                    /\ begun = "published" => working = cursor
Stand == EndStands /\ TreeStands /\ LockStands

(* A step that touches neither a tree nor the lock, a hold nor a delivery, and at its end
   answers no read and makes no copy, keeps the three promises. *)
LEMMA NothingMoves ==
  ASSUME UNCHANGED <<working, lock>>,
         (engine.revoked \/ engine.poisoned) =>
            /\ UNCHANGED <<sealed, holds, delivery>>
            /\ \A r \in Readers : reads'[r] = "answered" => reads[r] = "answered"
            /\ replica'.at \in {"making", "ready"} => replica.at = replica'.at
  PROVE  Stand
<1> QED BY DEF Stand, EndStands, TreeStands, LockStands

(* So does every step of begin(), of a request, of a seal and of a close. *)
LEMMA AttemptStands ==
  ASSUME CustodyKept,
         \/ Begin \/ BeginAllocates \/ BeginLocks \/ BeginCopies \/ BeginPublishes \/ BeginFails
         \/ JobReads \/ JobRefused \/ JobStarts \/ JobCommits \/ JobAcknowledges \/ JobFails
         \/ (\E r \in Requests : Sensible(r) /\ Enqueue(r))
         \/ Seal \/ SealBegins \/ SealAllocates \/ SealCopies \/ SealAcknowledges \/ SealFails
         \/ Close \/ CloseSettles \/ CloseReleases
  PROVE  Stand
<1> USE DEF work, tree, judging
<1>1. CASE Begin \/ BeginAllocates \/ BeginPublishes \/ BeginFails \/ JobReads \/ JobRefused
           \/ JobAcknowledges \/ JobFails \/ (\E r \in Requests : Sensible(r) /\ Enqueue(r))
  <2>1. UNCHANGED <<working, lock, sealed, judging>>
    BY <1>1 DEF Begin, BeginAllocates, BeginPublishes, BeginFails, JobReads, JobRefused,
                JobAcknowledges, JobFails, Enqueue
  <2> QED BY <2>1, NothingMoves
<1>2. CASE Seal \/ SealBegins \/ SealAllocates \/ SealAcknowledges \/ SealFails
  <2>1. UNCHANGED <<working, lock, sealed, judging>>
    BY <1>2 DEF Seal, SealBegins, SealAllocates, SealAcknowledges, SealFails
  <2> QED BY <2>1, NothingMoves
<1>3. CASE SealCopies
  <2>1. UNCHANGED <<working, lock, judging>> /\ Live
    BY <1>3 DEF SealCopies, MaySeal
  <2> QED BY <2>1, NothingMoves DEF Live
<1>4. CASE BeginLocks \/ BeginCopies \/ JobStarts \/ JobCommits
  <2>1. MayWrite /\ (lock' = TRUE \/ lock' = lock)
    <3>1. CASE BeginLocks \/ BeginCopies
      BY <3>1 DEF BeginLocks, BeginCopies
    <3>2. CASE JobStarts \/ JobCommits
      BY <3>2 DEF JobStarts, JobCommits
    <3> QED BY <1>4, <3>1, <3>2
  <2>2. Live /\ seal.at = "no"
    BY <2>1, Writing DEF MayWrite
  <2> QED BY <2>1, <2>2 DEF Stand, EndStands, TreeStands, LockStands, Live
<1>5. CASE Close \/ CloseSettles
  <2>1. /\ UNCHANGED <<working, lock, sealed, holds, delivery, reads>>
        /\ replica' \in {replica, [replica EXCEPT !.at = "closed"]}
    BY <1>5 DEF Close, CloseSettles, ReplicaRevoked
  <2>2. replica \in [at : {"none", "asked", "making", "ready", "closed", "bad"},
                     phase : Phases \cup {"none"}]
    BY DEF CustodyKept, TypeOK, JudgingTyped
  <2>3. replica'.at \in {"making", "ready"} => replica.at = replica'.at
    BY <2>1, <2>2
  <2> QED BY <2>1, <2>3, NothingMoves
<1>6. CASE CloseReleases
  <2>1. /\ UNCHANGED <<working, sealed, judging>> /\ closing = "releasing" /\ (lock' => lock)
        /\ lock /\ ~lock' => Owned
    BY <1>6 DEF CloseReleases
  <2>2. ~engine.poisoned /\ AuthorCompleted /\ Quiet
    BY <2>1 DEF CustodyKept, ReleaseIsSound
  <2>3. begun = "published" => working = cursor
    BY <2>2, WorkStands DEF NoTornTree, Quiet
  <2> QED BY <2>1, <2>2, <2>3 DEF Stand, EndStands, TreeStands, LockStands
<1> QED BY <1>1, <1>2, <1>3, <1>4, <1>5, <1>6

(* And every step of a judge, of a copy, of the controller and of the rest of the world. *)
LEMMA JudgesStand ==
  ASSUME CustodyKept,
         \/ Transfer \/ TransferSettles \/ Verify \/ Revoke \/ PrepareDelivery
         \/ (\E r \in Readers : View(r) \/ Lease(r) \/ AskRead(r) \/ StartRead(r) \/ AnswerRead(r))
         \/ StartReplica \/ MakeReplica \/ AskReplica
         \/ World \/ Advance
  PROVE  Stand
<1> USE DEF work, tree, judging, world
<1>1. /\ reads \in [Readers -> {"none", "asked", "reading", "answered", "refused"}]
      /\ replica \in [at : {"none", "asked", "making", "ready", "closed", "bad"},
                      phase : Phases \cup {"none"}]
  BY DEF CustodyKept, TypeOK, JudgingTyped
<1>2. (engine.revoked \/ engine.poisoned) => ~Live
  BY DEF Live
<1>3. CASE Transfer \/ TransferSettles \/ Verify \/ World \/ Advance
  <2>1. UNCHANGED <<working, lock, sealed, judging>>
    BY <1>3 DEF Transfer, TransferSettles, Verify, World, AuthorEnds, Leave, Tamper, Advance
  <2> QED BY <2>1, NothingMoves
<1>4. CASE PrepareDelivery
  <2>1. UNCHANGED <<working, lock, sealed, holds, reads, replica>> /\ Check("delivery") # "refused"
    BY <1>4 DEF PrepareDelivery
  <2> QED BY <1>2, <2>1, CheckRefuses, NothingMoves
<1>5. CASE Revoke
  <2>1. /\ UNCHANGED <<working, lock, sealed, holds, reads, delivery>>
        /\ replica' \in {replica, [replica EXCEPT !.at = "closed"]}
    BY <1>5 DEF Revoke, ReplicaRevoked
  <2> QED BY <1>1, <2>1, NothingMoves
<1>6. ASSUME NEW r \in Readers, View(r) \/ Lease(r) \/ AskRead(r)
      PROVE  Stand
  <2>1. UNCHANGED <<working, lock, sealed, delivery, replica>>
    BY <1>6 DEF View, Lease, AskRead
  <2>2. Live
    BY <1>6, CheckRefuses DEF View, Lease, AskRead
  <2> QED BY <1>2, <2>1, <2>2, NothingMoves
<1>7. ASSUME NEW r \in Readers, StartRead(r) \/ AnswerRead(r)
      PROVE  Stand
  <2>1. /\ UNCHANGED <<working, lock, sealed, delivery, replica, holds>>
        /\ \E next \in {"reading", "answered"} :
             reads' = [reads EXCEPT ![r] = IF CheckRead(r) = "ok" THEN next ELSE "refused"]
    BY <1>7 DEF StartRead, AnswerRead, Settled
  <2>2. ~Live => CheckRead(r) = "refused"
    BY CheckRefuses DEF CheckRead
  <2>3. ~Live => \A q \in Readers : reads'[q] = "answered" => reads[q] = "answered"
    BY <1>1, <2>1, <2>2
  <2> QED BY <1>2, <2>1, <2>3, NothingMoves
<1>8. CASE StartReplica \/ MakeReplica
  <2>1. /\ UNCHANGED <<working, lock, sealed, delivery, reads, holds>>
        /\ CheckReplica = "refused" => replica'.at = "bad"
    BY <1>1, <1>8 DEF StartReplica, MakeReplica, ReplicaGoesOn
  <2> QED BY <1>2, <2>1, CheckRefuses, NothingMoves
<1>9. CASE AskReplica
  BY <1>9, <1>2, NothingMoves DEF AskReplica
<1> QED BY <1>3, <1>4, <1>5, <1>6, <1>7, <1>8, <1>9

(* Every step of the two together keeps the three promises. *)
LEMMA AllStand ==
  ASSUME RunnerInv, [Next]_allVars
  PROVE  Stand
<1> USE DEF RunnerInv
<1>1. CASE EngineStep \/ Call \/ World \/ Advance \/ Close \/ Replicate
  BY <1>1, AttemptStands, JudgesStand DEF EngineStep, Call, Replicate
<1>2. CASE RunCommand \/ Spawn \/ GraceEnds \/ Timeout \/ StopRunner \/ ChildEnds \/ UNCHANGED allVars
  <2>1. UNCHANGED <<working, lock, sealed, judging>>
    BY <1>2 DEF RunCommand, Spawn, GraceEnds, Timeout, StopRunner, ChildEnds, allVars,
                custodyVars, vars, work, tree
  <2> QED BY <2>1, NothingMoves DEF judging
<1>3. CASE ReplicateFails \/ SpawnFails \/ Wait \/ Settle \/ Consume
  <2>1. UNCHANGED <<working, lock, sealed, judging>>
    BY <1>3 DEF ReplicateFails, SpawnFails, Wait, Settle, Consume, custodyVars, vars, work, tree
  <2> QED BY <2>1, NothingMoves DEF judging
<1>4. CASE CloseRunner
  <2>1. /\ UNCHANGED <<working, lock, sealed, holds, reads, delivery>>
        /\ replica' \in {replica, [at |-> "none", phase |-> "none"]}
    BY <1>4 DEF CloseRunner, Dropped, ReplicaClosed, work, tree
  <2>2. replica \in [at : {"none", "asked", "making", "ready", "closed", "bad"},
                     phase : Phases \cup {"none"}]
    BY DEF CustodyKept, TypeOK, JudgingTyped
  <2> QED BY <2>1, <2>2, NothingMoves
<1> QED BY <1>1, <1>2, <1>3, <1>4 DEF Next, Own, RunnerStep

(* After a revocation or a poison nothing is written, sealed, answered or delivered; a tree
   whose seal was called for stands still; and only a sound workspace gives its lock up
   (workspace.mjs, guard(), seal() and close()). *)
THEOREM EndSound == Spec => EndIsSound
<1>1. RunnerInv /\ [Next]_allVars => Stand
  BY AllStand
<1>2. Spec => /\ [][EndStands]_vars /\ [][TreeStands]_vars /\ [][LockStands]_vars
  <2>1. RunnerInv /\ [Next]_allVars => [EndStands]_vars /\ [TreeStands]_vars /\ [LockStands]_vars
    BY <1>1 DEF Stand
  <2> QED BY <2>1, RunnerSafe, PTL DEF Spec
<1> QED BY <1>2 DEF EndIsSound, NothingAfterTheEnd, SealedTreeStill, LockGivenUpSound,
                   EndStands, TreeStands, LockStands
=============================================================================
