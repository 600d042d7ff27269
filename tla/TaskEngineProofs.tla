------------------------- MODULE TaskEngineProofs -------------------------
(***************************************************************************)
(* The safety properties of TaskEngine.  That a stopped engine is quiet is *)
(* proved for any number of engines, the rest for one engine at a time,    *)
(* with any tasks, rounds, revisions, plans, faults and crashes.           *)
(***************************************************************************)
EXTENDS TaskEngine, FiniteSetTheorems, SequenceTheorems, TLAPS

(* No engine works while another still does. *)
Alone == \A d, e \in Engines : d = e
-----------------------------------------------------------------------------
(* What is no record. *)
LEMMA NoRecords == NoRecord \notin Records /\ Corrupt \notin Records /\ Missing \notin Records
                   /\ Torn \notin Records /\ Missing # Torn /\ NoRecord # Corrupt
<1>1. \A r \in Records : r.status \in Statuses
  BY DEF Records
<1>2. /\ NoRecord.status = "none" /\ Corrupt.status = "corrupt"
      /\ Missing.status = "missing" /\ Torn.status = "torn"
  BY DEF NoRecord, Corrupt, Missing, Torn
<1> QED BY <1>1, <1>2 DEF Statuses

(* The revisions of a record stay below the highest one that the journal takes. *)
LEMMA ReachesFits ==
  ASSUME NEW r \in Records
  PROVE  Reaches(r) \in Int /\ Reaches(r) <= MaxRevisions
<1>1. r.rounds \in 0 .. MaxRounds /\ MaxRounds \in Nat \ {0} /\ MaxCheckpoints \in Nat /\ MaxRevisions \in Nat
  BY JournalAssumption, EngineAssumption DEF Records
<1>2. MaxCheckpoints * MaxRounds >= MaxCheckpoints
  <2> DEFINE b == MaxCheckpoints
             a == MaxRounds
  <2>1. \A x \in Nat, y \in Nat \ {0} : x * y >= x
    BY SMT
  <2> QED BY <2>1, <1>1
<1>3. (3 + MaxCheckpoints) * MaxRounds = 3 * MaxRounds + MaxCheckpoints * MaxRounds
  BY <1>1
<1>4. MaxCheckpoints * MaxRounds \in Nat /\ MaxRevisions >= 2 + 3 * MaxRounds + MaxCheckpoints
  BY <1>1, <1>2, <1>3, EngineAssumption
<1> QED BY <1>1, <1>4 DEF Reaches

(* The files of a task are numbered; a chain of them has its last revision for a count. *)
LEMMA NamesFacts ==
  ASSUME TypeOK, NEW t \in Tasks
  PROVE  /\ Names(t) \subseteq 1 .. MaxRevisions /\ IsFiniteSet(Names(t)) /\ Revision(t) \in 0 .. MaxRevisions
         /\ \A k \in Nat : Names(t) = 1 .. k => Revision(t) = k
         /\ Names(t) = {} <=> Revision(t) = 0
<1>1. Names(t) \subseteq 1 .. MaxRevisions /\ MaxRevisions \in Nat
  BY JournalAssumption DEF Names
<1>2. IsFiniteSet(1 .. MaxRevisions) /\ Cardinality(1 .. MaxRevisions) = MaxRevisions
  BY <1>1, FS_Interval
<1>3. IsFiniteSet(Names(t)) /\ Cardinality(Names(t)) <= MaxRevisions
  BY <1>1, <1>2, FS_Subset
<1>4. Revision(t) \in Nat /\ (Names(t) = {} <=> Revision(t) = 0)
  BY <1>3, FS_CardinalityType, FS_EmptySet DEF Revision
<1>5. ASSUME NEW k \in Nat, Names(t) = 1 .. k PROVE Revision(t) = k
  <2>1. Cardinality(1 .. k) = IF 1 > k THEN 0 ELSE k - 1 + 1
    BY FS_Interval
  <2> QED BY <1>5, <2>1 DEF Revision
<1> QED BY <1>1, <1>3, <1>4, <1>5 DEF Revision

(* What latest() answers. *)
LEMMA LatestFacts ==
  ASSUME TypeOK, NEW t \in Tasks
  PROVE  /\ Saved(t) => /\ t \in dirs /\ Revision(t) >= 1 /\ Names(t) = 1 .. Revision(t)
                        /\ Whole(t, Revision(t)) /\ Latest(t) = files[t][Revision(t)]
         /\ Names(t) = {} => Latest(t) = NoRecord /\ ~Saved(t)
         /\ \A k \in Nat \ {0} : t \in dirs /\ Names(t) = 1 .. k /\ Whole(t, k) =>
              Saved(t) /\ Latest(t) = files[t][k] /\ Revision(t) = k
<1> USE NoRecords
<1>1. Revision(t) \in Nat /\ (Names(t) = {} <=> Revision(t) = 0)
  BY NamesFacts
<1>2. Names(t) = {} => Latest(t) = NoRecord
  BY DEF Latest
<1>3. ASSUME Saved(t)
      PROVE  /\ t \in dirs /\ Revision(t) >= 1 /\ Names(t) = 1 .. Revision(t)
             /\ Whole(t, Revision(t)) /\ Latest(t) = files[t][Revision(t)]
  <2>1. t \in dirs /\ Names(t) # {} /\ Chained(t) /\ Latest(t) = files[t][Revision(t)]
    BY <1>3 DEF Saved, Latest
  <2>2. Names(t) = 1 .. Revision(t)
    BY <2>1 DEF Chained
  <2>3. Whole(t, Revision(t))
    BY <2>1, <2>2, <1>1 DEF Chained, Whole
  <2> QED BY <2>1, <2>2, <2>3, <1>1
<1>4. ASSUME NEW k \in Nat \ {0}, t \in dirs, Names(t) = 1 .. k, Whole(t, k)
      PROVE  Saved(t) /\ Latest(t) = files[t][k] /\ Revision(t) = k
  <2>1. Revision(t) = k
    BY <1>4, NamesFacts
  <2>2. Chained(t)
    BY <1>4, <2>1 DEF Chained, Whole
  <2>3. Names(t) # {} /\ k \in 1 .. k
    BY <1>1, <2>1
  <2>4. Latest(t) = files[t][k]
    BY <1>4, <2>1, <2>2, <2>3 DEF Latest
  <2> QED BY <1>4, <2>1, <2>3, <2>4 DEF Saved, Whole
<1> QED BY <1>2, <1>3, <1>4 DEF Saved
-----------------------------------------------------------------------------
(* A record in memory that was changed to be saved: it is one, it follows the one before, and
   its revision stays in reach. *)
Moves(m, n) ==
  /\ n \in MemoryType /\ n.record \in Records /\ Normal(n.record)
  /\ n.revision = m.revision /\ n.failed = m.failed /\ n.record.id = m.record.id
  /\ n.record.rounds >= m.record.rounds
  /\ Follows(m.record, n.record) /\ n.revision + 1 <= Reaches(n.record)

InMemory(m) ==
  /\ m \in MemoryType /\ m.record \in Records /\ Normal(m.record)
  /\ m.revision >= 1 /\ m.revision <= Reaches(m.record)

(* The head of the loop commits a further round of a safe record. *)
LEMMA CommitMoves ==
  ASSUME NEW m, InMemory(m), m.record.status \in Safe, m.record.rounds < MaxRounds
  PROVE  /\ Moves(m, Committed(m)) /\ Committed(m).record.status = "ATTEMPT_COMMITTED"
         /\ Committed(m).record.rounds = m.record.rounds + 1
<1>1. m.record.rounds \in 0 .. MaxRounds /\ MaxRounds \in Nat
  BY JournalAssumption DEF InMemory, Records
<1>r. PICK r : r = [m.record EXCEPT !.status = "ATTEMPT_COMMITTED", !.rounds = m.record.rounds + 1, !.last = "ATTEMPT_COMMITTED"]
  OBVIOUS
<1>2. PICK n : n = [m EXCEPT !.record = r]
  OBVIOUS
<1>3. Committed(m) = n
  BY <1>r, <1>2 DEF Committed, InMemory, MemoryType, Records
<1>4. /\ n \in MemoryType /\ n.record \in Records /\ n.revision = m.revision /\ n.failed = m.failed
      /\ n.record.id = m.record.id /\ n.record.status = "ATTEMPT_COMMITTED"
      /\ n.record.rounds = m.record.rounds + 1 /\ n.record.last = "ATTEMPT_COMMITTED"
  <2>1. "ATTEMPT_COMMITTED" \in Statuses /\ "ATTEMPT_COMMITTED" \in RoundStatuses \cup {"none"}
        /\ m.record.rounds + 1 \in 0 .. MaxRounds
    BY <1>1 DEF InMemory, Records, Statuses, RoundStatuses
  <2>2. /\ r \in Records /\ r.id = m.record.id /\ r.status = "ATTEMPT_COMMITTED"
        /\ r.rounds = m.record.rounds + 1 /\ r.last = "ATTEMPT_COMMITTED"
    BY <2>1, <1>r DEF InMemory, Records
  <2> QED BY <2>2, <1>2 DEF InMemory, MemoryType
<1>5. m.record.last \in {"none", "COMPLETED"}
  BY <1>1 DEF InMemory, Normal, Safe, InFlight
<1>6. Normal(n.record) /\ Follows(m.record, n.record)
  BY <1>1, <1>4, <1>5 DEF InMemory, Follows, Successors, RoundSuccessors, Safe, InFlight, Normal
<1>7. n.revision + 1 <= Reaches(n.record)
  BY <1>1, <1>4, EngineAssumption DEF InMemory, Safe, InFlight, Reaches, MemoryType
<1>8. Moves(m, n)
  BY <1>1, <1>4, <1>6, <1>7 DEF Moves
<1> QED BY <1>3, <1>4, <1>8

(* The head of the loop ends a safe record. *)
LEMMA LimitMoves ==
  ASSUME NEW m, InMemory(m), m.record.status \in Safe
  PROVE  Moves(m, [m EXCEPT !.record.status = "PARTIAL_LIMIT"])
<1>1. m.record.rounds \in 0 .. MaxRounds /\ MaxRounds \in Nat
  BY JournalAssumption DEF InMemory, Records
<1>r. PICK r : r = [m.record EXCEPT !.status = "PARTIAL_LIMIT", !.rounds = m.record.rounds, !.last = m.record.last]
  OBVIOUS
<1>2. PICK n : n = [m EXCEPT !.record = r]
  OBVIOUS
<1>3. [m EXCEPT !.record.status = "PARTIAL_LIMIT"] = n
  BY <1>r, <1>2 DEF InMemory, MemoryType, Records
<1>4. /\ n \in MemoryType /\ n.record \in Records /\ n.revision = m.revision /\ n.failed = m.failed
      /\ n.record.id = m.record.id /\ n.record.status = "PARTIAL_LIMIT"
      /\ n.record.rounds = m.record.rounds /\ n.record.last = m.record.last
  <2>1. "PARTIAL_LIMIT" \in Statuses /\ m.record.last \in RoundStatuses \cup {"none"}
        /\ m.record.rounds \in 0 .. MaxRounds
    BY <1>1 DEF InMemory, Records, Statuses, RoundStatuses
  <2>2. /\ r \in Records /\ r.id = m.record.id /\ r.status = "PARTIAL_LIMIT" /\ r.rounds = m.record.rounds
        /\ r.last = m.record.last
    BY <2>1, <1>r DEF InMemory, Records
  <2> QED BY <2>2, <1>2 DEF InMemory, MemoryType
<1>5. m.record.last \in {"none", "COMPLETED"}
  BY <1>1 DEF InMemory, Normal, Safe, InFlight
<1>6. Normal(n.record) /\ Follows(m.record, n.record)
  BY <1>1, <1>4, <1>5 DEF InMemory, Follows, Successors, RoundSuccessors, Safe, InFlight, Normal
<1>7. n.revision + 1 <= Reaches(n.record)
  BY <1>1, <1>4, EngineAssumption DEF InMemory, Safe, InFlight, Reaches, MemoryType
<1>8. Moves(m, n)
  BY <1>1, <1>4, <1>6, <1>7 DEF Moves
<1> QED BY <1>3, <1>4, <1>8

(* A round under way becomes uncertain. *)
LEMMA UncertainMoves ==
  ASSUME NEW m, InMemory(m), m.record.status \in InFlight
  PROVE  /\ Moves(m, Uncertain(m)) /\ Uncertain(m).record.status = "INTERRUPTED_UNCERTAIN"
         /\ Uncertain(m).record.rounds = m.record.rounds
<1>1. m.record.rounds \in 0 .. MaxRounds /\ MaxRounds \in Nat
  BY JournalAssumption DEF InMemory, Records
<1>r. PICK r : r = [m.record EXCEPT !.status = "INTERRUPTED_UNCERTAIN", !.rounds = m.record.rounds, !.last = "INTERRUPTED_UNCERTAIN"]
  OBVIOUS
<1>2. PICK n : n = [m EXCEPT !.record = r]
  OBVIOUS
<1>3. Uncertain(m) = n
  BY <1>r, <1>2 DEF Uncertain, InMemory, MemoryType, Records
<1>4. /\ n \in MemoryType /\ n.record \in Records /\ n.revision = m.revision /\ n.failed = m.failed
      /\ n.record.id = m.record.id /\ n.record.status = "INTERRUPTED_UNCERTAIN"
      /\ n.record.rounds = m.record.rounds /\ n.record.last = "INTERRUPTED_UNCERTAIN"
  <2>1. "INTERRUPTED_UNCERTAIN" \in Statuses /\ "INTERRUPTED_UNCERTAIN" \in RoundStatuses \cup {"none"}
        /\ m.record.rounds \in 0 .. MaxRounds
    BY <1>1 DEF InMemory, Records, Statuses, RoundStatuses
  <2>2. /\ r \in Records /\ r.id = m.record.id /\ r.status = "INTERRUPTED_UNCERTAIN"
        /\ r.rounds = m.record.rounds /\ r.last = "INTERRUPTED_UNCERTAIN"
    BY <2>1, <1>r DEF InMemory, Records
  <2> QED BY <2>2, <1>2 DEF InMemory, MemoryType
<1>5. m.record.last = m.record.status /\ m.record.rounds # 0
  BY <1>1 DEF InMemory, Normal, Safe, InFlight
<1>6. Normal(n.record) /\ Follows(m.record, n.record)
  BY <1>1, <1>4, <1>5 DEF InMemory, Follows, Successors, RoundSuccessors, Safe, InFlight, Normal
<1>7. n.revision + 1 <= Reaches(n.record)
  BY <1>1, <1>4, EngineAssumption DEF InMemory, Safe, InFlight, Reaches, MemoryType
<1>8. Moves(m, n)
  BY <1>1, <1>4, <1>6, <1>7 DEF Moves
<1> QED BY <1>3, <1>4, <1>8

(* The attempt that was committed is under way. *)
LEMMA RunningMoves ==
  ASSUME NEW m, InMemory(m), m.record.status = "ATTEMPT_COMMITTED"
  PROVE  LET new == [m EXCEPT !.record.status = "RUNNING", !.record.last = "RUNNING"] IN
           Moves(m, new) /\ new.record.status = "RUNNING" /\ new.record.rounds = m.record.rounds
<1>1. m.record.rounds \in 0 .. MaxRounds /\ MaxRounds \in Nat
  BY JournalAssumption DEF InMemory, Records
<1>r. PICK r : r = [m.record EXCEPT !.status = "RUNNING", !.rounds = m.record.rounds, !.last = "RUNNING"]
  OBVIOUS
<1>2. PICK n : n = [m EXCEPT !.record = r]
  OBVIOUS
<1>3. [m EXCEPT !.record.status = "RUNNING", !.record.last = "RUNNING"] = n
  BY <1>r, <1>2 DEF InMemory, MemoryType, Records
<1>4. /\ n \in MemoryType /\ n.record \in Records /\ n.revision = m.revision /\ n.failed = m.failed
      /\ n.record.id = m.record.id /\ n.record.status = "RUNNING"
      /\ n.record.rounds = m.record.rounds /\ n.record.last = "RUNNING"
  <2>1. "RUNNING" \in Statuses /\ "RUNNING" \in RoundStatuses \cup {"none"} /\ m.record.rounds \in 0 .. MaxRounds
    BY <1>1 DEF InMemory, Records, Statuses, RoundStatuses
  <2>2. /\ r \in Records /\ r.id = m.record.id /\ r.status = "RUNNING" /\ r.rounds = m.record.rounds
        /\ r.last = "RUNNING"
    BY <2>1, <1>r DEF InMemory, Records
  <2> QED BY <2>2, <1>2 DEF InMemory, MemoryType
<1>5. m.record.last = m.record.status /\ m.record.rounds # 0
  BY <1>1 DEF InMemory, Normal, Safe, InFlight
<1>6. Normal(n.record) /\ Follows(m.record, n.record)
  BY <1>1, <1>4, <1>5 DEF InMemory, Follows, Successors, RoundSuccessors, Safe, InFlight, Normal
<1>7. n.revision + 1 <= Reaches(n.record)
  BY <1>1, <1>4, EngineAssumption DEF InMemory, Safe, InFlight, Reaches, MemoryType
<1>8. Moves(m, n)
  BY <1>1, <1>4, <1>6, <1>7 DEF Moves
<1> QED BY <1>3, <1>4, <1>8

(* A checkpoint saves the running round once more. *)
LEMMA CheckpointMoves ==
  ASSUME NEW m, InMemory(m), m.record.status = "RUNNING",
         m.revision < 3 * m.record.rounds + MaxCheckpoints
  PROVE  Moves(m, m)
<1>1. m.record.rounds \in 0 .. MaxRounds /\ MaxRounds \in Nat /\ m.revision \in Nat
  BY JournalAssumption DEF InMemory, Records, MemoryType
<1>2. m.record.last = "RUNNING"
  BY DEF InMemory, Normal
<1>3. Follows(m.record, m.record)
  BY <1>2 DEF Follows, Successors, RoundSuccessors
<1>4. m.revision + 1 <= Reaches(m.record)
  BY <1>1, EngineAssumption DEF Reaches
<1> QED BY <1>1, <1>3, <1>4 DEF Moves, InMemory

(* A round settles. *)
LEMMA SettleMoves ==
  ASSUME NEW m, InMemory(m), m.record.status = "RUNNING",
         NEW finish \in {"repeated", "stop", "max-tokens"}
  PROVE  LET new == [m EXCEPT !.record.last = "COMPLETED",
                              !.record.status = SettledStatus(m.record, finish)] IN
           Moves(m, new) /\ new.record.rounds = m.record.rounds
<1>1. m.record.rounds \in 0 .. MaxRounds /\ MaxRounds \in Nat
  BY JournalAssumption DEF InMemory, Records
<1>s. PICK s : /\ s = SettledStatus(m.record, finish)
               /\ s \in {"NO_PROGRESS", "COMPLETED", "PARTIAL_LIMIT", "CONTINUATION_READY"}
               /\ s = "CONTINUATION_READY" => m.record.rounds < MaxRounds
  BY <1>1 DEF SettledStatus
<1>r. PICK r : r = [m.record EXCEPT !.status = s, !.rounds = m.record.rounds, !.last = "COMPLETED"]
  OBVIOUS
<1>2. PICK n : n = [m EXCEPT !.record = r]
  OBVIOUS
<1>3. [m EXCEPT !.record.last = "COMPLETED", !.record.status = s] = n
  BY <1>r, <1>2 DEF InMemory, MemoryType, Records
<1>4. /\ n \in MemoryType /\ n.record \in Records /\ n.revision = m.revision /\ n.failed = m.failed
      /\ n.record.id = m.record.id /\ n.record.status = s
      /\ n.record.rounds = m.record.rounds /\ n.record.last = "COMPLETED"
  <2>1. s \in Statuses /\ "COMPLETED" \in RoundStatuses \cup {"none"} /\ m.record.rounds \in 0 .. MaxRounds
    BY <1>1, <1>s DEF InMemory, Records, Statuses, RoundStatuses
  <2>2. /\ r \in Records /\ r.id = m.record.id /\ r.status = s /\ r.rounds = m.record.rounds /\ r.last = "COMPLETED"
    BY <2>1, <1>r DEF InMemory, Records
  <2> QED BY <2>2, <1>2 DEF InMemory, MemoryType
<1>5. m.record.last = m.record.status /\ m.record.rounds # 0
  BY <1>1 DEF InMemory, Normal, Safe, InFlight
<1>6. Normal(n.record) /\ Follows(m.record, n.record)
  BY <1>1, <1>4, <1>5, <1>s DEF InMemory, Follows, Successors, RoundSuccessors, Safe, InFlight, Normal
<1>7. n.revision + 1 <= Reaches(n.record)
  BY <1>1, <1>4, <1>s, EngineAssumption DEF InMemory, Safe, InFlight, Reaches, MemoryType
<1>8. Moves(m, n)
  BY <1>1, <1>4, <1>6, <1>7 DEF Moves
<1> QED BY <1>3, <1>4, <1>8, <1>s
-----------------------------------------------------------------------------
(* The order of a task's queue. *)
Orderly(q) ==
  /\ \A i, j \in DOMAIN q : q[i].by = q[j].by => i = j
  /\ \A i, j \in DOMAIN q : q[i].by = "forget" /\ q[j].by = "main" => i < j
Has1(q, who) == \E i \in DOMAIN q : q[i].by = who
MainIs(q, job) == \A i \in DOMAIN q : q[i].by = "main" => q[i] = job

(* Who asks for one more thing, and nothing yet, keeps the order. *)
LEMMA AppendFacts ==
  ASSUME NEW q \in Seq(JobType), NEW job \in JobType, Orderly(q), ~Has1(q, job.by),
         job.by = "forget" => ~Has1(q, "main")
  PROVE  /\ Append(q, job) \in Seq(JobType) /\ Append(q, job) # <<>> /\ Orderly(Append(q, job))
         /\ \A who : Has1(Append(q, job), who) <=> Has1(q, who) \/ who = job.by
         /\ \A main : MainIs(q, main) /\ (job.by = "main" => job = main) => MainIs(Append(q, job), main)
         /\ q # <<>> => Head(Append(q, job)) = Head(q)
<1> DEFINE a == Append(q, job)
<1>1. /\ a \in Seq(JobType) /\ a # <<>> /\ Len(a) = Len(q) + 1 /\ Len(q) \in Nat
      /\ \A i \in 1 .. Len(q) : a[i] = q[i]
      /\ a[Len(q) + 1] = job
  BY AppendProperties, LenProperties
<1>2. DOMAIN a = 1 .. Len(q) + 1 /\ DOMAIN q = 1 .. Len(q)
  BY <1>1, LenProperties
<1>3. \A i \in DOMAIN a : (i \in DOMAIN q /\ a[i] = q[i]) \/ (i = Len(q) + 1 /\ a[i] = job)
  BY <1>1, <1>2
<1>4. Orderly(a)
  BY <1>1, <1>2, <1>3 DEF Orderly, Has1
<1>5. ASSUME NEW who PROVE Has1(a, who) <=> Has1(q, who) \/ who = job.by
  BY <1>1, <1>2, <1>3 DEF Has1
<1>6. ASSUME NEW main, MainIs(q, main), job.by = "main" => job = main PROVE MainIs(a, main)
  BY <1>3, <1>6 DEF MainIs
<1>7. q # <<>> => Head(a) = Head(q)
  <2> HAVE q # <<>>
  <2>1. Len(q) >= 1 /\ Head(q) = q[1]
    BY <1>1, EmptySeq, HeadTailProperties
  <2>2. Head(a) = a[1]
    BY <1>1, HeadTailProperties
  <2> QED BY <1>1, <2>1, <2>2
<1> QED BY <1>1, <1>4, <1>5, <1>6, <1>7

(* The oldest thing that was asked for settles. *)
LEMMA TailFacts ==
  ASSUME NEW q \in Seq(JobType), q # <<>>, Orderly(q)
  PROVE  /\ Tail(q) \in Seq(JobType) /\ Orderly(Tail(q)) /\ Head(q) \in JobType
         /\ \A who : Has1(Tail(q), who) <=> Has1(q, who) /\ who # Head(q).by
         /\ Has1(q, Head(q).by)
         /\ \A main : MainIs(q, main) => MainIs(Tail(q), main) /\ (Head(q).by = "main" => Head(q) = main)
         /\ Head(q).by = "main" => ~Has1(q, "forget")
<1> DEFINE a == Tail(q)
<1>1. /\ a \in Seq(JobType) /\ Len(a) = Len(q) - 1 /\ Len(q) \in Nat /\ Len(q) >= 1 /\ Head(q) = q[1]
      /\ \A i \in 1 .. Len(a) : a[i] = q[i + 1]
  BY HeadTailProperties, LenProperties, EmptySeq
<1>2. DOMAIN a = 1 .. Len(q) - 1 /\ DOMAIN q = 1 .. Len(q) /\ 1 \in DOMAIN q
  BY <1>1, LenProperties
<1>3. \A i \in DOMAIN a : i + 1 \in DOMAIN q /\ a[i] = q[i + 1] /\ i \in Nat
  BY <1>1, <1>2
<1>4. \A i \in DOMAIN q : i = 1 \/ (i - 1 \in DOMAIN a /\ q[i] = a[i - 1])
  BY <1>1, <1>2
<1>5. Orderly(a)
  <2>1. ASSUME NEW i \in DOMAIN a, NEW j \in DOMAIN a, a[i].by = a[j].by PROVE i = j
    BY <1>3, <2>1 DEF Orderly
  <2>2. ASSUME NEW i \in DOMAIN a, NEW j \in DOMAIN a, a[i].by = "forget", a[j].by = "main" PROVE i < j
    <3>1. q[i + 1].by = "forget" /\ q[j + 1].by = "main" /\ i + 1 \in DOMAIN q /\ j + 1 \in DOMAIN q
      BY <1>3, <2>2
    <3>2. i + 1 < j + 1
      BY <3>1 DEF Orderly
    <3> QED BY <1>3, <3>2
  <2> QED BY <2>1, <2>2 DEF Orderly
<1>6. ASSUME NEW who PROVE Has1(a, who) <=> Has1(q, who) /\ who # Head(q).by
  <2>1. ASSUME Has1(a, who) PROVE Has1(q, who) /\ who # Head(q).by
    <3>1. PICK i \in DOMAIN a : a[i].by = who
      BY <2>1 DEF Has1
    <3>2. i + 1 \in DOMAIN q /\ q[i + 1].by = who /\ i \in Nat /\ i + 1 # 1
      BY <1>2, <1>3, <3>1
    <3> QED BY <1>1, <1>2, <3>2 DEF Has1, Orderly
  <2>2. ASSUME Has1(q, who), who # Head(q).by PROVE Has1(a, who)
    BY <1>1, <1>4, <2>2 DEF Has1
  <2> QED BY <2>1, <2>2
<1>7. Has1(q, Head(q).by) /\ Head(q) \in JobType
  BY <1>1, <1>2, ElementOfSeq DEF Has1
<1>8. ASSUME NEW main, MainIs(q, main) PROVE MainIs(a, main) /\ (Head(q).by = "main" => Head(q) = main)
  BY <1>1, <1>2, <1>3, <1>8 DEF MainIs
<1>9. ASSUME Head(q).by = "main" PROVE ~Has1(q, "forget")
  <2> SUFFICES ASSUME NEW i \in DOMAIN q, q[i].by = "forget" PROVE FALSE
    BY DEF Has1
  <2>1. i < 1 /\ i \in 1 .. Len(q)
    BY <1>1, <1>2, <1>9 DEF Orderly
  <2> QED BY <2>1, <1>1
<1> QED BY <1>1, <1>5, <1>6, <1>7, <1>8, <1>9
-----------------------------------------------------------------------------
(* What a step does about a task of an engine, and what it leaves of the others. *)
Part(e, t) == QueueStands(e, t) /\ RecordStands(e, t) /\ SavesStand(e, t) /\ FilesStand(t) /\ CallsStand(t)

Elsewhere(e, t) ==
  \A u \in Tasks \ {t} :
    /\ files'[u] = files[u]
    /\ u \in dirs' <=> u \in dirs
    /\ u \in damaged' <=> u \in damaged
    /\ u \in disturbed' <=> u \in disturbed
    /\ jobs'[e][u] = jobs[e][u]
    /\ stage'[e][u] = stage[e][u]
    /\ memory'[e][u] = memory[e][u]
    /\ pc'[e][u] = pc[e][u]
    /\ u \in kept'[e] <=> u \in kept[e]

CalledFor(t) == called \subseteq called' /\ \A id \in 1 .. MaxPlans, k \in 1 .. MaxRounds :
                  <<id, k>> \in called' /\ <<id, k>> \notin called => Has(t, id)

(* Files that a step leaves are read as before. *)
LEMMA ReadAsBefore ==
  ASSUME NEW t \in Tasks, files'[t] = files[t], t \in dirs => t \in dirs', FilesStand(t)
  PROVE  /\ Names(t)' = Names(t) /\ Revision(t)' = Revision(t) /\ Latest(t)' = Latest(t) /\ (Saved(t)' <=> Saved(t))
         /\ \A k : Whole(t, k)' <=> Whole(t, k)
<1>1. Names(t)' = Names(t)
  BY DEF Names
<1>2. Revision(t)' = Revision(t)
  BY <1>1 DEF Revision
<1>3. Chained(t)' <=> Chained(t)
  BY <1>1, <1>2 DEF Chained
<1>4. t \notin dirs => Names(t) = {}
  BY DEF FilesStand
<1>5. Latest(t)' = Latest(t)
  BY <1>1, <1>2, <1>3, <1>4 DEF Latest
<1>6. \A k : Whole(t, k)' <=> Whole(t, k)
  BY DEF Whole
<1> QED BY <1>1, <1>2, <1>5, <1>6 DEF Saved

(* Alone, a task is being removed when its engine removes it. *)
LEMMA RemovingAlone ==
  ASSUME Alone, NEW e \in Engines, NEW t \in Tasks
  PROVE  /\ Removing(t) <=> stage[e][t] = "rm"
         /\ Removing(t)' <=> stage'[e][t] = "rm"
         /\ \A id : Has(t, id) <=> \/ \E n \in Names(t) : files[t][n] \in Records /\ files[t][n].id = id
                                   \/ memory[e][t].record \in Records /\ memory[e][t].record.id = id
         /\ \A id : Has(t, id)' <=> \/ \E n \in Names(t)' : files'[t][n] \in Records /\ files'[t][n].id = id
                                    \/ memory'[e][t].record \in Records /\ memory'[e][t].record.id = id
<1>1. \A d \in Engines : d = e
  BY DEF Alone
<1> QED BY <1>1 DEF Removing, Has

(* A request that a record is of. *)
LEMMA LatestHas ==
  ASSUME TypeOK, NEW t \in Tasks, Saved(t)
  PROVE  Has(t, Latest(t).id) /\ Latest(t) \in Records /\ Latest(t).id \in 1 .. MaxPlans
<1>1. Names(t) # {} /\ Names(t) = 1 .. Revision(t) /\ Latest(t) = files[t][Revision(t)] /\ Revision(t) >= 1
      /\ Revision(t) \in Nat
  BY LatestFacts, NamesFacts
<1>2. Revision(t) \in Names(t) /\ Latest(t) \in Records
  BY <1>1 DEF Saved
<1> QED BY <1>1, <1>2 DEF Has, Records

(* The other tasks stand when a step leaves them. *)
LEMMA OthersStand ==
  ASSUME Alone, EngineStands, NEW e \in Engines, NEW t \in Tasks, Elsewhere(e, t), CalledFor(t),
         NEW u \in Tasks \ {t}
  PROVE  Part(e, u)' /\ \A id : Has(u, id)' <=> Has(u, id)
<1>e. \A d \in Engines : d = e
  BY DEF Alone
<1>0. /\ files'[u] = files[u] /\ (u \in dirs' <=> u \in dirs) /\ (u \in damaged' <=> u \in damaged)
      /\ (u \in disturbed' <=> u \in disturbed) /\ jobs'[e][u] = jobs[e][u] /\ stage'[e][u] = stage[e][u]
      /\ memory'[e][u] = memory[e][u] /\ pc'[e][u] = pc[e][u] /\ (u \in kept'[e] <=> u \in kept[e])
  BY DEF Elsewhere
<1>1. TypeOK /\ Part(e, u) /\ u \in Tasks /\ RequestsStand
  BY DEF EngineStands, Part
<1>2. /\ Names(u)' = Names(u) /\ Revision(u)' = Revision(u) /\ Latest(u)' = Latest(u) /\ (Saved(u)' <=> Saved(u))
      /\ \A k : Whole(u, k)' <=> Whole(u, k)
  BY <1>0, <1>1, ReadAsBefore DEF Part
<1>3. (Removing(u)' <=> Removing(u)) /\ \A id : Has(u, id)' <=> Has(u, id)
  BY <1>0, <1>1, <1>2, RemovingAlone
<1>4. QueueStands(e, u)'
  <2>1. Asked(e, u, "main")' <=> Asked(e, u, "main")
    BY <1>0 DEF Asked
  <2>2. Asked(e, u, "forget")' <=> Asked(e, u, "forget")
    BY <1>0 DEF Asked
  <2>3. QueueStands(e, u)
    BY <1>1 DEF Part
  <2> QED BY <1>0, <2>1, <2>2, <2>3 DEF QueueStands, Doing, Current, SaveJob
<1>5. RecordStands(e, u)'
  <2>1. Asked(e, u, "forget")' <=> Asked(e, u, "forget")
    BY <1>0 DEF Asked
  <2>2. RecordStands(e, u)
    BY <1>1 DEF Part
  <2>3. Gone(e, u)' <=> Gone(e, u)
    BY <1>0, <1>2, <2>1 DEF Gone
  <2>4. StatusAt(e, u)' <=> StatusAt(e, u)
    BY <1>0 DEF StatusAt
  <2> QED BY <1>0, <2>2, <2>3, <2>4 DEF RecordStands
<1>6. SavesStand(e, u)'
  <2>1. Follower(e, u)' <=> Follower(e, u)
    BY <1>0, <1>2 DEF Follower
  <2>2. Shown(e, u)' <=> Shown(e, u)
    BY <1>0, <1>2 DEF Shown
  <2> QED BY <1>0, <1>1, <1>3, <2>1, <2>2 DEF SavesStand, Part
<1>7. FilesStand(u)'
  BY <1>0, <1>1, <1>2, <1>3 DEF FilesStand, Part
<1>8. \A id \in 1 .. MaxPlans, k \in 1 .. MaxRounds : Has(u, id) => (<<id, k>> \in called' <=> <<id, k>> \in called)
  BY <1>1 DEF CalledFor, RequestsStand
<1>9. CallsStand(u)'
  <2>1. CallsStand(u)
    BY <1>1 DEF Part
  <2>2. ASSUME u \notin damaged', ~Removing(u)', Saved(u)' PROVE Covers(Latest(u))'
    <3>1. Covers(Latest(u)) /\ Has(u, Latest(u).id) /\ Latest(u).id \in 1 .. MaxPlans
      BY <1>0, <1>1, <1>2, <1>3, <2>1, <2>2, LatestHas DEF CallsStand
    <3> QED BY <1>2, <1>8, <3>1 DEF Covers
  <2>3. ASSUME u \notin damaged', u \in kept'[e]
        PROVE  /\ Covers(memory[e][u].record)'
               /\ pc'[e][u] \in {"commit", "prepare", "running", "call"} =>
                    <<memory'[e][u].record.id, memory'[e][u].record.rounds>> \notin called'
    <3>1. /\ Covers(memory[e][u].record)
          /\ pc[e][u] \in {"commit", "prepare", "running", "call"} =>
               <<memory[e][u].record.id, memory[e][u].record.rounds>> \notin called
      BY <1>0, <2>1, <2>3 DEF CallsStand
    <3>2. memory[e][u].record \in Records /\ RecordStands(e, u)
      BY <1>0, <1>1, <2>3 DEF Part, RecordStands
    <3>3. Has(u, memory[e][u].record.id) /\ memory[e][u].record.id \in 1 .. MaxPlans
      BY <3>2 DEF Has, Records
    <3>4. Covers(memory[e][u].record)'
      BY <1>0, <1>8, <3>1, <3>3 DEF Covers
    <3>5. pc[e][u] \in {"commit", "prepare", "running", "call"} => memory[e][u].record.rounds \in 1 .. MaxRounds
      <4>1. memory[e][u].record.rounds \in 0 .. MaxRounds
        BY <3>2 DEF Records
      <4>2. pc[e][u] \in {"commit", "prepare", "running", "call"} =>
              ~memory[e][u].failed /\ memory[e][u].record.status \in {"ATTEMPT_COMMITTED", "RUNNING"}
        BY <3>2 DEF RecordStands, StatusAt, LoadPoints
      <4>3. pc[e][u] \in {"commit", "prepare", "running", "call"} => Normal(memory[e][u].record)
        BY <3>2, <4>2 DEF RecordStands
      <4> QED BY <4>1, <4>2, <4>3 DEF Normal
    <3> QED BY <1>0, <1>8, <3>1, <3>3, <3>4, <3>5
  <2> QED BY <1>e, <2>2, <2>3 DEF CallsStand
<1> QED BY <1>3, <1>4, <1>5, <1>6, <1>7, <1>9 DEF Part

(* A step about one task keeps the invariant when that task stands after it. *)
LEMMA Reassembled ==
  ASSUME Alone, EngineStands, TypeOK', NEW e \in Engines, NEW t \in Tasks,
         Elsewhere(e, t), CalledFor(t), Part(e, t)', plans' >= plans,
         \A id \in 1 .. MaxPlans : Has(t, id)' => Has(t, id) \/ (id = plans + 1 /\ plans' = plans + 1)
  PROVE  EngineStands'
<1>e. \A d \in Engines : d = e
  BY DEF Alone
<1>1. \A u \in Tasks \ {t} : Part(e, u)' /\ \A id : Has(u, id)' <=> Has(u, id)
  BY OthersStand
<1>2. \A u \in Tasks : Part(e, u)'
  BY <1>1
<1>3. RequestsStand'
  <2>1. RequestsStand /\ plans \in Nat /\ plans' \in Nat
    BY DEF EngineStands, TypeOK
  <2> SUFFICES ASSUME NEW u \in Tasks, NEW id \in 1 .. MaxPlans, Has(u, id)'
               PROVE  id <= plans' /\ \A other \in Tasks \ {u} : ~Has(other, id)'
    BY DEF RequestsStand
  <2>2. CASE \E v \in Tasks : Has(v, id)
    <3>1. PICK v \in Tasks : Has(v, id)
      BY <2>2
    <3>2. id <= plans /\ \A other \in Tasks \ {v} : ~Has(other, id)
      BY <2>1, <3>1 DEF RequestsStand
    <3>3. \A w \in Tasks \ {v} : ~Has(w, id)'
      BY <1>1, <2>1, <3>2
    <3> QED BY <2>1, <3>2, <3>3
  <2>3. CASE \A v \in Tasks : ~Has(v, id)
    BY <1>1, <2>1, <2>3
  <2> QED BY <2>2, <2>3
<1> QED BY <1>e, <1>2, <1>3 DEF EngineStands, Part
-----------------------------------------------------------------------------
(* A value put for one task of one engine. *)
LEMMA PutFacts ==
  ASSUME NEW S, NEW f \in [Engines -> [Tasks -> S]], NEW e \in Engines, NEW t \in Tasks, NEW v \in S
  PROVE  /\ [f EXCEPT ![e][t] = v] \in [Engines -> [Tasks -> S]]
         /\ [f EXCEPT ![e][t] = v][e][t] = v
         /\ \A u \in Tasks \ {t} : [f EXCEPT ![e][t] = v][e][u] = f[e][u]
         /\ \A d \in Engines, u \in Tasks : <<d, u>> # <<e, t>> => [f EXCEPT ![e][t] = v][d][u] = f[d][u]
OBVIOUS

(* Calls that are being planned have their number reserved, which a step that begins none keeps. *)
LEMMA PlanningFalls ==
  ASSUME TypeOK, Planning' \subseteq Planning, plans' = plans
  PROVE  plans' \in Nat /\ IsFiniteSet(Planning)' /\ (plans + Cardinality(Planning) <= MaxPlans)'
<1>1. IsFiniteSet(Planning) /\ plans \in Nat /\ plans + Cardinality(Planning) <= MaxPlans /\ MaxPlans \in Nat
  BY JournalAssumption DEF TypeOK
<1>2. IsFiniteSet(Planning') /\ Cardinality(Planning') <= Cardinality(Planning) /\ Cardinality(Planning') \in Nat
      /\ Cardinality(Planning) \in Nat
  BY <1>1, FS_Subset, FS_CardinalityType
<1> QED BY <1>1, <1>2

(* A step that begins no plan adds none to those. *)
LEMMA PlanningSame ==
  ASSUME TypeOK, pc' \in [Engines -> [Tasks -> Points]], NEW e \in Engines, NEW t \in Tasks,
         \A d \in Engines, u \in Tasks : <<d, u>> # <<e, t>> => pc'[d][u] = pc[d][u],
         pc'[e][t] = "planLoad" => pc[e][t] = "planLoad"
  PROVE  Planning' \subseteq Planning
BY DEF Planning

(* What the first thing that is asked for says of the rest. *)
LEMMA HeadFacts ==
  ASSUME TypeOK, NEW e \in Engines, NEW t \in Tasks, QueueStands(e, t), jobs[e][t] # <<>>
  PROVE  /\ jobs[e][t] \in Seq(JobType) /\ Orderly(jobs[e][t]) /\ Current(e, t) \in JobType
         /\ \A who : Asked(e, t, who) <=> Has1(jobs[e][t], who)
         /\ MainIs(jobs[e][t], IF pc[e][t] \in LoadPoints THEN LoadFor("main") ELSE SaveJob(memory[e][t]))
         /\ Asked(e, t, Current(e, t).by)
         /\ Current(e, t).by = "main" =>
              /\ pc[e][t] \in LoadPoints \cup SavePoints /\ ~Asked(e, t, "forget")
              /\ Current(e, t) = IF pc[e][t] \in LoadPoints THEN LoadFor("main") ELSE SaveJob(memory[e][t])
         /\ Current(e, t).op = "save" =>
              /\ Current(e, t).by = "main" /\ pc[e][t] \in SavePoints
              /\ Current(e, t).record = memory[e][t].record /\ Current(e, t).expected = memory[e][t].revision
              /\ memory[e][t].record \in Records
<1> DEFINE q == jobs[e][t]
           main == IF pc[e][t] \in LoadPoints THEN LoadFor("main") ELSE SaveJob(memory[e][t])
<1>1. q \in Seq(JobType) /\ q # <<>>
  BY DEF TypeOK
<1>2. Orderly(q) /\ MainIs(q, main)
  BY DEF QueueStands, Orderly, MainIs
<1>3. \A who : Asked(e, t, who) <=> Has1(q, who)
  BY DEF Asked, Has1
<1>4. Has1(q, Head(q).by) /\ Head(q) \in JobType /\ (Head(q).by = "main" => ~Has1(q, "forget") /\ Head(q) = main)
  BY <1>1, <1>2, TailFacts
<1>5. Current(e, t).by = "main" => /\ pc[e][t] \in LoadPoints \cup SavePoints /\ ~Asked(e, t, "forget")
                                   /\ Current(e, t) = main
  <2> HAVE Current(e, t).by = "main"
  <2>1. Asked(e, t, "main") /\ ~Asked(e, t, "forget") /\ Current(e, t) = main
    BY <1>3, <1>4 DEF Current
  <2> QED BY <2>1 DEF QueueStands
<1>6. ASSUME Current(e, t).op = "save"
      PROVE  /\ Current(e, t).by = "main" /\ pc[e][t] \in SavePoints
             /\ Current(e, t).record = memory[e][t].record /\ Current(e, t).expected = memory[e][t].revision
             /\ memory[e][t].record \in Records
  <2>1. Current(e, t) \in JobType
    BY <1>4 DEF Current
  <2>2. Current(e, t) \in [op : {"save"}, by : {"main"}, record : Records, expected : 0 .. MaxRevisions]
    BY <1>6, <2>1 DEF JobType, LoadFor, Remove
  <2>3. Current(e, t).by = "main" /\ Current(e, t).record \in Records
    BY <2>2
  <2>4. pc[e][t] \notin LoadPoints
    BY <1>5, <1>6, <2>3 DEF LoadFor
  <2>5. Current(e, t) = SaveJob(memory[e][t])
    BY <1>5, <2>3, <2>4
  <2> QED BY <1>5, <2>3, <2>4, <2>5 DEF SaveJob, Save
<1> QED BY <1>1, <1>2, <1>3, <1>4, <1>5, <1>6 DEF Current

(* The queue when its oldest job settles. *)
LEMMA SettleFacts ==
  ASSUME TypeOK, NEW e \in Engines, NEW t \in Tasks, QueueStands(e, t), jobs[e][t] # <<>>, SettleJob(e, t, <<>>)
  PROVE  /\ jobs' \in [Engines -> [Tasks -> Seq(JobType)]]
         /\ stage' \in [Engines -> [Tasks -> {"start", "create", "write", "rm"}]]
         /\ stage'[e][t] = "start" /\ jobs'[e][t] = Tail(jobs[e][t])
         /\ \A u \in Tasks \ {t} : jobs'[e][u] = jobs[e][u] /\ stage'[e][u] = stage[e][u]
         /\ Orderly(jobs'[e][t])
         /\ \A who : Asked(e, t, who)' <=> Asked(e, t, who) /\ who # Current(e, t).by
         /\ \A main : MainIs(jobs[e][t], main) => MainIs(jobs'[e][t], main)
<1>1. jobs[e][t] \in Seq(JobType) /\ Orderly(jobs[e][t]) /\ \A who : Asked(e, t, who) <=> Has1(jobs[e][t], who)
  BY HeadFacts
<1>2. Tail(jobs[e][t]) \in Seq(JobType) /\ Tail(jobs[e][t]) \o <<>> = Tail(jobs[e][t])
  BY <1>1, TailFacts, ConcatEmptySeq
<1>3. jobs' = [jobs EXCEPT ![e][t] = Tail(jobs[e][t])] /\ stage' = [stage EXCEPT ![e][t] = "start"]
  BY <1>2 DEF SettleJob
<1>4. /\ jobs' \in [Engines -> [Tasks -> Seq(JobType)]] /\ jobs'[e][t] = Tail(jobs[e][t])
      /\ \A u \in Tasks \ {t} : jobs'[e][u] = jobs[e][u]
  BY <1>2, <1>3, PutFacts DEF TypeOK
<1>5. /\ stage' \in [Engines -> [Tasks -> {"start", "create", "write", "rm"}]] /\ stage'[e][t] = "start"
      /\ \A u \in Tasks \ {t} : stage'[e][u] = stage[e][u]
  BY <1>3, PutFacts DEF TypeOK
<1>6. /\ Orderly(jobs'[e][t])
      /\ \A who : Has1(jobs'[e][t], who) <=> Has1(jobs[e][t], who) /\ who # Current(e, t).by
      /\ \A main : MainIs(jobs[e][t], main) => MainIs(jobs'[e][t], main)
  BY <1>1, <1>4, TailFacts DEF Current
<1>7. \A who : Asked(e, t, who)' <=> Asked(e, t, who) /\ who # Current(e, t).by
  BY <1>1, <1>6 DEF Asked, Has1
<1> QED BY <1>4, <1>5, <1>6, <1>7

(* The queue when one more thing is asked for. *)
LEMMA AskFacts ==
  ASSUME TypeOK, NEW e \in Engines, NEW t \in Tasks, QueueStands(e, t), NEW job \in JobType, Ask(e, t, job),
         ~Asked(e, t, job.by), job.by = "forget" => ~Asked(e, t, "main")
  PROVE  /\ jobs' \in [Engines -> [Tasks -> Seq(JobType)]]
         /\ \A u \in Tasks \ {t} : jobs'[e][u] = jobs[e][u]
         /\ Orderly(jobs'[e][t])
         /\ \A who : Asked(e, t, who)' <=> Asked(e, t, who) \/ who = job.by
         /\ \A main : MainIs(jobs[e][t], main) /\ (job.by = "main" => job = main) => MainIs(jobs'[e][t], main)
         /\ ~Asked(e, t, "main") => \A main : MainIs(jobs[e][t], main)
         /\ \A op, who, at : Doing(e, t, op, who, at) => Doing(e, t, op, who, at)'
         /\ stage' = stage
<1>1. /\ jobs[e][t] \in Seq(JobType) /\ Orderly(jobs[e][t]) /\ \A who : Asked(e, t, who) <=> Has1(jobs[e][t], who)
      /\ jobs' = [jobs EXCEPT ![e][t] = Append(jobs[e][t], job)] /\ stage' = stage
  BY DEF TypeOK, QueueStands, Orderly, Asked, Has1, Ask
<1>2. /\ Append(jobs[e][t], job) \in Seq(JobType) /\ Orderly(Append(jobs[e][t], job))
      /\ \A who : Has1(Append(jobs[e][t], job), who) <=> Has1(jobs[e][t], who) \/ who = job.by
      /\ \A main : MainIs(jobs[e][t], main) /\ (job.by = "main" => job = main) => MainIs(Append(jobs[e][t], job), main)
      /\ Append(jobs[e][t], job) # <<>>
      /\ jobs[e][t] # <<>> => Head(Append(jobs[e][t], job)) = Head(jobs[e][t])
  BY <1>1, AppendFacts
<1>3. /\ jobs' \in [Engines -> [Tasks -> Seq(JobType)]] /\ jobs'[e][t] = Append(jobs[e][t], job)
      /\ \A u \in Tasks \ {t} : jobs'[e][u] = jobs[e][u]
  BY <1>1, <1>2, PutFacts DEF TypeOK
<1>4. \A who : Asked(e, t, who)' <=> Has1(jobs'[e][t], who)
  BY DEF Asked, Has1
<1>5. ~Asked(e, t, "main") => \A main : MainIs(jobs[e][t], main)
  BY DEF Asked, MainIs
<1>6. \A op, who, at : Doing(e, t, op, who, at) => Doing(e, t, op, who, at)'
  BY <1>1, <1>2, <1>3 DEF Doing, Current
<1> QED BY <1>1, <1>2, <1>3, <1>4, <1>5, <1>6
-----------------------------------------------------------------------------
(* A step that only opens, stops or signals. *)
LEMMA QuietStep ==
  ASSUME EngineStands, UNCHANGED <<dirs, files, jobs, stage, faults, kept, memory, pc, plans, called, disturbed>>,
         damaged \subseteq damaged', damaged' \in SUBSET disturbed,
         life' \in [Engines -> {"new", "open", "disposed"}],
         signal' \in [Engines -> [Tasks -> BOOLEAN]], stopped' \in [Engines -> [Tasks -> BOOLEAN]]
  PROVE  EngineStands'
<1>1. TypeOK'
  BY DEF EngineStands, TypeOK, Planning
<1>2. ASSUME NEW t \in Tasks
      PROVE  /\ Names(t)' = Names(t) /\ Revision(t)' = Revision(t) /\ Latest(t)' = Latest(t) /\ (Saved(t)' <=> Saved(t))
             /\ (\A k : Whole(t, k)' <=> Whole(t, k)) /\ (Removing(t)' <=> Removing(t))
             /\ \A id : Has(t, id)' <=> Has(t, id)
  <2>1. /\ Names(t)' = Names(t) /\ Revision(t)' = Revision(t) /\ Latest(t)' = Latest(t) /\ (Saved(t)' <=> Saved(t))
        /\ (\A k : Whole(t, k)' <=> Whole(t, k))
    BY ReadAsBefore DEF EngineStands
  <2> QED BY <2>1 DEF Removing, Has
<1>3. ASSUME NEW e \in Engines, NEW t \in Tasks PROVE QueueStands(e, t)' /\ RecordStands(e, t)' /\ SavesStand(e, t)'
  <2>1. QueueStands(e, t)'
    BY DEF EngineStands, QueueStands, Asked, Doing, Current
  <2>2. (Gone(e, t)' <=> Gone(e, t)) /\ (StatusAt(e, t)' <=> StatusAt(e, t))
    BY <1>2 DEF Gone, StatusAt, Asked
  <2>3. RecordStands(e, t)'
    BY <2>2 DEF EngineStands, RecordStands
  <2>4. (Follower(e, t)' <=> Follower(e, t)) /\ (Shown(e, t)' <=> Shown(e, t))
    BY <1>2 DEF Follower, Shown
  <2>5. SavesStand(e, t)'
    BY <1>2, <2>4 DEF EngineStands, SavesStand
  <2> QED BY <2>1, <2>3, <2>5
<1>4. ASSUME NEW t \in Tasks PROVE FilesStand(t)' /\ CallsStand(t)'
  <2>1. FilesStand(t)'
    BY <1>2 DEF EngineStands, FilesStand
  <2>2. CallsStand(t)'
    BY <1>2 DEF EngineStands, CallsStand, Covers
  <2> QED BY <2>1, <2>2
<1>5. RequestsStand'
  BY <1>2 DEF EngineStands, RequestsStand
<1> QED BY <1>1, <1>3, <1>4, <1>5 DEF EngineStands

(* A step that leaves the files of a task, and does not end its removal. *)
LEMMA FilesKept ==
  ASSUME NEW t \in Tasks, FilesStand(t), files'[t] = files[t], t \in dirs => t \in dirs',
         t \in damaged => t \in damaged', Removing(t) => Removing(t)' \/ t \in damaged'
  PROVE  FilesStand(t)'
<1>1. Names(t)' = Names(t) /\ Revision(t)' = Revision(t) /\ \A k : Whole(t, k)' <=> Whole(t, k)
  BY ReadAsBefore
<1> QED BY <1>1 DEF FilesStand

CallPoints == {"commit", "prepare", "running", "call"}
Round(e, t) == <<memory[e][t].record.id, memory[e][t].record.rounds>>

(* What is saved and in memory still covers what was called, when the files are left. *)
LEMMA CallsKept ==
  ASSUME Alone, NEW e \in Engines, NEW t \in Tasks, FilesStand(t), CallsStand(t), files'[t] = files[t],
         t \in dirs => t \in dirs', called' = called, t \in damaged => t \in damaged',
         Removing(t) => Removing(t)' \/ t \in damaged',
         t \in kept'[e] /\ t \notin damaged' =>
            Covers(memory[e][t].record)' /\ (pc'[e][t] \in CallPoints => Round(e, t)' \notin called)
  PROVE  CallsStand(t)'
<1>1. \A d \in Engines : d = e
  BY DEF Alone
<1>2. Latest(t)' = Latest(t) /\ (Saved(t)' <=> Saved(t))
  BY ReadAsBefore
<1>3. ASSUME t \notin damaged', ~Removing(t)', Saved(t)' PROVE Covers(Latest(t))'
  BY <1>2, <1>3 DEF CallsStand, Covers
<1>4. ASSUME t \notin damaged', NEW d \in Engines, t \in kept'[d]
      PROVE  /\ Covers(memory[d][t].record)'
             /\ pc'[d][t] \in CallPoints => <<memory[d][t].record.id, memory[d][t].record.rounds>>' \notin called'
  BY <1>1, <1>4 DEF Round
<1> QED BY <1>3, <1>4 DEF CallsStand, CallPoints

(* Requests that a step about files it leaves does not add to. *)
LEMMA HasKept ==
  ASSUME Alone, NEW e \in Engines, NEW t \in Tasks, FilesStand(t), files'[t] = files[t], t \in dirs => t \in dirs',
         memory'[e][t].record \in Records =>
           \/ memory[e][t].record \in Records /\ memory'[e][t].record.id = memory[e][t].record.id
           \/ Has(t, memory'[e][t].record.id)
  PROVE  \A id : Has(t, id)' => Has(t, id)
<1>1. Names(t)' = Names(t)
  BY ReadAsBefore
<1> QED BY <1>1, RemovingAlone
-----------------------------------------------------------------------------
(* The queue after a step. *)
LEMMA QueueBuilt ==
  ASSUME NEW e \in Engines, NEW t \in Tasks, Orderly(jobs'[e][t]),
         Asked(e, t, "main")' <=> pc'[e][t] \in LoadPoints \cup SavePoints,
         pc'[e][t] \in LoadPoints => MainIs(jobs'[e][t], LoadFor("main")),
         pc'[e][t] \in SavePoints => MainIs(jobs'[e][t], SaveJob(memory'[e][t])),
         Asked(e, t, "forget")' => t \in disturbed' /\ pc'[e][t] \in BesideForget,
         stage'[e][t] \in {"create", "write"} => Doing(e, t, "save", "main", stage[e][t])',
         stage'[e][t] = "rm" => Doing(e, t, "remove", "forget", "rm")'
  PROVE  QueueStands(e, t)'
<1>1. ASSUME NEW i \in DOMAIN (jobs'[e][t]), jobs'[e][t][i].by = "main"
      PROVE  jobs'[e][t][i] = IF pc'[e][t] \in LoadPoints THEN LoadFor("main") ELSE SaveJob(memory'[e][t])
  <2>1. Asked(e, t, "main")'
    BY <1>1 DEF Asked
  <2> QED BY <1>1, <2>1 DEF MainIs
<1> QED BY <1>1 DEF QueueStands, Orderly, SaveJob

(* plan() begins. *)
LEMMA PlanStands ==
  ASSUME Alone, EngineStands, NEW e \in Engines, NEW t \in Tasks, Plan(e, t)
  PROVE  EngineStands'
<1>e. \A d \in Engines : d = e
  BY DEF Alone
<1>0. TypeOK /\ Part(e, t) /\ QueueStands(e, t) /\ RecordStands(e, t) /\ FilesStand(t) /\ CallsStand(t)
  BY DEF EngineStands, Part
<1>1. pc[e][t] = "idle" /\ t \notin kept[e] /\ ~Asked(e, t, "main") /\ memory[e][t] = Unloaded
      /\ (stage[e][t] \notin {"create", "write"})
  <2>1. pc[e][t] = "idle" /\ t \notin kept[e]
    BY DEF Plan, Busy
  <2>2. ~Asked(e, t, "main")
    BY <1>0, <2>1 DEF QueueStands, LoadPoints, SavePoints
  <2>3. memory[e][t] = Unloaded
    BY <1>0, <2>1 DEF RecordStands, LoadPoints, Gone
  <2>4. jobs[e][t] # <<>> /\ Current(e, t).by = "main" => Asked(e, t, "main")
    BY <1>0, HeadFacts
  <2> QED BY <1>0, <2>1, <2>2, <2>3, <2>4 DEF QueueStands, Doing
<1>2. disturbed' = disturbed
  BY <1>e DEF Plan, Disturbed, Others
<1>3. LoadFor("main") \in JobType /\ LoadFor("main").by = "main"
  BY DEF JobType, LoadFor
<1>4. /\ jobs' \in [Engines -> [Tasks -> Seq(JobType)]]
      /\ \A u \in Tasks \ {t} : jobs'[e][u] = jobs[e][u]
      /\ Orderly(jobs'[e][t])
      /\ \A who : Asked(e, t, who)' <=> Asked(e, t, who) \/ who = "main"
      /\ MainIs(jobs'[e][t], LoadFor("main"))
      /\ \A op, who, at : Doing(e, t, op, who, at) => Doing(e, t, op, who, at)'
      /\ stage' = stage
  BY <1>0, <1>1, <1>3, AskFacts DEF Plan
<1>5. /\ pc' \in [Engines -> [Tasks -> Points]] /\ pc'[e][t] = "planLoad"
      /\ \A u \in Tasks \ {t} : pc'[e][u] = pc[e][u]
      /\ \A d \in Engines, u \in Tasks : <<d, u>> # <<e, t>> => pc'[d][u] = pc[d][u]
  <2>1. "planLoad" \in Points /\ pc \in [Engines -> [Tasks -> Points]]
    BY <1>0 DEF Points, TypeOK
  <2>2. pc' = [pc EXCEPT ![e][t] = "planLoad"]
    BY DEF Plan, Goto
  <2> QED BY <2>1, <2>2, PutFacts
<1>6. plans' \in Nat /\ IsFiniteSet(Planning)' /\ (plans + Cardinality(Planning) <= MaxPlans)'
  <2>1. Planning' = Planning \cup {<<e, t>>} /\ <<e, t>> \notin Planning
    BY <1>1, <1>5 DEF Planning
  <2>2. IsFiniteSet(Planning) /\ plans \in Nat /\ plans' = plans /\ plans + Cardinality(Planning) < MaxPlans
        /\ MaxPlans \in Nat
    BY <1>0, JournalAssumption DEF TypeOK, Plan
  <2>3. IsFiniteSet(Planning') /\ Cardinality(Planning') = Cardinality(Planning) + 1 /\ Cardinality(Planning) \in Nat
    BY <2>1, <2>2, FS_AddElement, FS_CardinalityType
  <2> QED BY <2>2, <2>3
<1>7. TypeOK'
  BY <1>0, <1>2, <1>4, <1>5, <1>6 DEF TypeOK, Plan
<1>8. QueueStands(e, t)'
  BY <1>0, <1>1, <1>2, <1>4, <1>5 DEF QueueStands, Orderly, MainIs, LoadPoints, BesideForget
<1>9. RecordStands(e, t)' /\ SavesStand(e, t)'
  BY <1>1, <1>5, NoRecords DEF Plan, RecordStands, StatusAt, LoadPoints, SavePoints, SavesStand, Unloaded
<1>10. FilesStand(t)' /\ CallsStand(t)'
  <2>1. Removing(t) => Removing(t)'
    BY <1>4 DEF Removing
  <2> QED BY <1>0, <1>1, <2>1, FilesKept, CallsKept DEF Plan
<1>11. \A id : Has(t, id)' => Has(t, id)
  BY <1>0, HasKept DEF Plan
<1>12. Elsewhere(e, t) /\ CalledFor(t)
  BY <1>2, <1>4, <1>5 DEF Elsewhere, CalledFor, Plan
<1> QED BY <1>0, <1>6, <1>7, <1>8, <1>9, <1>10, <1>11, <1>12, Reassembled DEF Part, Plan, TypeOK

(* run() takes the task. *)
LEMMA RunStands ==
  ASSUME Alone, EngineStands, NEW e \in Engines, NEW t \in Tasks, Run(e, t)
  PROVE  EngineStands'
<1>e. \A d \in Engines : d = e
  BY DEF Alone
<1>0. TypeOK /\ Part(e, t) /\ QueueStands(e, t) /\ RecordStands(e, t) /\ SavesStand(e, t) /\ FilesStand(t)
      /\ CallsStand(t)
  BY DEF EngineStands, Part
<1>1. pc[e][t] = "idle" /\ ~Asked(e, t, "main") /\ (stage[e][t] \notin {"create", "write"})
      /\ (t \notin kept[e] => memory[e][t] = Unloaded)
  <2>1. pc[e][t] = "idle"
    BY DEF Run, Busy
  <2>2. ~Asked(e, t, "main")
    BY <1>0, <2>1 DEF QueueStands, LoadPoints, SavePoints
  <2>3. t \notin kept[e] => memory[e][t] = Unloaded
    BY <1>0, <2>1 DEF RecordStands, LoadPoints, Gone
  <2>4. jobs[e][t] # <<>> /\ Current(e, t).by = "main" => Asked(e, t, "main")
    BY <1>0, HeadFacts
  <2> QED BY <1>0, <2>1, <2>2, <2>3, <2>4 DEF QueueStands, Doing
<1>2. disturbed' = disturbed
  BY <1>e DEF Run, Disturbed, Others
<1>p. PICK p \in {"ready", "load"} : pc' = [pc EXCEPT ![e][t] = p] /\ (p = "ready" <=> t \in kept[e])
  BY DEF Run, Goto
<1>3. LoadFor("main") \in JobType /\ LoadFor("main").by = "main"
  BY DEF JobType, LoadFor
<1>4. /\ jobs' \in [Engines -> [Tasks -> Seq(JobType)]]
      /\ \A u \in Tasks \ {t} : jobs'[e][u] = jobs[e][u]
      /\ Orderly(jobs'[e][t])
      /\ \A who : Asked(e, t, who)' <=> Asked(e, t, who) \/ (p = "load" /\ who = "main")
      /\ MainIs(jobs'[e][t], LoadFor("main"))
      /\ p = "ready" => \A main : MainIs(jobs'[e][t], main)
      /\ \A op, who, at : Doing(e, t, op, who, at) => Doing(e, t, op, who, at)'
      /\ stage' = stage
  <2>1. CASE p = "load"
    BY <1>0, <1>1, <1>p, <1>3, <2>1, AskFacts DEF Run
  <2>2. CASE p = "ready"
    <3>1. jobs' = jobs /\ stage' = stage
      BY <1>p, <2>2 DEF Run
    <3>2. /\ jobs' \in [Engines -> [Tasks -> Seq(JobType)]] /\ Orderly(jobs[e][t])
          /\ \A main : MainIs(jobs[e][t], main)
      BY <1>0, <1>1, <3>1 DEF TypeOK, QueueStands, Orderly, MainIs, Asked
    <3>3. \A who : Asked(e, t, who)' <=> Asked(e, t, who)
      BY <3>1 DEF Asked
    <3>4. \A op, who, at : Doing(e, t, op, who, at) => Doing(e, t, op, who, at)'
      BY <3>1 DEF Doing, Current
    <3> QED BY <2>2, <3>1, <3>2, <3>3, <3>4
  <2> QED BY <2>1, <2>2
<1>5. /\ pc' \in [Engines -> [Tasks -> Points]] /\ pc'[e][t] = p
      /\ \A u \in Tasks \ {t} : pc'[e][u] = pc[e][u]
      /\ \A d \in Engines, u \in Tasks : <<d, u>> # <<e, t>> => pc'[d][u] = pc[d][u]
  <2>1. p \in Points /\ pc \in [Engines -> [Tasks -> Points]]
    BY <1>0 DEF Points, TypeOK
  <2> QED BY <1>p, <2>1, PutFacts
<1>6. plans' \in Nat /\ IsFiniteSet(Planning)' /\ (plans + Cardinality(Planning) <= MaxPlans)'
  <2>1. Planning' \subseteq Planning
    BY <1>0, <1>5, PlanningSame
  <2> QED BY <1>0, <2>1, PlanningFalls DEF Run
<1>7. TypeOK'
  BY <1>0, <1>2, <1>4, <1>5, <1>6 DEF TypeOK, Run
<1>8. QueueStands(e, t)'
  <2>1. Asked(e, t, "main")' <=> pc'[e][t] \in LoadPoints \cup SavePoints
    BY <1>0, <1>p, <1>1, <1>4, <1>5 DEF LoadPoints, SavePoints
  <2>2. Asked(e, t, "forget")' => t \in disturbed' /\ pc'[e][t] \in BesideForget
    BY <1>0, <1>2, <1>4, <1>5 DEF QueueStands, BesideForget, LoadPoints
  <2>3. /\ stage'[e][t] \in {"create", "write"} => Doing(e, t, "save", "main", stage[e][t])'
        /\ stage'[e][t] = "rm" => Doing(e, t, "remove", "forget", "rm")'
    BY <1>0, <1>1, <1>4 DEF QueueStands
  <2> QED BY <1>4, <1>5, <2>1, <2>2, <2>3, QueueBuilt DEF LoadPoints, SavePoints
<1>9. RecordStands(e, t)'
  BY <1>0, <1>p, <1>1, <1>5, NoRecords DEF Run, RecordStands, StatusAt, LoadPoints, SavePoints, Unloaded
<1>a. SavesStand(e, t)' /\ (Removing(t)' <=> Removing(t))
  <2>1. Names(t)' = Names(t) /\ Revision(t)' = Revision(t) /\ Latest(t)' = Latest(t)
    BY <1>0, ReadAsBefore DEF Run
  <2>2. Removing(t)' <=> Removing(t)
    BY <1>4 DEF Removing
  <2> QED BY <1>0, <1>p, <1>1, <1>5, <2>1, <2>2 DEF Run, SavesStand, Shown, SavePoints
<1>10. FilesStand(t)' /\ CallsStand(t)'
  <2>1. t \in kept'[e] /\ t \notin damaged' =>
          Covers(memory[e][t].record)' /\ (pc'[e][t] \in CallPoints => Round(e, t)' \notin called)
    BY <1>0, <1>5 DEF Run, CallsStand, Covers, CallPoints
  <2> QED BY <1>0, <1>a, <2>1, FilesKept, CallsKept DEF Run
<1>11. \A id : Has(t, id)' => Has(t, id)
  BY <1>0, HasKept DEF Run
<1>12. Elsewhere(e, t) /\ CalledFor(t)
  BY <1>2, <1>4, <1>5 DEF Elsewhere, CalledFor, Run
<1> QED BY <1>0, <1>6, <1>7, <1>8, <1>9, <1>a, <1>10, <1>11, <1>12, Reassembled DEF Part, Run, TypeOK
-----------------------------------------------------------------------------
(* A step of the queue alone: beside plan and run. *)
LEMMA AsideStands ==
  ASSUME Alone, EngineStands, NEW e \in Engines, NEW t \in Tasks,
         UNCHANGED <<dirs, files, kept, memory, pc, plans, called, life, signal, stopped>>, faults' \in 0 .. MaxFaults,
         damaged' \in {damaged, damaged \cup {t}}, disturbed' \in {disturbed, disturbed \cup {t}},
         damaged' \subseteq disturbed',
         jobs' \in [Engines -> [Tasks -> Seq(JobType)]],
         stage' \in [Engines -> [Tasks -> {"start", "create", "write", "rm"}]],
         \A u \in Tasks \ {t} : jobs'[e][u] = jobs[e][u] /\ stage'[e][u] = stage[e][u],
         QueueStands(e, t)',
         stage[e][t] \notin {"create", "write"}, stage'[e][t] \notin {"create", "write"},
         Removing(t) => Removing(t)' \/ t \in damaged',
         Gone(e, t) => stage'[e][t] = "start" /\ ~Asked(e, t, "forget")'
  PROVE  EngineStands'
<1>0. TypeOK /\ QueueStands(e, t) /\ RecordStands(e, t) /\ SavesStand(e, t) /\ FilesStand(t) /\ CallsStand(t)
  BY DEF EngineStands
<1>1. TypeOK'
  <2>1. damaged' \in SUBSET disturbed' /\ disturbed' \in SUBSET Tasks
    BY <1>0 DEF TypeOK
  <2>2. Planning' = Planning
    BY DEF Planning
  <2> QED BY <1>0, <2>1, <2>2 DEF TypeOK
<1>2. Names(t)' = Names(t) /\ Revision(t)' = Revision(t) /\ Latest(t)' = Latest(t) /\ \A k : Whole(t, k)' <=> Whole(t, k)
  BY <1>0, ReadAsBefore
<1>3. RecordStands(e, t)'
  <2>1. Gone(e, t) => Gone(e, t)'
    BY <1>2 DEF Gone
  <2>2. StatusAt(e, t)' <=> StatusAt(e, t)
    BY DEF StatusAt
  <2> QED BY <1>0, <2>1, <2>2 DEF RecordStands
<1>4. SavesStand(e, t)'
  <2>1. Follower(e, t) => Follower(e, t)'
    BY <1>0, <1>2 DEF Follower, TypeOK
  <2>2. Shown(e, t)' <=> Shown(e, t)
    BY <1>2 DEF Shown
  <2> QED BY <1>0, <2>1, <2>2 DEF SavesStand
<1>5. FilesStand(t)'
  BY <1>0, FilesKept
<1>6. CallsStand(t)'
  <2>1. t \in kept'[e] /\ t \notin damaged' =>
          Covers(memory[e][t].record)' /\ (pc'[e][t] \in CallPoints => Round(e, t)' \notin called)
    BY <1>0 DEF CallsStand, Covers, CallPoints, Round
  <2> QED BY <1>0, <2>1, CallsKept
<1>7. \A id : Has(t, id)' => Has(t, id)
  BY <1>0, HasKept
<1>8. Elsewhere(e, t) /\ CalledFor(t)
  BY DEF Elsewhere, CalledFor
<1> QED BY <1>0, <1>1, <1>3, <1>4, <1>5, <1>6, <1>7, <1>8, Reassembled DEF Part, TypeOK

(* Something is asked for beside plan and run. *)
LEMMA AskedAside ==
  ASSUME TypeOK, NEW e \in Engines, NEW t \in Tasks, QueueStands(e, t), NEW job \in JobType, job.by # "main",
         Ask(e, t, job), ~Asked(e, t, job.by), UNCHANGED <<memory, pc>>, t \in disturbed => t \in disturbed',
         job.by = "forget" => pc[e][t] = "idle" /\ t \in disturbed'
  PROVE  /\ jobs' \in [Engines -> [Tasks -> Seq(JobType)]] /\ stage' = stage
         /\ \A u \in Tasks \ {t} : jobs'[e][u] = jobs[e][u]
         /\ QueueStands(e, t)' /\ (Asked(e, t, "forget")' => Asked(e, t, "forget") \/ job.by = "forget")
<1>1. job.by = "forget" => ~Asked(e, t, "main")
  BY DEF QueueStands, LoadPoints, SavePoints
<1>2. /\ jobs' \in [Engines -> [Tasks -> Seq(JobType)]] /\ stage' = stage
      /\ \A u \in Tasks \ {t} : jobs'[e][u] = jobs[e][u]
      /\ Orderly(jobs'[e][t])
      /\ \A who : Asked(e, t, who)' <=> Asked(e, t, who) \/ who = job.by
      /\ \A main : MainIs(jobs[e][t], main) => MainIs(jobs'[e][t], main)
      /\ \A op, who, at : Doing(e, t, op, who, at) => Doing(e, t, op, who, at)'
  BY <1>1, AskFacts
<1>3. /\ pc[e][t] \in LoadPoints => MainIs(jobs[e][t], LoadFor("main"))
      /\ pc[e][t] \in SavePoints => MainIs(jobs[e][t], SaveJob(memory[e][t]))
  BY DEF QueueStands, MainIs, LoadPoints, SavePoints
<1>4. Asked(e, t, "main")' <=> pc'[e][t] \in LoadPoints \cup SavePoints
  BY <1>2 DEF QueueStands
<1>5. Asked(e, t, "forget")' => t \in disturbed' /\ pc'[e][t] \in BesideForget
  BY <1>2 DEF QueueStands, BesideForget
<1>6. /\ stage'[e][t] \in {"create", "write"} => Doing(e, t, "save", "main", stage[e][t])'
      /\ stage'[e][t] = "rm" => Doing(e, t, "remove", "forget", "rm")'
  <2>1. stage[e][t] \in {"create", "write"} => Doing(e, t, "save", "main", stage[e][t])
    BY DEF QueueStands
  <2>2. ASSUME stage[e][t] \in {"create", "write"} PROVE Doing(e, t, "save", "main", stage[e][t])'
    BY <1>2, <2>1, <2>2 DEF Doing
  <2> QED BY <1>2, <2>2 DEF QueueStands
<1> QED BY <1>2, <1>3, <1>4, <1>5, <1>6, QueueBuilt

(* What was asked for beside plan and run settles. *)
LEMMA SettledAside ==
  ASSUME TypeOK, NEW e \in Engines, NEW t \in Tasks, QueueStands(e, t), jobs[e][t] # <<>>,
         Current(e, t).by # "main", SettleJob(e, t, <<>>), memory'[e][t] = memory[e][t] \/ pc'[e][t] \notin SavePoints,
         pc' = pc, t \in disturbed => t \in disturbed'
  PROVE  /\ jobs' \in [Engines -> [Tasks -> Seq(JobType)]]
         /\ stage' \in [Engines -> [Tasks -> {"start", "create", "write", "rm"}]]
         /\ stage'[e][t] = "start" /\ stage[e][t] \notin {"create", "write"}
         /\ \A u \in Tasks \ {t} : jobs'[e][u] = jobs[e][u] /\ stage'[e][u] = stage[e][u]
         /\ QueueStands(e, t)'
         /\ \A who : Asked(e, t, who)' <=> Asked(e, t, who) /\ who # Current(e, t).by
<1>2. /\ jobs' \in [Engines -> [Tasks -> Seq(JobType)]]
      /\ stage' \in [Engines -> [Tasks -> {"start", "create", "write", "rm"}]]
      /\ stage'[e][t] = "start"
      /\ \A u \in Tasks \ {t} : jobs'[e][u] = jobs[e][u] /\ stage'[e][u] = stage[e][u]
      /\ Orderly(jobs'[e][t])
      /\ \A who : Asked(e, t, who)' <=> Asked(e, t, who) /\ who # Current(e, t).by
      /\ \A main : MainIs(jobs[e][t], main) => MainIs(jobs'[e][t], main)
  BY SettleFacts
<1>3. /\ pc[e][t] \in LoadPoints => MainIs(jobs[e][t], LoadFor("main"))
      /\ pc[e][t] \in SavePoints => MainIs(jobs[e][t], SaveJob(memory[e][t]))
  BY DEF QueueStands, MainIs, LoadPoints, SavePoints
<1>4. Asked(e, t, "main")' <=> pc'[e][t] \in LoadPoints \cup SavePoints
  BY <1>2 DEF QueueStands
<1>5. Asked(e, t, "forget")' => t \in disturbed' /\ pc'[e][t] \in BesideForget
  BY <1>2 DEF QueueStands
<1>6. stage[e][t] \notin {"create", "write"}
  BY DEF QueueStands, Doing
<1>7. QueueStands(e, t)'
  BY <1>2, <1>3, <1>4, <1>5, QueueBuilt
<1> QED BY <1>2, <1>6, <1>7

(* Only plan and run save: what else stands first in a queue writes nothing. *)
LEMMA NotSaving ==
  ASSUME TypeOK, NEW e \in Engines, NEW t \in Tasks, QueueStands(e, t),
         ~Asked(e, t, "main") \/ (jobs[e][t] # <<>> /\ Current(e, t).op # "save")
  PROVE  stage[e][t] \notin {"create", "write"}
<1>1. jobs[e][t] # <<>> /\ Current(e, t).by = "main" => Asked(e, t, "main")
  BY HeadFacts
<1> QED BY <1>1 DEF QueueStands, Doing

(* read() asks the journal. *)
LEMMA ReadStands ==
  ASSUME Alone, EngineStands, NEW e \in Engines, NEW t \in Tasks, Read(e, t)
  PROVE  EngineStands'
<1>0. TypeOK /\ QueueStands(e, t) /\ RecordStands(e, t)
  BY DEF EngineStands
<1>1. disturbed' = disturbed
  BY DEF Alone, Read, Disturbed, Others
<1>2. LoadFor("read") \in JobType /\ LoadFor("read").by = "read"
  BY DEF JobType, LoadFor
<1>3. /\ jobs' \in [Engines -> [Tasks -> Seq(JobType)]] /\ stage' = stage
      /\ \A u \in Tasks \ {t} : jobs'[e][u] = jobs[e][u]
      /\ QueueStands(e, t)' /\ (Asked(e, t, "forget")' => Asked(e, t, "forget"))
  BY <1>0, <1>1, <1>2, AskedAside DEF Read, engineVars
<1>4. CASE stage[e][t] \notin {"create", "write"}
  <2>1. Removing(t) => Removing(t)'
    BY <1>3 DEF Removing
  <2>2. Gone(e, t) => stage'[e][t] = "start" /\ ~Asked(e, t, "forget")'
    BY <1>3 DEF Gone
  <2> QED BY <1>0, <1>1, <1>3, <1>4, <2>1, <2>2, AsideStands DEF Read, engineVars, TypeOK
<1>5. CASE stage[e][t] \in {"create", "write"}
  <2>1. pc[e][t] \in SavePoints
    BY <1>0, <1>5, HeadFacts DEF QueueStands, Doing
  <2>2. FALSE
    BY <1>0, <1>5, <2>1 DEF Read, RecordStands, Gone, LoadPoints, SavePoints
  <2> QED BY <2>2
<1> QED BY <1>4, <1>5

(* forget() asks the journal. *)
LEMMA ForgetStands ==
  ASSUME Alone, EngineStands, NEW e \in Engines, NEW t \in Tasks, Forget(e, t)
  PROVE  EngineStands'
<1>0. TypeOK /\ QueueStands(e, t) /\ RecordStands(e, t)
  BY DEF EngineStands
<1>1. pc[e][t] = "idle" /\ ~Asked(e, t, "main")
  BY <1>0 DEF Forget, Busy, QueueStands, LoadPoints, SavePoints
<1>2. Remove \in JobType /\ Remove.by = "forget"
  BY DEF JobType, Remove
<1>3. /\ jobs' \in [Engines -> [Tasks -> Seq(JobType)]] /\ stage' = stage
      /\ \A u \in Tasks \ {t} : jobs'[e][u] = jobs[e][u]
      /\ QueueStands(e, t)'
  BY <1>0, <1>1, <1>2, AskedAside DEF Forget, engineVars
<1>4. stage[e][t] \notin {"create", "write"}
  BY <1>0, <1>1, NotSaving
<1>5. Removing(t) => Removing(t)'
  BY <1>3 DEF Removing
<1>6. ~Gone(e, t)
  BY <1>1 DEF Gone
<1> QED BY <1>0, <1>3, <1>4, <1>5, <1>6, AsideStands DEF Forget, engineVars, TypeOK

(* forget() finds no directory. *)
LEMMA ForgetUnknownStands ==
  ASSUME Alone, EngineStands, NEW e \in Engines, NEW t \in Tasks, ForgetUnknown(e, t)
  PROVE  EngineStands'
<1>0. TypeOK /\ QueueStands(e, t)
  BY DEF EngineStands
<1>1. jobs[e][t] # <<>> /\ Current(e, t).by = "forget" /\ stage[e][t] = "start"
  BY DEF ForgetUnknown, Doing
<1>2. /\ jobs' \in [Engines -> [Tasks -> Seq(JobType)]]
      /\ stage' \in [Engines -> [Tasks -> {"start", "create", "write", "rm"}]]
      /\ stage'[e][t] = "start" /\ stage[e][t] \notin {"create", "write"}
      /\ \A u \in Tasks \ {t} : jobs'[e][u] = jobs[e][u] /\ stage'[e][u] = stage[e][u]
      /\ QueueStands(e, t)'
      /\ \A who : Asked(e, t, who)' <=> Asked(e, t, who) /\ who # Current(e, t).by
  BY <1>0, <1>1, SettledAside DEF ForgetUnknown, engineVars, historyVars
<1>3. ~Removing(t) /\ (Gone(e, t) => ~Asked(e, t, "forget")')
  BY <1>1, <1>2, RemovingAlone
<1> QED BY <1>0, <1>2, <1>3, AsideStands DEF ForgetUnknown, engineVars, historyVars, TypeOK

(* forget() fails. *)
LEMMA ForgetFailsStands ==
  ASSUME Alone, EngineStands, NEW e \in Engines, NEW t \in Tasks, ForgetFails(e, t)
  PROVE  EngineStands'
<1>0. TypeOK /\ QueueStands(e, t)
  BY DEF EngineStands
<1>1. jobs[e][t] # <<>> /\ Current(e, t).by = "forget"
  BY DEF ForgetFails, Doing
<1>2. /\ jobs' \in [Engines -> [Tasks -> Seq(JobType)]]
      /\ stage' \in [Engines -> [Tasks -> {"start", "create", "write", "rm"}]]
      /\ stage'[e][t] = "start" /\ stage[e][t] \notin {"create", "write"}
      /\ \A u \in Tasks \ {t} : jobs'[e][u] = jobs[e][u] /\ stage'[e][u] = stage[e][u]
      /\ QueueStands(e, t)'
      /\ \A who : Asked(e, t, who)' <=> Asked(e, t, who) /\ who # Current(e, t).by
  BY <1>0, <1>1, SettledAside DEF ForgetFails, engineVars
<1>3. Removing(t) => t \in damaged'
  BY RemovingAlone DEF ForgetFails
<1>4. ~Gone(e, t)
  BY <1>0, <1>1, HeadFacts DEF Gone
<1>5. t \in disturbed /\ faults' \in 0 .. MaxFaults
  <2>1. Asked(e, t, "forget")
    BY <1>0, <1>1, HeadFacts
  <2>2. faults \in 0 .. MaxFaults /\ faults < MaxFaults /\ faults' = faults + 1
    BY <1>0 DEF TypeOK, ForgetFails, Fault
  <2> QED BY <1>0, <2>1, <2>2, JournalAssumption DEF QueueStands
<1>6. damaged' \in {damaged, damaged \cup {t}} /\ damaged' \subseteq disturbed'
  BY <1>0, <1>5 DEF ForgetFails, TypeOK
<1> QED BY <1>0, <1>2, <1>3, <1>4, <1>5, <1>6, AsideStands DEF ForgetFails, Fault, engineVars

(* A removal begins. *)
LEMMA RemoveBeginStands ==
  ASSUME Alone, EngineStands, NEW e \in Engines, NEW t \in Tasks, RemoveBegin(e, t),
         UNCHANGED <<engineVars, plans, called, damaged, disturbed>>
  PROVE  EngineStands'
<1>0. TypeOK /\ QueueStands(e, t)
  BY DEF EngineStands
<1>1. jobs[e][t] # <<>> /\ Current(e, t).by = "forget" /\ Current(e, t).op = "remove" /\ stage[e][t] = "start"
      /\ Asked(e, t, "forget")
  BY <1>0, HeadFacts DEF RemoveBegin, Doing
<1>2. /\ stage' \in [Engines -> [Tasks -> {"start", "create", "write", "rm"}]]
      /\ stage'[e][t] = "rm" /\ jobs' = jobs
      /\ \A u \in Tasks \ {t} : stage'[e][u] = stage[e][u]
  BY <1>0, PutFacts DEF TypeOK, RemoveBegin, Advance
<1>3. \A who : Asked(e, t, who)' <=> Asked(e, t, who)
  BY <1>2 DEF Asked
<1>4. Doing(e, t, "remove", "forget", "rm")'
  BY <1>1, <1>2 DEF Doing, Current
<1>5. QueueStands(e, t)'
  BY <1>0, <1>2, <1>3, <1>4 DEF QueueStands, engineVars
<1>6. ~Gone(e, t) /\ ~Removing(t)
  BY <1>1, RemovingAlone DEF Gone
<1> QED BY <1>0, <1>1, <1>2, <1>5, <1>6, AsideStands, ZenonT(40) DEF RemoveBegin, Advance, engineVars, TypeOK

(* A load for read() that finds no record to keep, or fails. *)
LEMMA ReadUnusedStands ==
  ASSUME Alone, EngineStands, NEW e \in Engines, NEW t \in Tasks, Doing(e, t, "load", "read", "start"),
         SettleJob(e, t, <<>>), UNCHANGED <<dirs, files, kept, memory, pc, plans, called, life, signal, stopped>>,
         faults' \in 0 .. MaxFaults, UNCHANGED <<damaged, disturbed>>
  PROVE  EngineStands'
<1>0. TypeOK /\ QueueStands(e, t)
  BY DEF EngineStands
<1>1. jobs[e][t] # <<>> /\ Current(e, t).by = "read" /\ stage[e][t] = "start"
  BY DEF Doing
<1>2. /\ jobs' \in [Engines -> [Tasks -> Seq(JobType)]]
      /\ stage' \in [Engines -> [Tasks -> {"start", "create", "write", "rm"}]]
      /\ stage'[e][t] = "start" /\ stage[e][t] \notin {"create", "write"}
      /\ \A u \in Tasks \ {t} : jobs'[e][u] = jobs[e][u] /\ stage'[e][u] = stage[e][u]
      /\ QueueStands(e, t)'
      /\ \A who : Asked(e, t, who)' <=> Asked(e, t, who) /\ who # Current(e, t).by
  BY <1>0, <1>1, SettledAside
<1>3. ~Removing(t) /\ (Gone(e, t) => ~Asked(e, t, "forget")')
  BY <1>1, <1>2, RemovingAlone DEF Gone
<1> QED BY <1>0, <1>2, <1>3, AsideStands DEF TypeOK
-----------------------------------------------------------------------------
(* A record that is read from the files. *)
LEMMA LatestStands ==
  ASSUME TypeOK, NEW t \in Tasks, FilesStand(t), Saved(t)
  PROVE  /\ Latest(t) \in Records /\ Normal(Latest(t)) /\ Revision(t) \in 1 .. MaxRevisions
         /\ Revision(t) <= Reaches(Latest(t)) /\ Has(t, Latest(t).id)
         /\ Loaded(Latest(t), Revision(t)) \in MemoryType /\ t \in dirs /\ Names(t) # {}
<1>1. /\ t \in dirs /\ Revision(t) >= 1 /\ Names(t) = 1 .. Revision(t) /\ Whole(t, Revision(t))
      /\ Latest(t) = files[t][Revision(t)] /\ Revision(t) \in 0 .. MaxRevisions /\ MaxRevisions \in Nat
  BY LatestFacts, NamesFacts, JournalAssumption
<1>2. Revision(t) \in 1 .. Revision(t) /\ Revision(t) \in 1 .. MaxRevisions
  BY <1>1
<1>3. Latest(t) \in Records /\ Normal(Latest(t)) /\ Revision(t) <= Reaches(Latest(t))
  BY <1>1, <1>2 DEF Whole, FilesStand
<1>4. Loaded(Latest(t), Revision(t)) \in MemoryType
  BY <1>1, <1>3 DEF Loaded, MemoryType
<1> QED BY <1>1, <1>2, <1>3, <1>4, LatestHas

(* What plan or run awaited settles. *)
LEMMA SettledMain ==
  ASSUME TypeOK, NEW e \in Engines, NEW t \in Tasks, QueueStands(e, t), jobs[e][t] # <<>>,
         Current(e, t).by = "main", SettleJob(e, t, <<>>), pc'[e][t] \notin LoadPoints \cup SavePoints
  PROVE  /\ jobs' \in [Engines -> [Tasks -> Seq(JobType)]]
         /\ stage' \in [Engines -> [Tasks -> {"start", "create", "write", "rm"}]]
         /\ stage'[e][t] = "start"
         /\ \A u \in Tasks \ {t} : jobs'[e][u] = jobs[e][u] /\ stage'[e][u] = stage[e][u]
         /\ QueueStands(e, t)' /\ ~Asked(e, t, "forget")'
<1>1. /\ jobs' \in [Engines -> [Tasks -> Seq(JobType)]]
      /\ stage' \in [Engines -> [Tasks -> {"start", "create", "write", "rm"}]]
      /\ stage'[e][t] = "start"
      /\ \A u \in Tasks \ {t} : jobs'[e][u] = jobs[e][u] /\ stage'[e][u] = stage[e][u]
      /\ Orderly(jobs'[e][t])
      /\ \A who : Asked(e, t, who)' <=> Asked(e, t, who) /\ who # "main"
  BY SettleFacts
<1>2. ~Asked(e, t, "forget")
  BY HeadFacts
<1>3. QueueStands(e, t)'
  BY <1>1, <1>2, QueueBuilt
<1> QED BY <1>1, <1>2, <1>3

(* plan or run returns. *)
LEMMA LeaveFacts ==
  ASSUME TypeOK, NEW e \in Engines, NEW t \in Tasks, NEW m \in MemoryType, Leave(e, t, m)
  PROVE  /\ memory' \in [Engines -> [Tasks -> MemoryType]] /\ pc' \in [Engines -> [Tasks -> Points]]
         /\ signal' \in [Engines -> [Tasks -> BOOLEAN]] /\ stopped' \in [Engines -> [Tasks -> BOOLEAN]]
         /\ pc'[e][t] = "idle" /\ memory'[e][t] = IF t \in kept[e] THEN m ELSE Unloaded
         /\ \A u \in Tasks \ {t} : memory'[e][u] = memory[e][u] /\ pc'[e][u] = pc[e][u]
         /\ Planning' \subseteq Planning
<1>1. PICK k \in MemoryType : k = IF t \in kept[e] THEN m ELSE Unloaded
  <2>1. 0 \in 0 .. MaxRevisions /\ FALSE \in BOOLEAN
    BY JournalAssumption
  <2> QED BY <2>1 DEF Unloaded, MemoryType
<1>2. memory' = [memory EXCEPT ![e][t] = k] /\ pc' = [pc EXCEPT ![e][t] = "idle"]
      /\ signal' = [signal EXCEPT ![e][t] = FALSE] /\ stopped' = [stopped EXCEPT ![e][t] = FALSE]
  BY <1>1 DEF Leave, Goto
<1>3. /\ memory' \in [Engines -> [Tasks -> MemoryType]] /\ memory'[e][t] = k
      /\ \A u \in Tasks \ {t} : memory'[e][u] = memory[e][u]
  BY <1>2, PutFacts DEF TypeOK
<1>4. /\ pc' \in [Engines -> [Tasks -> Points]] /\ pc'[e][t] = "idle"
      /\ \A u \in Tasks \ {t} : pc'[e][u] = pc[e][u]
      /\ \A d \in Engines, u \in Tasks : <<d, u>> # <<e, t>> => pc'[d][u] = pc[d][u]
  <2>1. "idle" \in Points
    BY DEF Points
  <2> QED BY <1>2, <2>1, PutFacts DEF TypeOK
<1>5. signal' \in [Engines -> [Tasks -> BOOLEAN]] /\ stopped' \in [Engines -> [Tasks -> BOOLEAN]]
  BY <1>2, PutFacts DEF TypeOK
<1>6. Planning' \subseteq Planning
  BY <1>4, PlanningSame
<1> QED BY <1>1, <1>3, <1>4, <1>5, <1>6

(* The record of a task that no call works on. *)
LEMMA RecordRests ==
  ASSUME NEW e \in Engines, NEW t \in Tasks, pc'[e][t] = "idle",
         t \in kept'[e] => memory'[e][t].record \in Records,
         t \notin kept'[e] => memory'[e][t] = Unloaded,
         t \in kept'[e] /\ ~memory'[e][t].failed =>
           /\ Normal(memory'[e][t].record) /\ memory'[e][t].revision \in Nat
           /\ memory'[e][t].revision <= Reaches(memory'[e][t].record) /\ memory'[e][t].revision >= 1
  PROVE  RecordStands(e, t)'
<1>1. pc'[e][t] \notin SavePoints /\ StatusAt(e, t)' /\ "idle" \notin LoadPoints /\ pc'[e][t] # "planSave"
  BY DEF SavePoints, StatusAt, LoadPoints
<1>2. memory'[e][t].record \in Records => t \in kept'[e]
  BY NoRecords DEF Unloaded
<1>3. memory'[e][t].record \in Records /\ ~memory'[e][t].failed => memory'[e][t].revision + 0 <= Reaches(memory'[e][t].record)
  BY <1>2
<1> QED BY <1>1, <1>2, <1>3 DEF RecordStands

(* A load after which plan or run returns. *)
LEMMA LoadLeaves ==
  ASSUME Alone, EngineStands, NEW e \in Engines, NEW t \in Tasks, Doing(e, t, "load", "main", "start"),
         SettleJob(e, t, <<>>), Leave(e, t, memory[e][t]),
         UNCHANGED <<dirs, files, kept, plans, called, life, damaged, disturbed>>, faults' \in 0 .. MaxFaults
  PROVE  EngineStands'
<1>0. TypeOK /\ QueueStands(e, t) /\ RecordStands(e, t) /\ SavesStand(e, t) /\ FilesStand(t) /\ CallsStand(t)
  BY DEF EngineStands
<1>1. /\ jobs[e][t] # <<>> /\ Current(e, t).by = "main" /\ Current(e, t).op = "load" /\ stage[e][t] = "start"
  BY DEF Doing
<1>2. pc[e][t] \in LoadPoints
  <2>1. Current(e, t) = IF pc[e][t] \in LoadPoints THEN LoadFor("main") ELSE SaveJob(memory[e][t])
    BY <1>0, <1>1, HeadFacts
  <2>2. SaveJob(memory[e][t]).op = "save"
    BY DEF SaveJob, Save
  <2> QED BY <1>1, <2>1, <2>2
<1>m. PICK m \in MemoryType : m = memory[e][t]
  BY <1>0 DEF TypeOK
<1>3. /\ memory' \in [Engines -> [Tasks -> MemoryType]] /\ pc' \in [Engines -> [Tasks -> Points]]
      /\ signal' \in [Engines -> [Tasks -> BOOLEAN]] /\ stopped' \in [Engines -> [Tasks -> BOOLEAN]]
      /\ pc'[e][t] = "idle" /\ memory'[e][t] = IF t \in kept[e] THEN m ELSE Unloaded
      /\ \A u \in Tasks \ {t} : memory'[e][u] = memory[e][u] /\ pc'[e][u] = pc[e][u]
      /\ Planning' \subseteq Planning
  <2>1. Leave(e, t, m)
    BY <1>m
  <2> QED BY <1>0, <2>1, LeaveFacts
<1>4. /\ jobs' \in [Engines -> [Tasks -> Seq(JobType)]]
      /\ stage' \in [Engines -> [Tasks -> {"start", "create", "write", "rm"}]]
      /\ stage'[e][t] = "start"
      /\ \A u \in Tasks \ {t} : jobs'[e][u] = jobs[e][u] /\ stage'[e][u] = stage[e][u]
      /\ QueueStands(e, t)'
  <2>1. pc'[e][t] \notin LoadPoints \cup SavePoints
    BY <1>3 DEF LoadPoints, SavePoints
  <2> QED BY <1>0, <1>1, <2>1, SettledMain
<1>5. plans' \in Nat /\ IsFiniteSet(Planning)' /\ (plans + Cardinality(Planning) <= MaxPlans)'
  BY <1>0, <1>3, PlanningFalls
<1>6. TypeOK'
  BY <1>0, <1>3, <1>4, <1>5 DEF TypeOK
<1>7. RecordStands(e, t)'
  <2>1. t \in kept[e] => m.record \in Records
    BY <1>0, <1>m DEF RecordStands
  <2>2. t \in kept[e] /\ ~m.failed => /\ Normal(m.record) /\ m.revision \in Nat
                                      /\ m.revision <= Reaches(m.record) /\ m.revision >= 1
    <3>1. pc[e][t] # "planSave" /\ pc[e][t] \notin SavePoints /\ m.revision \in Nat
      BY <1>2, <1>m, JournalAssumption DEF LoadPoints, SavePoints, MemoryType
    <3> QED BY <1>0, <1>m, <2>1, <3>1 DEF RecordStands
  <2> QED BY <1>3, <2>1, <2>2, RecordRests
<1>8. ~Removing(t) /\ ~Removing(t)'
  BY <1>1, <1>4, RemovingAlone
<1>9. SavesStand(e, t)'
  <2>1. Names(t)' = Names(t) /\ Revision(t)' = Revision(t) /\ Latest(t)' = Latest(t)
    BY <1>0, ReadAsBefore
  <2> QED BY <1>0, <1>m, <1>2, <1>3, <1>8, <2>1 DEF SavesStand, Shown, SavePoints, LoadPoints
<1>10. FilesStand(t)' /\ CallsStand(t)'
  <2>1. t \in kept'[e] /\ t \notin damaged' =>
          Covers(memory[e][t].record)' /\ (pc'[e][t] \in CallPoints => Round(e, t)' \notin called)
    BY <1>0, <1>m, <1>3 DEF CallsStand, Covers, CallPoints
  <2> QED BY <1>0, <1>8, <2>1, FilesKept, CallsKept
<1>11. \A id : Has(t, id)' => Has(t, id)
  <2>1. memory'[e][t].record \in Records => memory'[e][t] = memory[e][t]
    BY <1>m, <1>3, NoRecords DEF Unloaded
  <2> QED BY <1>0, <2>1, HasKept
<1>12. Elsewhere(e, t) /\ CalledFor(t)
  BY <1>3, <1>4 DEF Elsewhere, CalledFor
<1> QED BY <1>0, <1>4, <1>6, <1>7, <1>9, <1>10, <1>11, <1>12, Reassembled DEF Part, TypeOK

(* A load that fails. *)
LEMMA LoadFailsStands ==
  ASSUME Alone, EngineStands, NEW e \in Engines, NEW t \in Tasks, LoadFails(e, t)
  PROVE  EngineStands'
<1>1. faults' \in 0 .. MaxFaults
  BY JournalAssumption DEF LoadFails, Fault, EngineStands, TypeOK
<1>2. CASE Doing(e, t, "load", "main", "start")
  <2>1. Current(e, t).by = "main"
    BY <1>2 DEF Doing
  <2> QED BY <1>1, <1>2, <2>1, LoadLeaves DEF LoadFails, Fault
<1>3. CASE Doing(e, t, "load", "read", "start")
  <2>1. Current(e, t).by # "main"
    BY <1>3 DEF Doing
  <2> QED BY <1>1, <1>3, <2>1, ReadUnusedStands DEF LoadFails, Fault
<1> QED BY <1>2, <1>3 DEF LoadFails

(* A record that a load puts in the map. *)
LEMMA LoadKept ==
  ASSUME Alone, EngineStands, NEW e \in Engines, NEW t \in Tasks, Saved(t), stage[e][t] = "start",
         TypeOK', QueueStands(e, t)', stage'[e][t] = "start",
         UNCHANGED <<dirs, files, plans, called, damaged, disturbed>>,
         t \in kept'[e], \A u \in Tasks \ {t} : u \in kept'[e] <=> u \in kept[e],
         memory'[e][t] = Loaded(Latest(t), Revision(t)),
         pc'[e][t] \in {"ready", "idle"} \cup LoadPoints,
         \A u \in Tasks \ {t} : /\ jobs'[e][u] = jobs[e][u] /\ stage'[e][u] = stage[e][u]
                                /\ memory'[e][u] = memory[e][u] /\ pc'[e][u] = pc[e][u]
  PROVE  EngineStands'
<1>0. TypeOK /\ FilesStand(t) /\ CallsStand(t)
  BY DEF EngineStands
<1>1. /\ Latest(t) \in Records /\ Normal(Latest(t)) /\ Revision(t) \in 1 .. MaxRevisions
      /\ Revision(t) <= Reaches(Latest(t)) /\ Has(t, Latest(t).id)
  BY <1>0, LatestStands
<1>2. memory'[e][t].record = Latest(t) /\ memory'[e][t].revision = Revision(t) /\ ~memory'[e][t].failed
  BY DEF Loaded
<1>3. pc'[e][t] \notin SavePoints /\ pc'[e][t] # "planSave" /\ pc'[e][t] \notin CallPoints
  BY DEF SavePoints, LoadPoints, CallPoints
<1>4. RecordStands(e, t)'
  <2>1. StatusAt(e, t)'
    BY DEF StatusAt, LoadPoints
  <2>2. Revision(t) + 0 <= Reaches(Latest(t)) /\ Revision(t) >= 1
    BY <1>1
  <2> QED BY <1>1, <1>2, <1>3, <2>1, <2>2 DEF RecordStands
<1>5. ~Removing(t)
  BY RemovingAlone
<1>6. SavesStand(e, t)'
  <2>1. Revision(t)' = Revision(t) /\ Latest(t)' = Latest(t)
    BY <1>0, ReadAsBefore
  <2> QED BY <1>2, <1>3, <2>1 DEF SavesStand, Shown
<1>7. FilesStand(t)' /\ CallsStand(t)'
  <2>1. t \notin damaged => Covers(Latest(t))
    BY <1>0, <1>5 DEF CallsStand
  <2>2. t \in kept'[e] /\ t \notin damaged' =>
          Covers(memory[e][t].record)' /\ (pc'[e][t] \in CallPoints => Round(e, t)' \notin called)
    BY <1>2, <1>3, <2>1 DEF Covers
  <2> QED BY <1>0, <1>5, <2>2, FilesKept, CallsKept
<1>8. \A id : Has(t, id)' => Has(t, id)
  BY <1>0, <1>1, <1>2, HasKept
<1>9. Elsewhere(e, t) /\ CalledFor(t)
  BY DEF Elsewhere, CalledFor
<1> QED BY <1>0, <1>4, <1>6, <1>7, <1>8, <1>9, Reassembled DEF Part, TypeOK

(* A load for read(). *)
LEMMA ReadLoadedStands ==
  ASSUME Alone, EngineStands, NEW e \in Engines, NEW t \in Tasks, ReadLoaded(e, t)
  PROVE  EngineStands'
<1>0. TypeOK /\ QueueStands(e, t) /\ RecordStands(e, t) /\ FilesStand(t)
  BY DEF EngineStands
<1>1. CASE ~(Saved(t) /\ t \notin kept[e])
  <2>1. UNCHANGED <<kept, memory>>
    BY <1>1 DEF ReadLoaded
  <2>2. faults' \in 0 .. MaxFaults
    BY <1>0 DEF TypeOK, ReadLoaded
  <2> QED BY <2>1, <2>2, ReadUnusedStands DEF ReadLoaded, historyVars
<1>2. CASE Saved(t) /\ t \notin kept[e]
  <2>1. /\ jobs[e][t] # <<>> /\ Current(e, t).by = "read" /\ stage[e][t] = "start"
    BY DEF Doing, ReadLoaded
  <2>2. pc[e][t] \in {"idle"} \cup LoadPoints
    BY <1>0, <1>2, LatestStands DEF RecordStands, Gone
  <2>3. /\ jobs' \in [Engines -> [Tasks -> Seq(JobType)]]
        /\ stage' \in [Engines -> [Tasks -> {"start", "create", "write", "rm"}]]
        /\ stage'[e][t] = "start"
        /\ \A u \in Tasks \ {t} : jobs'[e][u] = jobs[e][u] /\ stage'[e][u] = stage[e][u]
        /\ QueueStands(e, t)'
    <3>1. pc[e][t] \notin SavePoints
      BY <2>2 DEF LoadPoints, SavePoints
    <3> QED BY <1>0, <2>1, <3>1, SettledAside DEF ReadLoaded, historyVars
  <2>m. PICK m \in MemoryType : m = Loaded(Latest(t), Revision(t))
    BY <1>0, <1>2, LatestStands
  <2>4. /\ memory' \in [Engines -> [Tasks -> MemoryType]] /\ memory'[e][t] = m
        /\ \A u \in Tasks \ {t} : memory'[e][u] = memory[e][u]
    <3>1. memory' = [memory EXCEPT ![e][t] = m]
      BY <1>2, <2>m DEF ReadLoaded
    <3> QED BY <1>0, <3>1, PutFacts DEF TypeOK
  <2>5. kept' \in [Engines -> SUBSET Tasks] /\ kept'[e] = kept[e] \cup {t}
    <3>1. PICK k \in SUBSET Tasks : k = kept[e] \cup {t}
      BY <1>0 DEF TypeOK
    <3>2. kept' = [kept EXCEPT ![e] = k]
      BY <1>2, <3>1 DEF ReadLoaded
    <3> QED BY <1>0, <3>1, <3>2 DEF TypeOK
  <2>6. TypeOK'
    BY <1>0, <2>3, <2>4, <2>5 DEF ReadLoaded, TypeOK, historyVars, Planning
  <2> QED BY <1>2, <2>1, <2>2, <2>3, <2>m, <2>4, <2>5, <2>6, LoadKept DEF ReadLoaded, historyVars
<1> QED BY <1>1, <1>2

(* The load of run(). *)
LEMMA RunLoadedStands ==
  ASSUME Alone, EngineStands, NEW e \in Engines, NEW t \in Tasks, RunLoaded(e, t)
  PROVE  EngineStands'
<1>0. TypeOK /\ QueueStands(e, t) /\ RecordStands(e, t) /\ SavesStand(e, t) /\ FilesStand(t) /\ CallsStand(t)
  BY DEF EngineStands
<1>1. /\ jobs[e][t] # <<>> /\ Current(e, t).by = "main" /\ stage[e][t] = "start" /\ pc[e][t] = "load"
  BY DEF Doing, RunLoaded
<1>2. CASE ~Saved(t)
  <2>1. faults' \in 0 .. MaxFaults
    BY <1>0 DEF TypeOK, RunLoaded
  <2> QED BY <1>2, <2>1, LoadLeaves DEF RunLoaded, historyVars
<1>3. CASE Saved(t)
  <2>1. /\ pc' \in [Engines -> [Tasks -> Points]] /\ pc'[e][t] = "ready"
        /\ \A u \in Tasks \ {t} : pc'[e][u] = pc[e][u]
        /\ \A d \in Engines, u \in Tasks : <<d, u>> # <<e, t>> => pc'[d][u] = pc[d][u]
    <3>1. "ready" \in Points /\ pc \in [Engines -> [Tasks -> Points]]
      BY <1>0 DEF Points, TypeOK
    <3>2. pc' = [pc EXCEPT ![e][t] = "ready"]
      BY <1>3 DEF RunLoaded, Goto
    <3> QED BY <3>1, <3>2, PutFacts
  <2>2. /\ jobs' \in [Engines -> [Tasks -> Seq(JobType)]]
        /\ stage' \in [Engines -> [Tasks -> {"start", "create", "write", "rm"}]]
        /\ stage'[e][t] = "start"
        /\ \A u \in Tasks \ {t} : jobs'[e][u] = jobs[e][u] /\ stage'[e][u] = stage[e][u]
        /\ QueueStands(e, t)'
    <3>1. pc'[e][t] \notin LoadPoints \cup SavePoints
      BY <2>1 DEF LoadPoints, SavePoints
    <3> QED BY <1>0, <1>1, <3>1, SettledMain DEF RunLoaded
  <2>m. PICK m \in MemoryType : m = IF t \in kept[e] THEN memory[e][t] ELSE Loaded(Latest(t), Revision(t))
    BY <1>0, <1>3, LatestStands DEF TypeOK
  <2>3. /\ memory' \in [Engines -> [Tasks -> MemoryType]] /\ memory'[e][t] = m
        /\ \A u \in Tasks \ {t} : memory'[e][u] = memory[e][u]
    <3>1. CASE t \in kept[e]
      BY <1>0, <1>3, <2>m, <3>1 DEF RunLoaded, TypeOK
    <3>2. CASE t \notin kept[e]
      <4>1. memory' = [memory EXCEPT ![e][t] = m]
        BY <1>3, <2>m, <3>2 DEF RunLoaded
      <4> QED BY <1>0, <4>1, PutFacts DEF TypeOK
    <3> QED BY <3>1, <3>2
  <2>4. kept' \in [Engines -> SUBSET Tasks] /\ kept'[e] = kept[e] \cup {t}
    <3>1. PICK k \in SUBSET Tasks : k = kept[e] \cup {t}
      BY <1>0 DEF TypeOK
    <3>2. kept' = [kept EXCEPT ![e] = k]
      BY <1>3, <3>1 DEF RunLoaded
    <3> QED BY <1>0, <3>1, <3>2 DEF TypeOK
  <2>5. plans' \in Nat /\ IsFiniteSet(Planning)' /\ (plans + Cardinality(Planning) <= MaxPlans)'
    <3>1. Planning' \subseteq Planning
      BY <1>0, <2>1, PlanningSame
    <3> QED BY <1>0, <3>1, PlanningFalls DEF RunLoaded, historyVars
  <2>6. TypeOK'
    BY <1>0, <1>3, <2>1, <2>2, <2>3, <2>4, <2>5 DEF RunLoaded, TypeOK, historyVars
  <2>7. CASE t \notin kept[e]
    BY <1>1, <1>3, <2>1, <2>2, <2>m, <2>3, <2>4, <2>6, <2>7, LoadKept DEF RunLoaded, historyVars
  <2>8. CASE t \in kept[e]
    <3>1. memory'[e][t] = memory[e][t] /\ kept'[e] = kept[e]
      BY <2>m, <2>3, <2>4, <2>8
    <3>2. ~Removing(t)
      BY <1>1, RemovingAlone
    <3>3. RecordStands(e, t)'
      BY <1>0, <1>1, <2>1, <2>8, <3>1 DEF RecordStands, StatusAt, LoadPoints, SavePoints
    <3>4. SavesStand(e, t)'
      <4>1. Names(t)' = Names(t) /\ Revision(t)' = Revision(t) /\ Latest(t)' = Latest(t)
        BY <1>0, ReadAsBefore DEF RunLoaded
      <4> QED BY <1>0, <1>1, <2>1, <3>1, <3>2, <4>1 DEF SavesStand, Shown, SavePoints, RunLoaded, historyVars
    <3>5. FilesStand(t)' /\ CallsStand(t)'
      <4>1. t \in kept'[e] /\ t \notin damaged' =>
              Covers(memory[e][t].record)' /\ (pc'[e][t] \in CallPoints => Round(e, t)' \notin called)
        BY <1>0, <2>1, <3>1 DEF CallsStand, Covers, CallPoints, RunLoaded, historyVars
      <4> QED BY <1>0, <3>2, <4>1, FilesKept, CallsKept DEF RunLoaded, historyVars
    <3>6. \A id : Has(t, id)' => Has(t, id)
      BY <1>0, <3>1, HasKept DEF RunLoaded
    <3>7. Elsewhere(e, t) /\ CalledFor(t)
      <4>1. UNCHANGED <<dirs, files, called, damaged, disturbed>>
        BY DEF RunLoaded, historyVars
      <4> QED BY <2>1, <2>2, <2>3, <3>1, <4>1 DEF Elsewhere, CalledFor
    <3>8. Part(e, t)' /\ plans' >= plans
      BY <1>0, <2>2, <3>3, <3>4, <3>5 DEF Part, TypeOK, RunLoaded, historyVars
    <3> QED BY <2>6, <3>6, <3>7, <3>8, Reassembled
  <2> QED BY <2>7, <2>8
<1> QED BY <1>2, <1>3

(* A task without files has no record. *)
LEMMA NothingSaved ==
  ASSUME TypeOK, NEW t \in Tasks, FilesStand(t), Latest(t) = NoRecord
  PROVE  Names(t) = {} /\ ~Saved(t)
<1>1. Names(t) = {}
  <2> SUFFICES ASSUME Names(t) # {} PROVE FALSE
    OBVIOUS
  <2>1. t \in dirs
    BY DEF FilesStand
  <2>2. CASE Chained(t)
    <3>1. Latest(t) = files[t][Revision(t)]
      BY <2>1, <2>2 DEF Latest
    <3>2. Revision(t) \in Names(t)
      BY <2>2, NamesFacts DEF Chained
    <3> QED BY <2>2, <3>1, <3>2, NoRecords DEF Chained
  <2>3. CASE ~Chained(t)
    BY <2>1, <2>3, NoRecords DEF Latest
  <2> QED BY <2>2, <2>3
<1> QED BY <1>1, NoRecords DEF Saved

(* The load of plan(), and its first save. *)
LEMMA PlanLoadedStands ==
  ASSUME Alone, EngineStands, NEW e \in Engines, NEW t \in Tasks, PlanLoaded(e, t)
  PROVE  EngineStands'
<1>0. TypeOK /\ QueueStands(e, t) /\ RecordStands(e, t) /\ SavesStand(e, t) /\ FilesStand(t) /\ CallsStand(t)
  BY DEF EngineStands
<1>1. /\ jobs[e][t] # <<>> /\ Current(e, t).by = "main" /\ stage[e][t] = "start" /\ pc[e][t] = "planLoad"
  BY DEF Doing, PlanLoaded
<1>u. UNCHANGED <<dirs, files, faults, life, called, damaged, disturbed>>
  BY DEF PlanLoaded
<1>2. CASE Latest(t) # NoRecord
  <2>1. faults' \in 0 .. MaxFaults
    BY <1>0, <1>u DEF TypeOK
  <2> QED BY <1>2, <2>1, LoadLeaves DEF PlanLoaded
<1>3. CASE Latest(t) = NoRecord
  <2>1. Names(t) = {} /\ ~Saved(t)
    BY <1>0, <1>3, NothingSaved
  <2>2. /\ plans' = plans + 1 /\ plans + 1 \in 1 .. MaxPlans
        /\ plans' \in Nat /\ IsFiniteSet(Planning)' /\ (plans + Cardinality(Planning) <= MaxPlans)'
        /\ pc' \in [Engines -> [Tasks -> Points]] /\ pc'[e][t] = "planSave"
        /\ \A u \in Tasks \ {t} : pc'[e][u] = pc[e][u]
    <3>1. "planSave" \in Points /\ pc' = [pc EXCEPT ![e][t] = "planSave"] /\ plans' = plans + 1
      BY <1>3 DEF Points, SavePoints, PlanLoaded, Goto
    <3>2. /\ pc' \in [Engines -> [Tasks -> Points]] /\ pc'[e][t] = "planSave"
          /\ \A u \in Tasks \ {t} : pc'[e][u] = pc[e][u]
          /\ \A d \in Engines, u \in Tasks : <<d, u>> # <<e, t>> => pc'[d][u] = pc[d][u]
      BY <1>0, <3>1, PutFacts DEF TypeOK
    <3>3. Planning' = Planning \ {<<e, t>>} /\ <<e, t>> \in Planning
      BY <1>1, <3>2 DEF Planning
    <3>4. IsFiniteSet(Planning) /\ plans \in Nat /\ plans + Cardinality(Planning) <= MaxPlans /\ MaxPlans \in Nat
      BY <1>0, JournalAssumption DEF TypeOK
    <3>5. IsFiniteSet(Planning') /\ Cardinality(Planning') = Cardinality(Planning) - 1 /\ Cardinality(Planning') \in Nat
          /\ Cardinality(Planning) \in Nat
      BY <3>3, <3>4, FS_RemoveElement, FS_CardinalityType
    <3> QED BY <3>1, <3>2, <3>4, <3>5
  <2>r. PICK r : r = [id |-> plans + 1, status |-> "PLANNED", rounds |-> 0, last |-> "none"]
    OBVIOUS
  <2>3. r \in Records /\ Normal(r) /\ Initial(r) /\ Reaches(r) = 1 /\ r.id = plans + 1
    BY <2>2, <2>r, JournalAssumption DEF Records, Statuses, Normal, Initial, Reaches
  <2>m. PICK m \in MemoryType : m = Loaded(r, 0)
    <3>1. 0 \in 0 .. MaxRevisions /\ FALSE \in BOOLEAN /\ r \in Records \cup {NoRecord}
      BY <2>3, JournalAssumption
    <3>2. Loaded(r, 0) \in MemoryType
      BY <3>1 DEF Loaded, MemoryType
    <3> QED BY <3>2
  <2>4. m.record = r /\ m.revision = 0 /\ m.failed = FALSE
    BY <2>m DEF Loaded
  <2>5. /\ memory' \in [Engines -> [Tasks -> MemoryType]] /\ memory'[e][t] = m
        /\ \A u \in Tasks \ {t} : memory'[e][u] = memory[e][u]
    <3>1. memory' = [memory EXCEPT ![e][t] = m]
      BY <1>3, <2>r, <2>m DEF PlanLoaded
    <3> QED BY <1>0, <3>1, PutFacts DEF TypeOK
  <2>j. PICK job \in JobType : job = SaveJob(m)
    <3>1. SaveJob(m) \in [op : {"save"}, by : {"main"}, record : Records, expected : 0 .. MaxRevisions]
      BY <2>3, <2>4, JournalAssumption DEF SaveJob, Save
    <3> QED BY <3>1 DEF JobType
  <2>q. PICK q \in Seq(JobType) : q = jobs[e][t]
    BY <1>0 DEF TypeOK
  <2>6. /\ Tail(q) \in Seq(JobType) /\ Orderly(Tail(q)) /\ ~Has1(Tail(q), "main") /\ ~Has1(Tail(q), "forget")
    BY <1>0, <1>1, <2>q, HeadFacts, TailFacts DEF Current
  <2>7. job.by = "main"
    BY <2>j DEF SaveJob, Save
  <2>8. /\ Append(Tail(q), job) \in Seq(JobType) /\ Orderly(Append(Tail(q), job))
        /\ \A who : Has1(Append(Tail(q), job), who) <=> Has1(Tail(q), who) \/ who = "main"
        /\ MainIs(Append(Tail(q), job), job)
    <3>1. MainIs(Tail(q), job)
      BY <2>6 DEF MainIs, Has1
    <3> QED BY <2>6, <2>7, <3>1, AppendFacts
  <2>9. /\ jobs' \in [Engines -> [Tasks -> Seq(JobType)]] /\ jobs'[e][t] = Append(Tail(q), job)
        /\ stage' \in [Engines -> [Tasks -> {"start", "create", "write", "rm"}]] /\ stage'[e][t] = "start"
        /\ \A u \in Tasks \ {t} : jobs'[e][u] = jobs[e][u] /\ stage'[e][u] = stage[e][u]
    <3>1. SettleJob(e, t, <<job>>)
      BY <1>3, <2>r, <2>m, <2>j DEF PlanLoaded
    <3>2. Tail(q) \o <<job>> = Append(Tail(q), job)
      BY <2>6, AppendProperties
    <3>3. jobs' = [jobs EXCEPT ![e][t] = Append(Tail(q), job)] /\ stage' = [stage EXCEPT ![e][t] = "start"]
      BY <2>q, <3>1, <3>2 DEF SettleJob
    <3>4. /\ jobs' \in [Engines -> [Tasks -> Seq(JobType)]] /\ jobs'[e][t] = Append(Tail(q), job)
          /\ \A u \in Tasks \ {t} : jobs'[e][u] = jobs[e][u]
      BY <1>0, <2>8, <3>3, PutFacts DEF TypeOK
    <3>5. /\ stage' \in [Engines -> [Tasks -> {"start", "create", "write", "rm"}]] /\ stage'[e][t] = "start"
          /\ \A u \in Tasks \ {t} : stage'[e][u] = stage[e][u]
      BY <1>0, <3>3, PutFacts DEF TypeOK
    <3> QED BY <3>4, <3>5
  <2>10. kept' \in [Engines -> SUBSET Tasks] /\ kept'[e] = kept[e] \cup {t}
    <3>1. PICK k \in SUBSET Tasks : k = kept[e] \cup {t}
      BY <1>0 DEF TypeOK
    <3>2. kept' = [kept EXCEPT ![e] = k]
      BY <1>3, <3>1 DEF PlanLoaded
    <3> QED BY <1>0, <3>1, <3>2 DEF TypeOK
  <2>11. TypeOK'
    <3>1. signal' = signal /\ stopped' = stopped
      BY <1>3 DEF PlanLoaded
    <3>2. called' \in SUBSET ((1 .. plans') \X (1 .. MaxRounds))
      BY <1>0, <1>u, <2>2 DEF TypeOK
    <3> QED BY <1>0, <1>u, <2>2, <2>5, <2>9, <2>10, <3>1, <3>2 DEF TypeOK
  <2>12. QueueStands(e, t)'
    <3>1. \A who : Asked(e, t, who)' <=> Has1(jobs'[e][t], who)
      BY DEF Asked, Has1
    <3>2. Asked(e, t, "main")' /\ ~Asked(e, t, "forget")'
      BY <2>6, <2>8, <2>9, <3>1
    <3>3. MainIs(jobs'[e][t], SaveJob(memory'[e][t]))
      BY <2>5, <2>j, <2>8, <2>9
    <3>4. "planSave" \in SavePoints /\ "planSave" \notin LoadPoints
      BY DEF SavePoints, LoadPoints
    <3> QED BY <2>2, <2>8, <2>9, <3>2, <3>3, <3>4, QueueBuilt
  <2>13. RecordStands(e, t)'
    <3>1. StatusAt(e, t)'
      BY <2>2, <2>3, <2>4, <2>5 DEF StatusAt
    <3> QED BY <2>2, <2>3, <2>4, <2>5, <2>10, <3>1 DEF RecordStands
  <2>14. Names(t)' = {} /\ ~Removing(t)
    BY <1>0, <1>1, <1>u, <2>1, ReadAsBefore, RemovingAlone
  <2>15. SavesStand(e, t)'
    <3>1. Follower(e, t)'
      BY <2>3, <2>4, <2>5, <2>9, <2>14 DEF Follower, Whole
    <3> QED BY <2>2, <3>1 DEF SavesStand, SavePoints
  <2>16. FilesStand(t)' /\ CallsStand(t)'
    <3>1. \A k : <<plans + 1, k>> \notin called
      BY <1>0 DEF TypeOK
    <3>2. Covers(memory[e][t].record)' /\ pc'[e][t] \notin CallPoints
      BY <1>u, <2>2, <2>3, <2>4, <2>5, <3>1 DEF Covers, CallPoints
    <3> QED BY <1>0, <1>u, <2>14, <3>2, FilesKept, CallsKept
  <2>17. \A id \in 1 .. MaxPlans : Has(t, id)' => Has(t, id) \/ (id = plans + 1 /\ plans' = plans + 1)
    BY <2>2, <2>3, <2>4, <2>5, <2>14, RemovingAlone
  <2>18. Elsewhere(e, t) /\ CalledFor(t)
    BY <1>u, <2>2, <2>5, <2>9, <2>10 DEF Elsewhere, CalledFor
  <2>19. Part(e, t)' /\ plans' >= plans
    BY <1>0, <2>2, <2>12, <2>13, <2>15, <2>16 DEF Part, TypeOK
  <2> QED BY <2>11, <2>17, <2>18, <2>19, Reassembled
<1> QED BY <1>2, <1>3
-----------------------------------------------------------------------------
(* The record that a run works on between its saves. *)
LEMMA WorksOnRecord ==
  ASSUME TypeOK, NEW e \in Engines, NEW t \in Tasks, RecordStands(e, t),
         pc[e][t] \in {"ready", "head", "prepare", "call", "stream"}, pc[e][t] = "ready" => ~memory[e][t].failed
  PROVE  /\ InMemory(memory[e][t]) /\ ~memory[e][t].failed
         /\ t \notin kept[e] => pc[e][t] \in {"ready", "head"} /\ Gone(e, t)
<1>1. pc[e][t] \notin SavePoints /\ pc[e][t] \notin LoadPoints /\ pc[e][t] # "idle" /\ pc[e][t] # "planSave"
  BY DEF SavePoints, LoadPoints
<1>2. memory[e][t].record \in Records /\ (t \notin kept[e] => Gone(e, t))
  BY <1>1 DEF RecordStands, Gone
<1>3. ~memory[e][t].failed
  BY <1>1 DEF RecordStands
<1>4. memory[e][t] \in MemoryType /\ memory[e][t].revision \in Nat
  BY JournalAssumption DEF TypeOK, MemoryType
<1>5. /\ Normal(memory[e][t].record) /\ memory[e][t].revision >= 1
      /\ memory[e][t].revision + 0 <= Reaches(memory[e][t].record)
  BY <1>1, <1>2, <1>3 DEF RecordStands
<1>6. memory[e][t].revision + 0 = memory[e][t].revision
  BY <1>4
<1> QED BY <1>1, <1>2, <1>3, <1>4, <1>5, <1>6 DEF InMemory, Gone

(* save(): the record in memory changes, and the journal is asked to take it. *)
LEMMA SaveAsStands ==
  ASSUME Alone, EngineStands, NEW e \in Engines, NEW t \in Tasks, NEW n \in MemoryType,
         NEW p \in SavePoints \ {"planSave"},
         SaveAs(e, t, n, p),
         pc[e][t] \in {"ready", "head", "prepare", "call", "stream"}, pc[e][t] = "ready" => ~memory[e][t].failed,
         Moves(memory[e][t], n),
         pc[e][t] \in {"ready", "head"} => p \in {"recover", "limit", "commit"},
         p = "commit" => n.record.status = "ATTEMPT_COMMITTED" /\ n.record.rounds = memory[e][t].record.rounds + 1,
         p = "running" => pc[e][t] = "prepare" /\ n.record.rounds = memory[e][t].record.rounds,
         p \in {"running", "checkpoint"} => n.record.status = "RUNNING",
         p = "catch" => n.record.status = "INTERRUPTED_UNCERTAIN",
         UNCHANGED <<dirs, files, faults, life, kept, plans, called, damaged, disturbed>>,
         signal' \in [Engines -> [Tasks -> BOOLEAN]], stopped' \in [Engines -> [Tasks -> BOOLEAN]]
  PROVE  EngineStands'
<1>0. TypeOK /\ QueueStands(e, t) /\ RecordStands(e, t) /\ SavesStand(e, t) /\ FilesStand(t) /\ CallsStand(t)
  BY DEF EngineStands
<1>1. /\ InMemory(memory[e][t]) /\ ~memory[e][t].failed
      /\ t \notin kept[e] => pc[e][t] \in {"ready", "head"} /\ Gone(e, t)
  BY <1>0, WorksOnRecord
<1>2. /\ n.record \in Records /\ Normal(n.record) /\ n.revision = memory[e][t].revision /\ ~n.failed
      /\ n.record.id = memory[e][t].record.id /\ n.record.rounds >= memory[e][t].record.rounds
      /\ Follows(memory[e][t].record, n.record) /\ n.revision + 1 <= Reaches(n.record)
      /\ n.revision >= 1 /\ memory[e][t].record \in Records /\ n.revision \in 0 .. MaxRevisions
  BY <1>1 DEF Moves, InMemory, MemoryType
<1>3. pc[e][t] \notin SavePoints /\ pc[e][t] \notin LoadPoints /\ ~Asked(e, t, "main")
      /\ stage[e][t] \notin {"create", "write"}
      /\ (Asked(e, t, "forget") => p \in BesideForget /\ t \in disturbed)
  <2>1. pc[e][t] \notin SavePoints /\ pc[e][t] \notin LoadPoints
    BY DEF SavePoints, LoadPoints
  <2>2. ~Asked(e, t, "main")
    BY <1>0, <2>1 DEF QueueStands
  <2>3. stage[e][t] \notin {"create", "write"}
    BY <1>0, <2>2, NotSaving
  <2>4. Asked(e, t, "forget") => p \in BesideForget /\ t \in disturbed
    BY <1>0 DEF QueueStands, BesideForget, LoadPoints
  <2> QED BY <2>1, <2>2, <2>3, <2>4
<1>j. PICK job \in JobType : job = SaveJob(n)
  <2>1. SaveJob(n) \in [op : {"save"}, by : {"main"}, record : Records, expected : 0 .. MaxRevisions]
    BY <1>2 DEF SaveJob, Save
  <2> QED BY <2>1 DEF JobType
<1>4. job.by = "main"
  BY <1>j DEF SaveJob, Save
<1>5. /\ jobs' \in [Engines -> [Tasks -> Seq(JobType)]]
      /\ \A u \in Tasks \ {t} : jobs'[e][u] = jobs[e][u]
      /\ Orderly(jobs'[e][t])
      /\ \A who : Asked(e, t, who)' <=> Asked(e, t, who) \/ who = "main"
      /\ MainIs(jobs'[e][t], job)
      /\ \A op, who, at : Doing(e, t, op, who, at) => Doing(e, t, op, who, at)'
      /\ stage' = stage
  <2>1. Ask(e, t, job)
    BY <1>j DEF SaveAs
  <2> QED BY <1>0, <1>3, <1>4, <2>1, AskFacts
<1>6. /\ pc' \in [Engines -> [Tasks -> Points]] /\ pc'[e][t] = p
      /\ \A u \in Tasks \ {t} : pc'[e][u] = pc[e][u]
      /\ \A d \in Engines, u \in Tasks : <<d, u>> # <<e, t>> => pc'[d][u] = pc[d][u]
  <2>1. p \in Points /\ pc' = [pc EXCEPT ![e][t] = p]
    BY DEF Points, SaveAs, Goto
  <2> QED BY <1>0, <2>1, PutFacts DEF TypeOK
<1>7. /\ memory' \in [Engines -> [Tasks -> MemoryType]] /\ memory'[e][t] = n
      /\ \A u \in Tasks \ {t} : memory'[e][u] = memory[e][u]
  <2>1. memory' = [memory EXCEPT ![e][t] = n]
    BY DEF SaveAs
  <2> QED BY <1>0, <2>1, PutFacts DEF TypeOK
<1>8. TypeOK'
  <2>1. p # "planLoad"
    BY DEF SavePoints
  <2>2. Planning' \subseteq Planning
    BY <1>0, <1>6, <2>1, PlanningSame
  <2>3. plans' \in Nat /\ IsFiniteSet(Planning)' /\ (plans + Cardinality(Planning) <= MaxPlans)'
    BY <1>0, <2>2, PlanningFalls
  <2> QED BY <1>0, <1>5, <1>6, <1>7, <2>3 DEF TypeOK
<1>9. QueueStands(e, t)'
  <2>1. MainIs(jobs'[e][t], SaveJob(memory'[e][t]))
    BY <1>j, <1>5, <1>7
  <2>2. p \notin LoadPoints
    BY DEF LoadPoints, SavePoints
  <2>3. stage'[e][t] = "rm" => Doing(e, t, "remove", "forget", "rm")'
    BY <1>0, <1>5 DEF QueueStands
  <2> QED BY <1>3, <1>5, <1>6, <2>1, <2>2, <2>3, QueueBuilt
<1>10. /\ Names(t)' = Names(t) /\ Revision(t)' = Revision(t) /\ Latest(t)' = Latest(t)
       /\ (\A k : Whole(t, k)' <=> Whole(t, k)) /\ (Removing(t)' <=> Removing(t))
  <2>1. Removing(t)' <=> Removing(t)
    BY <1>5 DEF Removing
  <2> QED BY <1>0, <2>1, ReadAsBefore
<1>11. RecordStands(e, t)'
  <2>1. StatusAt(e, t)'
    BY <1>6, <1>7 DEF StatusAt, SavePoints
  <2>2. t \notin kept'[e] => Gone(e, t)'
    BY <1>1, <1>2, <1>5, <1>6, <1>7, <1>10, SMTT(30) DEF Gone
  <2> QED BY <1>2, <1>6, <1>7, <2>1, <2>2 DEF RecordStands
<1>12. SavesStand(e, t)'
  <2> SUFFICES ASSUME t \in kept[e], ~Removing(t), t \notin damaged PROVE Follower(e, t)'
    BY <1>6, <1>7, <1>10 DEF SavesStand
  <2>1. Latest(t) = memory[e][t].record /\ Revision(t) = memory[e][t].revision
    BY <1>0, <1>1, <1>3 DEF SavesStand, Shown
  <2>2. Saved(t)
    BY <1>2, <2>1 DEF Saved
  <2>3. Names(t) = 1 .. Revision(t) /\ Whole(t, Revision(t)) /\ Latest(t) = files[t][Revision(t)]
    BY <1>0, <2>2, LatestFacts
  <2> QED BY <1>2, <1>3, <1>5, <1>7, <1>10, <2>1, <2>3 DEF Follower
<1>13. FilesStand(t)' /\ CallsStand(t)'
  <2>1. ASSUME t \in kept'[e], t \notin damaged'
        PROVE  Covers(memory[e][t].record)' /\ (pc'[e][t] \in CallPoints => Round(e, t)' \notin called)
    <3>1. Covers(memory[e][t].record) /\ (pc[e][t] \in CallPoints => Round(e, t) \notin called)
      BY <1>0, <2>1 DEF CallsStand, CallPoints, Round
    <3>2. memory[e][t].record.rounds \in Nat /\ n.record.rounds \in 0 .. MaxRounds /\ MaxRounds \in Nat
      BY <1>2, JournalAssumption DEF Records
    <3>3. Covers(memory[e][t].record)'
      <4> SUFFICES ASSUME NEW k \in 1 .. MaxRounds, <<n.record.id, k>> \in called PROVE k <= n.record.rounds
        BY <1>7 DEF Covers
      <4>1. k <= memory[e][t].record.rounds
        BY <1>2, <3>1 DEF Covers
      <4> QED BY <1>2, <3>2, <4>1
    <3>4. CASE p = "commit"
      <4>1. n.record.rounds \in 1 .. MaxRounds /\ ~(n.record.rounds <= memory[e][t].record.rounds)
        BY <3>2, <3>4
      <4>2. <<n.record.id, n.record.rounds>> \notin called
        BY <1>2, <3>1, <4>1 DEF Covers
      <4> QED BY <1>7, <3>3, <4>2 DEF Round
    <3>5. CASE p = "running"
      BY <1>2, <1>7, <3>1, <3>3, <3>5 DEF Round, CallPoints
    <3>6. CASE p \notin {"commit", "running"}
      BY <1>6, <3>3, <3>6 DEF CallPoints, SavePoints
    <3> QED BY <3>4, <3>5, <3>6
  <2> QED BY <1>0, <1>10, <2>1, FilesKept, CallsKept
<1>14. \A id : Has(t, id)' => Has(t, id)
  BY <1>0, <1>2, <1>7, HasKept
<1>15. Elsewhere(e, t) /\ CalledFor(t)
  BY <1>5, <1>6, <1>7 DEF Elsewhere, CalledFor
<1>16. Part(e, t)' /\ plans' >= plans
  BY <1>0, <1>9, <1>11, <1>12, <1>13 DEF Part, TypeOK
<1> QED BY <1>8, <1>14, <1>15, <1>16, Reassembled

(* A run that returns before it saves anything more. *)
LEMMA HereLeaves ==
  ASSUME Alone, EngineStands, NEW e \in Engines, NEW t \in Tasks, pc[e][t] \in {"ready", "head"},
         Leave(e, t, memory[e][t]),
         UNCHANGED <<dirs, files, faults, jobs, stage, life, kept, plans, called, damaged, disturbed>>
  PROVE  EngineStands'
<1>0. TypeOK /\ QueueStands(e, t) /\ RecordStands(e, t) /\ SavesStand(e, t) /\ FilesStand(t) /\ CallsStand(t)
  BY DEF EngineStands
<1>1. pc[e][t] \notin SavePoints /\ pc[e][t] \notin LoadPoints /\ pc[e][t] # "planSave"
  BY DEF SavePoints, LoadPoints
<1>m. PICK m \in MemoryType : m = memory[e][t]
  BY <1>0 DEF TypeOK
<1>2. /\ memory' \in [Engines -> [Tasks -> MemoryType]] /\ pc' \in [Engines -> [Tasks -> Points]]
      /\ signal' \in [Engines -> [Tasks -> BOOLEAN]] /\ stopped' \in [Engines -> [Tasks -> BOOLEAN]]
      /\ pc'[e][t] = "idle" /\ memory'[e][t] = IF t \in kept[e] THEN m ELSE Unloaded
      /\ \A u \in Tasks \ {t} : memory'[e][u] = memory[e][u] /\ pc'[e][u] = pc[e][u]
      /\ Planning' \subseteq Planning
  <2>1. Leave(e, t, m)
    BY <1>m
  <2> QED BY <1>0, <2>1, LeaveFacts
<1>3. TypeOK'
  <2>1. plans' \in Nat /\ IsFiniteSet(Planning)' /\ (plans + Cardinality(Planning) <= MaxPlans)'
    BY <1>0, <1>2, PlanningFalls
  <2> QED BY <1>0, <1>2, <2>1 DEF TypeOK
<1>4. QueueStands(e, t)'
  <2>1. (Asked(e, t, "main")' <=> Asked(e, t, "main")) /\ (Asked(e, t, "forget")' <=> Asked(e, t, "forget"))
    BY DEF Asked
  <2>2. ~Asked(e, t, "main")
    BY <1>0, <1>1 DEF QueueStands
  <2>3. pc'[e][t] \notin LoadPoints \cup SavePoints /\ pc'[e][t] \in BesideForget
    BY <1>2 DEF LoadPoints, SavePoints, BesideForget
  <2>4. Orderly(jobs'[e][t])
    BY <1>0 DEF QueueStands, Orderly
  <2>5. stage'[e][t] \notin {"create", "write"}
    BY <1>0, <2>2, NotSaving
  <2>6. stage'[e][t] = "rm" => Doing(e, t, "remove", "forget", "rm")'
    BY <1>0 DEF QueueStands, Doing, Current
  <2>7. Asked(e, t, "forget")' => t \in disturbed'
    BY <1>0, <2>1 DEF QueueStands
  <2> QED BY <2>1, <2>2, <2>3, <2>4, <2>5, <2>6, <2>7, QueueBuilt
<1>5. RecordStands(e, t)'
  <2>1. t \in kept[e] => m.record \in Records
    BY <1>0, <1>m DEF RecordStands
  <2>2. t \in kept[e] /\ ~m.failed => /\ Normal(m.record) /\ m.revision \in Nat
                                      /\ m.revision <= Reaches(m.record) /\ m.revision >= 1
    <3>1. m.revision \in Nat
      BY JournalAssumption DEF MemoryType
    <3> QED BY <1>0, <1>1, <1>m, <2>1, <3>1 DEF RecordStands
  <2> QED BY <1>2, <2>1, <2>2, RecordRests
<1>6. Removing(t)' <=> Removing(t)
  BY DEF Removing
<1>7. SavesStand(e, t)'
  <2>1. Revision(t)' = Revision(t) /\ Latest(t)' = Latest(t)
    BY <1>0, ReadAsBefore
  <2> QED BY <1>0, <1>m, <1>1, <1>2, <1>6, <2>1 DEF SavesStand, Shown, SavePoints
<1>8. FilesStand(t)' /\ CallsStand(t)'
  <2>1. t \in kept'[e] /\ t \notin damaged' =>
          Covers(memory[e][t].record)' /\ (pc'[e][t] \in CallPoints => Round(e, t)' \notin called)
    BY <1>0, <1>m, <1>2 DEF CallsStand, Covers, CallPoints
  <2> QED BY <1>0, <1>6, <2>1, FilesKept, CallsKept
<1>9. \A id : Has(t, id)' => Has(t, id)
  <2>1. memory'[e][t].record \in Records => memory'[e][t] = memory[e][t]
    BY <1>m, <1>2, NoRecords DEF Unloaded
  <2> QED BY <1>0, <2>1, HasKept
<1>10. Elsewhere(e, t) /\ CalledFor(t)
  BY <1>2 DEF Elsewhere, CalledFor
<1>11. Part(e, t)' /\ plans' >= plans
  BY <1>0, <1>4, <1>5, <1>7, <1>8 DEF Part, TypeOK
<1> QED BY <1>3, <1>9, <1>10, <1>11, Reassembled

(* A run goes on to the loop, or calls the provider. *)
LEMMA GoesOn ==
  ASSUME Alone, EngineStands, NEW e \in Engines, NEW t \in Tasks,
         \/ /\ pc[e][t] = "ready" /\ Goto(e, t, "head") /\ memory[e][t].record.status \in Safe
            /\ ~memory[e][t].failed /\ called' = called
         \/ /\ pc[e][t] = "call" /\ Goto(e, t, "stream") /\ called' = called \cup {Round(e, t)},
         UNCHANGED <<dirs, files, faults, jobs, stage, life, kept, memory, signal, stopped, plans, damaged, disturbed>>
  PROVE  EngineStands'
<1>0. TypeOK /\ QueueStands(e, t) /\ RecordStands(e, t) /\ SavesStand(e, t) /\ FilesStand(t) /\ CallsStand(t)
      /\ RequestsStand
  BY DEF EngineStands
<1>1. /\ InMemory(memory[e][t]) /\ ~memory[e][t].failed
      /\ t \notin kept[e] => pc[e][t] \in {"ready", "head"} /\ Gone(e, t)
  BY <1>0, WorksOnRecord
<1>p. PICK p \in {"head", "stream"} : pc' = [pc EXCEPT ![e][t] = p] /\ (p = "head" <=> pc[e][t] = "ready")
                                     /\ (p = "stream" <=> pc[e][t] = "call")
  BY DEF Goto
<1>2. /\ pc' \in [Engines -> [Tasks -> Points]] /\ pc'[e][t] = p
      /\ \A u \in Tasks \ {t} : pc'[e][u] = pc[e][u]
      /\ \A d \in Engines, u \in Tasks : <<d, u>> # <<e, t>> => pc'[d][u] = pc[d][u]
  <2>1. p \in Points
    BY DEF Points
  <2> QED BY <1>0, <1>p, <2>1, PutFacts DEF TypeOK
<1>3. pc[e][t] \notin SavePoints /\ pc[e][t] \notin LoadPoints /\ p \notin SavePoints /\ p \notin LoadPoints
      /\ p \notin CallPoints
  BY <1>p DEF SavePoints, LoadPoints, CallPoints
<1>4. memory[e][t].record \in Records /\ memory[e][t].record.id \in 1 .. MaxPlans
      /\ Has(t, memory[e][t].record.id) /\ memory[e][t].record.id <= plans
      /\ memory[e][t].record.rounds \in 0 .. MaxRounds /\ (p = "stream" => memory[e][t].record.rounds \in 1 .. MaxRounds)
  <2>1. memory[e][t].record \in Records /\ Normal(memory[e][t].record)
    BY <1>1 DEF InMemory
  <2>2. memory[e][t].record.id \in 1 .. MaxPlans /\ memory[e][t].record.rounds \in 0 .. MaxRounds
    BY <2>1 DEF Records
  <2>3. Has(t, memory[e][t].record.id)
    BY <2>1 DEF Has
  <2>4. p = "stream" => memory[e][t].record.status = "RUNNING"
    BY <1>0, <1>p DEF RecordStands, StatusAt
  <2>5. p = "stream" => memory[e][t].record.rounds # 0
    BY <2>1, <2>4 DEF Normal
  <2> QED BY <1>0, <2>1, <2>2, <2>3, <2>5 DEF RequestsStand
<1>5. called \subseteq called' /\ called' \subseteq called \cup {Round(e, t)} /\ (p = "head" => called' = called)
  BY <1>p
<1>6. TypeOK'
  <2>1. plans' \in Nat /\ IsFiniteSet(Planning)' /\ (plans + Cardinality(Planning) <= MaxPlans)'
    <3>1. Planning' \subseteq Planning
      BY <1>0, <1>2, PlanningSame
    <3> QED BY <1>0, <3>1, PlanningFalls
  <2>2. p = "stream" => Round(e, t) \in (1 .. plans) \X (1 .. MaxRounds)
    BY <1>0, <1>4 DEF Round, TypeOK
  <2>3. called' \in SUBSET ((1 .. plans') \X (1 .. MaxRounds))
    BY <1>0, <1>5, <2>2 DEF TypeOK
  <2> QED BY <1>0, <1>2, <2>1, <2>3 DEF TypeOK
<1>7. QueueStands(e, t)'
  <2>1. (Asked(e, t, "main")' <=> Asked(e, t, "main")) /\ (Asked(e, t, "forget")' <=> Asked(e, t, "forget"))
    BY DEF Asked
  <2>2. ~Asked(e, t, "main")
    BY <1>0, <1>3 DEF QueueStands
  <2>3. Asked(e, t, "forget") => p \in BesideForget /\ t \in disturbed'
    BY <1>0, <1>p DEF QueueStands, BesideForget, LoadPoints
  <2>4. Orderly(jobs'[e][t])
    BY <1>0 DEF QueueStands, Orderly
  <2>5. stage'[e][t] \notin {"create", "write"}
    BY <1>0, <2>2, NotSaving
  <2>6. stage'[e][t] = "rm" => Doing(e, t, "remove", "forget", "rm")'
    BY <1>0 DEF QueueStands, Doing, Current
  <2> QED BY <1>2, <1>3, <2>1, <2>2, <2>3, <2>4, <2>5, <2>6, QueueBuilt
<1>8. /\ Names(t)' = Names(t) /\ Revision(t)' = Revision(t) /\ Latest(t)' = Latest(t) /\ (Removing(t)' <=> Removing(t))
      /\ (Saved(t)' <=> Saved(t))
  <2>1. Removing(t)' <=> Removing(t)
    BY DEF Removing
  <2> QED BY <1>0, <2>1, ReadAsBefore
<1>9. RecordStands(e, t)'
  <2>1. StatusAt(e, t)'
    <3>1. p = "stream" => memory[e][t].record.status = "RUNNING"
      BY <1>0, <1>p DEF RecordStands, StatusAt
    <3> QED BY <1>p, <1>2, <3>1 DEF StatusAt
  <2>2. t \notin kept'[e] => Gone(e, t)'
    <3> HAVE t \notin kept'[e]
    <3>1. Gone(e, t) /\ p = "head"
      BY <1>1, <1>p
    <3> QED BY <1>2, <1>8, <3>1 DEF Gone, Asked
  <2> QED BY <1>1, <1>2, <1>3, <2>1, <2>2 DEF RecordStands, InMemory, MemoryType
<1>10. SavesStand(e, t)'
  BY <1>0, <1>2, <1>3, <1>8 DEF SavesStand, Shown
<1>11. FilesStand(t)'
  BY <1>0, <1>8, FilesKept
<1>12. CallsStand(t)'
  <2>1. ASSUME t \notin damaged, t \in kept[e] PROVE Covers(memory[e][t].record)'
    <3>1. Covers(memory[e][t].record)
      BY <1>0, <2>1 DEF CallsStand
    <3> SUFFICES ASSUME NEW k \in 1 .. MaxRounds, <<memory[e][t].record.id, k>> \in called'
             PROVE  k <= memory[e][t].record.rounds
      BY DEF Covers
    <3>2. CASE <<memory[e][t].record.id, k>> \in called
      BY <3>1, <3>2 DEF Covers
    <3>3. CASE <<memory[e][t].record.id, k>> = Round(e, t)
      BY <1>4, <3>3 DEF Round
    <3> QED BY <1>5, <3>2, <3>3
  <2>2. ASSUME t \notin damaged, ~Removing(t), Saved(t) PROVE Covers(Latest(t))'
    <3>1. CASE p = "head"
      BY <1>0, <1>5, <1>8, <2>2, <3>1 DEF CallsStand, Covers
    <3>2. CASE p = "stream"
      <4>1. t \in kept[e]
        BY <1>1, <1>p, <3>2
      <4>2. Latest(t) = memory[e][t].record
        BY <1>0, <1>1, <1>3, <2>2, <4>1 DEF SavesStand, Shown
      <4>3. Covers(memory[e][t].record)'
        BY <2>1, <2>2, <4>1
      <4>4. Latest(t)' = memory'[e][t].record
        BY <1>8, <4>2
      <4> QED BY <4>3, <4>4 DEF Covers
    <3> QED BY <3>1, <3>2
  <2> QED BY <1>2, <1>3, <1>8, <2>1, <2>2 DEF CallsStand, CallPoints, Alone
<1>13. \A id : Has(t, id)' => Has(t, id)
  BY <1>0, HasKept
<1>14. Elsewhere(e, t) /\ CalledFor(t)
  <2>1. Elsewhere(e, t)
    BY <1>2 DEF Elsewhere
  <2>2. CalledFor(t)
    BY <1>4, <1>5 DEF CalledFor, Round
  <2> QED BY <2>1, <2>2
<1>15. Part(e, t)' /\ plans' >= plans
  BY <1>0, <1>7, <1>9, <1>10, <1>11, <1>12 DEF Part, TypeOK
<1> QED BY <1>6, <1>13, <1>14, <1>15, Reassembled

(* run() finds the record. *)
LEMMA EnterStands ==
  ASSUME Alone, EngineStands, NEW e \in Engines, NEW t \in Tasks, Enter(e, t)
  PROVE  EngineStands'
<1>0. TypeOK /\ RecordStands(e, t) /\ pc[e][t] = "ready"
  BY DEF EngineStands, Enter
<1>u. UNCHANGED <<dirs, files, faults, life, kept, plans, called, damaged, disturbed>>
  BY DEF Enter, historyVars
<1>m. PICK m \in MemoryType : m = memory[e][t]
  BY <1>0 DEF TypeOK
<1>1. CASE /\ ~Refused(e, t) /\ m.record.status \in InFlight
           /\ SaveAs(e, t, Uncertain(m), "recover") /\ UNCHANGED <<signal, stopped>>
  <2>1. ~memory[e][t].failed /\ InMemory(m)
    BY <1>0, <1>1, <1>m, WorksOnRecord DEF Refused
  <2>2. Moves(m, Uncertain(m))
    BY <1>1, <2>1, UncertainMoves
  <2>n. PICK n \in MemoryType : n = Uncertain(m)
    BY <2>2 DEF Moves
  <2>3. SaveAs(e, t, n, "recover") /\ Moves(memory[e][t], n)
    BY <1>1, <1>m, <2>2, <2>n
  <2>4. "recover" \in SavePoints \ {"planSave"}
    BY DEF SavePoints
  <2>5. signal' \in [Engines -> [Tasks -> BOOLEAN]] /\ stopped' \in [Engines -> [Tasks -> BOOLEAN]]
    BY <1>0, <1>1 DEF TypeOK
  <2> QED BY <1>0, <1>u, <2>1, <2>3, <2>4, <2>5, SaveAsStands
<1>2. CASE /\ ~Refused(e, t) /\ m.record.status \in Safe /\ Goto(e, t, "head")
           /\ UNCHANGED <<jobs, stage, memory, signal, stopped>>
  BY <1>0, <1>u, <1>m, <1>2, GoesOn DEF Refused
<1>3. CASE Leave(e, t, m) /\ UNCHANGED <<jobs, stage>>
  <2>1. Leave(e, t, memory[e][t])
    BY <1>m, <1>3
  <2> QED BY <1>0, <1>u, <1>3, <2>1, HereLeaves
<1> QED BY <1>m, <1>1, <1>2, <1>3 DEF Enter

(* The head of the loop. *)
LEMMA LoopHeadStands ==
  ASSUME Alone, EngineStands, NEW e \in Engines, NEW t \in Tasks, LoopHead(e, t)
  PROVE  EngineStands'
<1>0. TypeOK /\ RecordStands(e, t) /\ pc[e][t] = "head"
  BY DEF EngineStands, LoopHead
<1>u. UNCHANGED <<dirs, files, faults, life, kept, plans, called, damaged, disturbed>>
  BY DEF LoopHead, historyVars
<1>m. PICK m \in MemoryType : m = memory[e][t]
  BY <1>0 DEF TypeOK
<1>i. InMemory(m) /\ m.record.status \in Safe
  BY <1>0, <1>m, WorksOnRecord DEF RecordStands, StatusAt
<1>1. CASE Leave(e, t, m) /\ UNCHANGED <<jobs, stage>>
  <2>1. Leave(e, t, memory[e][t])
    BY <1>m, <1>1
  <2> QED BY <1>0, <1>u, <1>1, <2>1, HereLeaves
<1>2. CASE SaveAs(e, t, [m EXCEPT !.record.status = "PARTIAL_LIMIT"], "limit") /\ UNCHANGED <<signal, stopped>>
  <2>2. Moves(m, [m EXCEPT !.record.status = "PARTIAL_LIMIT"])
    BY <1>i, LimitMoves
  <2>n. PICK n \in MemoryType : n = [m EXCEPT !.record.status = "PARTIAL_LIMIT"]
    BY <2>2 DEF Moves
  <2>3. SaveAs(e, t, n, "limit") /\ Moves(memory[e][t], n)
    BY <1>2, <1>m, <2>2, <2>n
  <2>4. "limit" \in SavePoints \ {"planSave"}
    BY DEF SavePoints
  <2>5. signal' \in [Engines -> [Tasks -> BOOLEAN]] /\ stopped' \in [Engines -> [Tasks -> BOOLEAN]]
    BY <1>0, <1>2 DEF TypeOK
  <2> QED BY <1>0, <1>u, <2>3, <2>4, <2>5, SaveAsStands
<1>3. CASE m.record.rounds < MaxRounds /\ SaveAs(e, t, Committed(m), "commit") /\ UNCHANGED <<signal, stopped>>
  <2>2. Moves(m, Committed(m)) /\ Committed(m).record.status = "ATTEMPT_COMMITTED"
        /\ Committed(m).record.rounds = m.record.rounds + 1
    BY <1>3, <1>i, CommitMoves
  <2>n. PICK n \in MemoryType : n = Committed(m)
    BY <2>2 DEF Moves
  <2>3. SaveAs(e, t, n, "commit") /\ Moves(memory[e][t], n)
    BY <1>3, <1>m, <2>2, <2>n
  <2>4. "commit" \in SavePoints \ {"planSave"}
    BY DEF SavePoints
  <2>5. signal' \in [Engines -> [Tasks -> BOOLEAN]] /\ stopped' \in [Engines -> [Tasks -> BOOLEAN]]
    BY <1>0, <1>3 DEF TypeOK
  <2> QED BY <1>0, <1>u, <1>m, <2>2, <2>n, <2>3, <2>4, <2>5, SaveAsStands
<1> QED BY <1>m, <1>1, <1>2, <1>3 DEF LoopHead

(* The catch block. *)
LEMMA CatchStands ==
  ASSUME Alone, EngineStands, NEW e \in Engines, NEW t \in Tasks, Catch(e, t),
         pc[e][t] \in {"prepare", "call", "stream"}
  PROVE  EngineStands'
<1>0. TypeOK /\ RecordStands(e, t)
  BY DEF EngineStands
<1>u. UNCHANGED <<dirs, files, faults, life, kept, plans, called, damaged, disturbed>>
  BY DEF Catch, historyVars
<1>m. PICK m \in MemoryType : m = memory[e][t]
  BY <1>0 DEF TypeOK
<1>i. InMemory(m) /\ m.record.status \in InFlight
  BY <1>0, <1>m, WorksOnRecord DEF RecordStands, StatusAt, InFlight
<1>2. Moves(m, Uncertain(m)) /\ Uncertain(m).record.status = "INTERRUPTED_UNCERTAIN"
  BY <1>i, UncertainMoves
<1>n. PICK n \in MemoryType : n = Uncertain(m)
  BY <1>2 DEF Moves
<1>3. SaveAs(e, t, n, "catch") /\ Moves(memory[e][t], n)
  BY <1>m, <1>2, <1>n DEF Catch
<1>4. "catch" \in SavePoints \ {"planSave"}
  BY DEF SavePoints
<1>5. signal' \in [Engines -> [Tasks -> BOOLEAN]] /\ stopped' \in [Engines -> [Tasks -> BOOLEAN]]
  <2>1. stopped' = [stopped EXCEPT ![e][t] = TRUE] /\ signal' = signal
    BY DEF Catch
  <2> QED BY <1>0, <2>1, PutFacts DEF TypeOK
<1> QED BY <1>0, <1>u, <1>2, <1>n, <1>3, <1>4, <1>5, SaveAsStands

(* The provider prepares, is called, and answers. *)
LEMMA RoundStands ==
  ASSUME Alone, EngineStands, NEW e \in Engines, NEW t \in Tasks,
         \/ Prepared(e, t) \/ Call(e, t) \/ CallStopped(e, t) \/ Checkpoint(e, t) \/ StreamEnds(e, t) \/ StreamFails(e, t)
  PROVE  EngineStands'
<1>0. TypeOK /\ RecordStands(e, t)
  BY DEF EngineStands
<1>m. PICK m \in MemoryType : m = memory[e][t]
  BY <1>0 DEF TypeOK
<1>i. pc[e][t] \in {"prepare", "call", "stream"} => InMemory(m)
  BY <1>0, <1>m, WorksOnRecord
<1>1. CASE Catch(e, t) /\ pc[e][t] \in {"prepare", "call", "stream"}
  BY <1>1, CatchStands
<1>2. CASE /\ pc[e][t] = "prepare"
           /\ SaveAs(e, t, [memory[e][t] EXCEPT !.record.status = "RUNNING", !.record.last = "RUNNING"], "running")
           /\ UNCHANGED <<dirs, files, faults, life, kept, signal, stopped, historyVars>>
  <2>1. m.record.status = "ATTEMPT_COMMITTED"
    BY <1>0, <1>m, <1>2 DEF RecordStands, StatusAt
  <2>n. PICK n : n = [m EXCEPT !.record.status = "RUNNING", !.record.last = "RUNNING"]
    BY SMTT(30)
  <2>2. Moves(m, n) /\ n.record.status = "RUNNING" /\ n.record.rounds = m.record.rounds
    BY <1>i, <1>2, <2>1, <2>n, RunningMoves
  <2>3. SaveAs(e, t, n, "running") /\ Moves(memory[e][t], n) /\ n \in MemoryType
    BY <1>2, <1>m, <2>2, <2>n DEF Moves
  <2>4. "running" \in SavePoints \ {"planSave"}
    BY DEF SavePoints
  <2>5. signal' \in [Engines -> [Tasks -> BOOLEAN]] /\ stopped' \in [Engines -> [Tasks -> BOOLEAN]]
    BY <1>0, <1>2 DEF TypeOK
  <2> QED BY <1>2, <1>m, <2>2, <2>3, <2>4, <2>5, SaveAsStands DEF historyVars
<1>3. CASE Call(e, t)
  BY <1>3, GoesOn DEF Call, Round, journalVars
<1>4. CASE Checkpoint(e, t)
  <2>1. m.record.status = "RUNNING" /\ m.revision < 3 * m.record.rounds + MaxCheckpoints /\ pc[e][t] = "stream"
    BY <1>0, <1>m, <1>4 DEF RecordStands, StatusAt, Checkpoint
  <2>2. Moves(m, m)
    BY <1>i, <2>1, CheckpointMoves
  <2>3. SaveAs(e, t, m, "checkpoint") /\ Moves(memory[e][t], m)
    BY <1>4, <1>m, <2>2 DEF Checkpoint
  <2>4. "checkpoint" \in SavePoints \ {"planSave"}
    BY DEF SavePoints
  <2>5. signal' \in [Engines -> [Tasks -> BOOLEAN]] /\ stopped' \in [Engines -> [Tasks -> BOOLEAN]]
    BY <1>0, <1>4 DEF TypeOK, Checkpoint
  <2> QED BY <1>4, <2>1, <2>3, <2>4, <2>5, SaveAsStands DEF historyVars, Checkpoint
<1>5. CASE StreamEnds(e, t)
  <2>f. PICK finish \in {"repeated", "stop", "max-tokens"} :
          SaveAs(e, t, [memory[e][t] EXCEPT !.record.last = "COMPLETED",
                          !.record.status = SettledStatus(memory[e][t].record, finish)], "settle")
    BY <1>5 DEF StreamEnds
  <2>1. m.record.status = "RUNNING" /\ pc[e][t] = "stream"
    BY <1>0, <1>m, <1>5 DEF RecordStands, StatusAt, StreamEnds
  <2>n. PICK n : n = [m EXCEPT !.record.last = "COMPLETED", !.record.status = SettledStatus(m.record, finish)]
    BY SMTT(30)
  <2>2. Moves(m, n)
    BY <1>i, <2>1, <2>n, SettleMoves
  <2>3. SaveAs(e, t, n, "settle") /\ Moves(memory[e][t], n) /\ n \in MemoryType
    BY <1>m, <2>f, <2>2, <2>n DEF Moves
  <2>4. "settle" \in SavePoints \ {"planSave"}
    BY DEF SavePoints
  <2>5. signal' \in [Engines -> [Tasks -> BOOLEAN]] /\ stopped' \in [Engines -> [Tasks -> BOOLEAN]]
    BY <1>0, <1>5 DEF TypeOK, StreamEnds
  <2> QED BY <1>5, <2>1, <2>3, <2>4, <2>5, SaveAsStands DEF historyVars, StreamEnds
<1> QED BY <1>1, <1>2, <1>3, <1>4, <1>5 DEF Prepared, CallStopped, StreamFails
-----------------------------------------------------------------------------
(* A save under way. *)
LEMMA SaveUnderWay ==
  ASSUME Alone, EngineStands, NEW e \in Engines, NEW t \in Tasks, jobs[e][t] # <<>>, Current(e, t).op = "save"
  PROVE  LET m == memory[e][t] IN
         /\ Current(e, t).by = "main" /\ Current(e, t).record = m.record /\ Current(e, t).expected = m.revision
         /\ pc[e][t] \in SavePoints /\ ~Asked(e, t, "forget") /\ ~m.failed
         /\ m \in MemoryType /\ m.record \in Records /\ Normal(m.record) /\ m.revision \in Nat
         /\ m.revision + 1 <= Reaches(m.record) /\ m.revision + 1 \in 1 .. MaxRevisions
         /\ m.record.id \in 1 .. MaxPlans /\ Has(t, m.record.id) /\ (m.revision = 0 <=> pc[e][t] = "planSave")
         /\ t \notin kept[e] => Gone(e, t) /\ m.revision >= 1
         /\ stage[e][t] # "rm" /\ ~Removing(t)
<1>0. TypeOK /\ QueueStands(e, t) /\ RecordStands(e, t)
  BY DEF EngineStands
<1>1. /\ Current(e, t).by = "main" /\ pc[e][t] \in SavePoints /\ ~Asked(e, t, "forget")
      /\ Current(e, t).record = memory[e][t].record /\ Current(e, t).expected = memory[e][t].revision
      /\ memory[e][t].record \in Records
  BY <1>0, HeadFacts
<1>2. pc[e][t] \notin {"idle", "ready"} \cup LoadPoints
  BY <1>1 DEF SavePoints, LoadPoints
<1>3. memory[e][t] \in MemoryType /\ memory[e][t].revision \in Nat /\ MaxRevisions \in Nat
  BY <1>0, JournalAssumption DEF TypeOK, MemoryType
<1>4. /\ ~memory[e][t].failed /\ Normal(memory[e][t].record)
      /\ memory[e][t].revision + 1 <= Reaches(memory[e][t].record)
      /\ (t \notin kept[e] => Gone(e, t)) /\ (pc[e][t] # "planSave" => memory[e][t].revision >= 1)
      /\ (pc[e][t] = "planSave" => memory[e][t].revision = 0)
  BY <1>0, <1>1, <1>2 DEF RecordStands, StatusAt
<1>5. memory[e][t].revision + 1 \in 1 .. MaxRevisions
  BY <1>1, <1>3, <1>4, ReachesFits
<1>6. memory[e][t].record.id \in 1 .. MaxPlans /\ Has(t, memory[e][t].record.id)
  BY <1>1 DEF Records, Has
<1>7. stage[e][t] # "rm" /\ ~Removing(t)
  <2>1. stage[e][t] # "rm"
    BY <1>0, <1>1 DEF QueueStands, Doing
  <2> QED BY <2>1, RemovingAlone
<1>8. Gone(e, t) => pc[e][t] # "planSave"
  BY DEF Gone
<1> QED BY <1>1, <1>3, <1>4, <1>5, <1>6, <1>7, <1>8

(* The files after a write that was or was not in time. *)
LEMMA WriteStands ==
  ASSUME Alone, EngineStands, NEW e \in Engines, NEW t \in Tasks, stage[e][t] = "write",
         files'[t] \in {files[t], Written(e, t)[t]}, t \in dirs' <=> t \in dirs, t \in damaged => t \in damaged'
  PROVE  LET m == memory[e][t] IN
         /\ FilesStand(t)' /\ t \in kept[e] /\ m.revision + 1 \in 1 .. MaxRevisions
         /\ Written(e, t) \in [Tasks -> [1 .. MaxRevisions -> Records \cup {Missing, Torn}]]
         /\ \A u \in Tasks \ {t} : Written(e, t)[u] = files[u]
         /\ \A id, n : n \in Names(t)' /\ files'[t][n] \in Records /\ files'[t][n].id = id => Has(t, id)
         /\ t \notin damaged /\ files'[t] = Written(e, t)[t] => /\ Saved(t)' /\ Latest(t)' = m.record
                                                               /\ Revision(t)' = m.revision + 1
         /\ t \notin damaged => ~Saved(t)' \/ Latest(t)' = m.record
<1> DEFINE m == memory[e][t]
<1>0. TypeOK /\ QueueStands(e, t) /\ FilesStand(t) /\ SavesStand(e, t)
  BY DEF EngineStands
<1>1. jobs[e][t] # <<>> /\ Current(e, t).op = "save"
  BY <1>0 DEF QueueStands, Doing
<1>k. PICK k \in 1 .. MaxRevisions, j \in Nat : k = m.revision + 1 /\ j = m.revision
  BY <1>1, SaveUnderWay
<1>2. /\ Current(e, t).record = m.record /\ Current(e, t).expected = m.revision
      /\ pc[e][t] \in SavePoints /\ ~m.failed /\ m.record \in Records /\ Normal(m.record) /\ m.revision \in Nat
      /\ k <= Reaches(m.record) /\ k \in 1 .. MaxRevisions /\ Has(t, m.record.id) /\ ~Removing(t)
      /\ j = m.revision /\ k = j + 1
      /\ (t \notin kept[e] => Gone(e, t)) /\ (m.revision = 0 <=> pc[e][t] = "planSave")
  BY <1>1, <1>k, SaveUnderWay
<1>3. t \in kept[e]
  BY <1>2 DEF Gone
<1>4. files[t] \in [1 .. MaxRevisions -> Records \cup {Missing, Torn}]
  BY <1>0 DEF TypeOK
<1>5. Written(e, t) = IF files[t][k] = Torn THEN [files EXCEPT ![t][k] = m.record] ELSE files
  BY <1>2 DEF Written
<1>6. /\ Written(e, t) \in [Tasks -> [1 .. MaxRevisions -> Records \cup {Missing, Torn}]]
      /\ \A u \in Tasks \ {t} : Written(e, t)[u] = files[u]
      /\ Written(e, t)[t] = IF files[t][k] = Torn THEN [files[t] EXCEPT ![k] = m.record] ELSE files[t]
  <2>1. CASE files[t][k] # Torn
    BY <1>0, <1>5, <2>1 DEF TypeOK
  <2>2. CASE files[t][k] = Torn
    <3>1. PICK g \in [1 .. MaxRevisions -> Records \cup {Missing, Torn}] : g = [files[t] EXCEPT ![k] = m.record]
      BY <1>2, <1>4
    <3>2. Written(e, t) = [files EXCEPT ![t] = g]
      BY <1>0, <1>5, <2>2, <3>1 DEF TypeOK
    <3> QED BY <1>0, <2>2, <3>1, <3>2 DEF TypeOK
  <2> QED BY <2>1, <2>2
<1>7. \A n \in 1 .. MaxRevisions : files'[t][n] = files[t][n] \/ (n = k /\ files[t][n] = Torn /\ files'[t][n] = m.record)
  BY <1>2, <1>4, <1>6, ZenonT(40)
<1>8. Names(t)' = Names(t)
  <2>1. \A n \in 1 .. MaxRevisions : files'[t][n] # Missing <=> files[t][n] # Missing
    BY <1>2, <1>7, NoRecords
  <2> QED BY <2>1 DEF Names
<1>9. Revision(t)' = Revision(t)
  BY <1>8 DEF Revision
<1>10. \A id, n : n \in Names(t)' /\ files'[t][n] \in Records /\ files'[t][n].id = id => Has(t, id)
  <2> SUFFICES ASSUME NEW id, NEW n, n \in Names(t)', files'[t][n] \in Records, files'[t][n].id = id PROVE Has(t, id)
    OBVIOUS
  <2>1. n \in Names(t) /\ n \in 1 .. MaxRevisions
    BY <1>8 DEF Names
  <2> QED BY <1>2, <1>7, <2>1 DEF Has
<1>11. ASSUME t \notin damaged
       PROVE  /\ Names(t) = 1 .. k /\ Whole(t, m.revision) /\ files[t][k] = Torn /\ t \in dirs
              /\ m.revision = 0 => Initial(m.record)
              /\ m.revision > 0 => Follows(files[t][m.revision], m.record)
  BY <1>0, <1>2, <1>3, <1>11 DEF SavesStand, Follower
<1>12. ASSUME t \notin damaged, files'[t] = Written(e, t)[t]
       PROVE  Whole(t, k)' /\ Saved(t)' /\ Latest(t)' = m.record /\ Revision(t)' = k
  <2>1. files'[t][k] = m.record /\ \A n \in 1 .. m.revision : files'[t][n] = files[t][n] /\ n \in 1 .. MaxRevisions
    <3>1. files'[t] = [files[t] EXCEPT ![k] = m.record]
      <4>1. files[t][k] = Torn
        BY <1>2, <1>11, <1>12
      <4> QED BY <1>6, <1>12, <4>1
    <3>2. \A n \in 1 .. m.revision : n # k /\ n \in 1 .. MaxRevisions
      <4>1. \A n \in 1 .. j : n # k /\ n \in 1 .. MaxRevisions
        BY <1>k, <1>2, JournalAssumption
      <4> QED BY <1>k, <4>1
    <3> QED BY <1>4, <3>1, <3>2
  <2>2. \A n \in 1 .. k : n = k \/ n \in 1 .. m.revision
    BY <1>2
  <2>3. \A n \in 1 .. k : files'[t][n] \in Records /\ Normal(files'[t][n])
    BY <1>2, <1>11, <1>12, <2>1, <2>2 DEF Whole
  <2>4. Initial(files'[t][1])
    BY <1>2, <1>11, <1>12, <2>1 DEF Whole
  <2>5. ASSUME NEW n \in 2 .. k PROVE Follows(files'[t][n - 1], files'[t][n])
    <3>1. CASE n = k
      <4>1. n - 1 = m.revision /\ m.revision > 0 /\ m.revision \in 1 .. m.revision
        BY <1>2, <3>1
      <4> QED BY <1>11, <1>12, <2>1, <3>1, <4>1
    <3>2. CASE n # k
      <4>1. n \in 2 .. m.revision /\ n \in 1 .. m.revision /\ n - 1 \in 1 .. m.revision
        BY <1>2, <3>2
      <4> QED BY <1>11, <1>12, <2>1, <4>1 DEF Whole
    <3> QED BY <3>1, <3>2
  <2>6. Whole(t, k)'
    BY <2>3, <2>4, <2>5 DEF Whole
  <2>7. Revision(t)' = k
    BY <1>0, <1>2, <1>9, <1>11, <1>12, NamesFacts
  <2>8. Chained(t)'
    BY <1>8, <1>11, <1>12, <2>6, <2>7 DEF Chained, Whole
  <2>9. Latest(t)' = m.record
    <3>1. t \in dirs' /\ Names(t)' # {}
      BY <1>2, <1>8, <1>11, <1>12
    <3> QED BY <2>1, <2>7, <2>8, <3>1 DEF Latest
  <2> QED BY <1>2, <2>6, <2>7, <2>9 DEF Saved
<1>13. ASSUME t \notin damaged, files'[t] = files[t] PROVE ~Saved(t)' /\ Whole(t, j)' /\ files'[t][k] = Torn
  <2>1. ~Saved(t)
    <3> SUFFICES ASSUME Saved(t) PROVE FALSE
      OBVIOUS
    <3>1. Names(t) = 1 .. Revision(t) /\ Whole(t, Revision(t))
      BY <1>0, LatestFacts
    <3>2. Revision(t) = k
      BY <1>0, <1>2, <1>11, <1>13, NamesFacts
    <3> QED BY <1>2, <1>11, <1>13, <3>1, <3>2, NoRecords DEF Whole
  <2>2. (Saved(t)' <=> Saved(t)) /\ (Whole(t, j)' <=> Whole(t, j)) /\ Whole(t, j)
    <3>0. Whole(t, j)
      BY <1>2, <1>11, <1>13
    <3>1. /\ (Saved(t)' <=> Saved(t))
      BY <1>0, <1>11, <1>13, ReadAsBefore
    <3>2. Whole(t, j)' <=> Whole(t, j)
      BY <1>13 DEF Whole
    <3> QED BY <3>0, <3>1, <3>2
  <2> QED BY <1>11, <1>13, <2>1, <2>2
<1>14. FilesStand(t)'
  <2>1. t \notin dirs' => Names(t)' = {}
    BY <1>0, <1>8 DEF FilesStand
  <2>2. ASSUME NEW n \in Names(t)', files'[t][n] \in Records PROVE n <= Reaches(files'[t][n])
    <3>1. n \in Names(t) /\ n \in 1 .. MaxRevisions
      BY <1>8 DEF Names
    <3>2. CASE files'[t][n] = files[t][n]
      BY <1>0, <2>2, <3>1, <3>2 DEF FilesStand
    <3>3. CASE n = k /\ files'[t][n] = m.record
      BY <1>2, <3>3
    <3> QED BY <1>7, <3>1, <3>2, <3>3
  <2>3. ASSUME t \notin damaged'
        PROVE  /\ Names(t)' = 1 .. Revision(t)'
               /\ Whole(t, Revision(t))' \/ (Whole(t, Revision(t) - 1)' /\ files'[t][Revision(t)'] = Torn)
    <3>1. t \notin damaged
      BY <2>3
    <3>2. Names(t)' = 1 .. k /\ Revision(t)' = k /\ k - 1 = m.revision
      BY <1>0, <1>2, <1>8, <1>9, <1>11, <3>1, NamesFacts
    <3>3. CASE files'[t] = Written(e, t)[t]
      <4>1. Whole(t, k)'
        BY <1>12, <3>1, <3>3
      <4> QED BY <3>2, <4>1 DEF Whole
    <3>4. CASE files'[t] = files[t]
      <4>1. Whole(t, j)' /\ files'[t][k] = Torn
        BY <1>13, <3>1, <3>4
      <4> QED BY <1>2, <3>2, <4>1 DEF Whole
    <3> QED BY <3>2, <3>3, <3>4
  <2> QED BY <2>1, <2>2, <2>3 DEF FilesStand
<1>15. t \notin damaged => ~Saved(t)' \/ Latest(t)' = m.record
  BY <1>12, <1>13
<1> QED BY <1>2, <1>3, <1>6, <1>10, <1>12, <1>14, <1>15

(* A step adds no request to a task when neither its files nor its record do. *)
LEMMA HasStays ==
  ASSUME Alone, NEW e \in Engines, NEW t \in Tasks,
         \A id, n : n \in Names(t)' /\ files'[t][n] \in Records /\ files'[t][n].id = id => Has(t, id),
         memory'[e][t].record \in Records => Has(t, memory'[e][t].record.id)
  PROVE  \A id : Has(t, id)' => Has(t, id)
<1> SUFFICES ASSUME NEW id, Has(t, id)' PROVE Has(t, id)
  OBVIOUS
<1>1. \/ \E n \in Names(t)' : files'[t][n] \in Records /\ files'[t][n].id = id
      \/ memory'[e][t].record \in Records /\ memory'[e][t].record.id = id
  BY RemovingAlone
<1> QED BY <1>1

(* A save is done. *)
LEMMA SaveDoneStands ==
  ASSUME Alone, EngineStands, NEW e \in Engines, NEW t \in Tasks, SaveDone(e, t)
  PROVE  EngineStands'
<1>0. TypeOK /\ QueueStands(e, t) /\ RecordStands(e, t) /\ FilesStand(t) /\ CallsStand(t)
  BY DEF EngineStands
<1>1. /\ jobs[e][t] # <<>> /\ Current(e, t).op = "save" /\ stage[e][t] = "write"
      /\ UNCHANGED <<dirs, faults, life, kept, plans, called, damaged, disturbed>> /\ SettleJob(e, t, <<>>)
      /\ files' = Written(e, t)
  BY DEF SaveDone, SaveSettles, Doing, historyVars
<1>m. PICK m \in MemoryType : m = memory[e][t]
  BY <1>0 DEF TypeOK
<1>2. /\ Current(e, t).by = "main" /\ pc[e][t] \in SavePoints /\ ~Asked(e, t, "forget") /\ ~m.failed
      /\ m.record \in Records /\ Normal(m.record) /\ m.revision \in Nat
      /\ m.revision + 1 <= Reaches(m.record) /\ m.revision + 1 \in 1 .. MaxRevisions /\ Has(t, m.record.id)
  BY <1>1, <1>m, SaveUnderWay
<1>3. /\ FilesStand(t)' /\ t \in kept[e]
      /\ Written(e, t) \in [Tasks -> [1 .. MaxRevisions -> Records \cup {Missing, Torn}]]
      /\ \A u \in Tasks \ {t} : Written(e, t)[u] = files[u]
      /\ \A id, n : n \in Names(t)' /\ files'[t][n] \in Records /\ files'[t][n].id = id => Has(t, id)
      /\ t \notin damaged => Saved(t)' /\ Latest(t)' = m.record /\ Revision(t)' = m.revision + 1
  BY <1>1, <1>m, WriteStands
<1>n. PICK n \in MemoryType : n = Advanced(m) /\ n.record = m.record /\ n.revision = m.revision + 1 /\ n.failed = FALSE
  <2>1. m.revision + 1 \in 0 .. MaxRevisions
    BY <1>2
  <2>2. Advanced(m) \in MemoryType
    BY <2>1 DEF Advanced, MemoryType
  <2> QED BY <1>2, <2>2 DEF Advanced, MemoryType
<1>p. PICK p \in {"prepare", "call", "stream", "head", "idle"} :
        /\ pc' = [pc EXCEPT ![e][t] = p] /\ memory' = [memory EXCEPT ![e][t] = n]
        /\ p = "prepare" => pc[e][t] = "commit"
        /\ p = "call" => pc[e][t] = "running"
        /\ p = "stream" => pc[e][t] = "checkpoint"
        /\ p = "head" => m.record.status \in Safe
        /\ signal' \in [Engines -> [Tasks -> BOOLEAN]] /\ stopped' \in [Engines -> [Tasks -> BOOLEAN]]
  <2>1. CASE pc[e][t] \in DOMAIN AfterSave
    <3>1. pc[e][t] \in {"commit", "running", "checkpoint"}
      BY <2>1 DEF AfterSave
    <3>2. /\ pc' = [pc EXCEPT ![e][t] = AfterSave[pc[e][t]]] /\ memory' = [memory EXCEPT ![e][t] = n]
          /\ UNCHANGED <<signal, stopped>>
      BY <1>m, <1>n, <2>1 DEF SaveDone, Goto
    <3>3. /\ pc[e][t] = "commit" => AfterSave[pc[e][t]] = "prepare"
          /\ pc[e][t] = "running" => AfterSave[pc[e][t]] = "call"
          /\ pc[e][t] = "checkpoint" => AfterSave[pc[e][t]] = "stream"
      BY DEF AfterSave
    <3> QED BY <1>0, <3>1, <3>2, <3>3 DEF TypeOK
  <2>2. CASE pc[e][t] \notin DOMAIN AfterSave /\ pc[e][t] = "settle" /\ n.record.status \in Safe
    <3>1. /\ pc' = [pc EXCEPT ![e][t] = "head"] /\ memory' = [memory EXCEPT ![e][t] = n]
          /\ stopped' = [stopped EXCEPT ![e][t] = FALSE] /\ signal' = signal
      BY <1>m, <1>n, <2>2 DEF SaveDone, Goto
    <3>2. stopped' \in [Engines -> [Tasks -> BOOLEAN]]
      BY <1>0, <3>1, PutFacts DEF TypeOK
    <3> QED BY <1>0, <1>n, <2>2, <3>1, <3>2 DEF TypeOK
  <2>3. CASE pc[e][t] \notin DOMAIN AfterSave /\ ~(pc[e][t] = "settle" /\ n.record.status \in Safe)
    <3>1. Leave(e, t, n)
      BY <1>m, <1>n, <2>3 DEF SaveDone
    <3>2. signal' \in [Engines -> [Tasks -> BOOLEAN]] /\ stopped' \in [Engines -> [Tasks -> BOOLEAN]]
      BY <1>0, <3>1, LeaveFacts
    <3>3. pc' = [pc EXCEPT ![e][t] = "idle"] /\ memory' = [memory EXCEPT ![e][t] = n]
      BY <1>3, <3>1 DEF Leave, Goto
    <3> QED BY <3>2, <3>3
  <2> QED BY <2>1, <2>2, <2>3
<1>4. /\ pc' \in [Engines -> [Tasks -> Points]] /\ pc'[e][t] = p
      /\ \A u \in Tasks \ {t} : pc'[e][u] = pc[e][u]
      /\ \A d \in Engines, u \in Tasks : <<d, u>> # <<e, t>> => pc'[d][u] = pc[d][u]
  <2>1. p \in Points
    BY DEF Points
  <2> QED BY <1>0, <1>p, <2>1, PutFacts DEF TypeOK
<1>5. /\ memory' \in [Engines -> [Tasks -> MemoryType]] /\ memory'[e][t] = n
      /\ \A u \in Tasks \ {t} : memory'[e][u] = memory[e][u]
  BY <1>0, <1>p, PutFacts DEF TypeOK
<1>6. p \notin LoadPoints /\ p \notin SavePoints /\ (p \in CallPoints => p \in {"prepare", "call"})
  BY DEF LoadPoints, SavePoints, CallPoints
<1>7. /\ jobs' \in [Engines -> [Tasks -> Seq(JobType)]]
      /\ stage' \in [Engines -> [Tasks -> {"start", "create", "write", "rm"}]]
      /\ stage'[e][t] = "start"
      /\ \A u \in Tasks \ {t} : jobs'[e][u] = jobs[e][u] /\ stage'[e][u] = stage[e][u]
      /\ QueueStands(e, t)' /\ ~Asked(e, t, "forget")'
  BY <1>0, <1>1, <1>2, <1>4, <1>6, SettledMain
<1>8. TypeOK'
  <2>1. plans' \in Nat /\ IsFiniteSet(Planning)' /\ (plans + Cardinality(Planning) <= MaxPlans)'
    <3>1. Planning' \subseteq Planning
      BY <1>0, <1>4, PlanningSame
    <3> QED BY <1>0, <1>1, <3>1, PlanningFalls
  <2> QED BY <1>0, <1>1, <1>3, <1>p, <1>4, <1>5, <1>7, <2>1 DEF TypeOK
<1>9. RecordStands(e, t)'
  <2>1. StatusAt(e, t)'
    BY <1>0, <1>m, <1>n, <1>p, <1>4, <1>5 DEF RecordStands, StatusAt
  <2>2. n.revision + 0 <= Reaches(n.record) /\ n.revision >= 1
    BY <1>2, <1>n
  <2> QED BY <1>1, <1>2, <1>3, <1>n, <1>4, <1>5, <1>6, <2>1, <2>2 DEF RecordStands
<1>10. SavesStand(e, t)'
  BY <1>1, <1>3, <1>n, <1>4, <1>5, <1>6 DEF SavesStand, Shown
<1>11. CallsStand(t)'
  <2>1. t \notin damaged => Covers(m.record) /\ (pc[e][t] \in CallPoints => <<m.record.id, m.record.rounds>> \notin called)
    BY <1>0, <1>m, <1>3 DEF CallsStand, CallPoints
  <2>2. p \in CallPoints => pc[e][t] \in CallPoints
    BY <1>p, <1>6 DEF CallPoints
  <2>3. t \notin damaged => Covers(m.record)'
    BY <1>1, <2>1 DEF Covers
  <2>4. t \notin damaged => Covers(Latest(t))' /\ Covers(memory[e][t].record)'
    BY <1>3, <1>n, <1>5, <2>3 DEF Covers
  <2> QED BY <1>1, <1>n, <1>4, <1>5, <2>1, <2>2, <2>4 DEF CallsStand, CallPoints, Alone
<1>12. \A id : Has(t, id)' => Has(t, id)
  <2>1. memory'[e][t].record \in Records => Has(t, memory'[e][t].record.id)
    BY <1>2, <1>n, <1>5
  <2> QED BY <1>3, <2>1, HasStays
<1>13. Elsewhere(e, t) /\ CalledFor(t)
  BY <1>1, <1>3, <1>4, <1>5, <1>7 DEF Elsewhere, CalledFor
<1>14. Part(e, t)' /\ plans' >= plans
  BY <1>0, <1>1, <1>3, <1>7, <1>9, <1>10, <1>11 DEF Part, TypeOK
<1> QED BY <1>8, <1>12, <1>13, <1>14, Reassembled

(* The record of a save that failed. *)
LEMMA FailedFacts ==
  ASSUME TypeOK, NEW e \in Engines, NEW t \in Tasks, memory[e][t].record \in Records
  PROVE  LET n == FailedSave(e, t) IN
         /\ n \in MemoryType /\ n.failed = TRUE /\ n.record \in Records
         /\ n.record.id = memory[e][t].record.id /\ n.record.rounds = memory[e][t].record.rounds
<1>m. PICK m \in MemoryType : m = memory[e][t]
  BY DEF TypeOK
<1>1. PICK f \in MemoryType : f = [m EXCEPT !.failed = TRUE] /\ f.record = m.record
  <2>1. [m EXCEPT !.failed = TRUE] \in MemoryType /\ [m EXCEPT !.failed = TRUE].record = m.record
    BY DEF MemoryType
  <2> QED BY <2>1
<1>2. f.failed = TRUE /\ m.record \in Records
  BY <1>m, <1>1 DEF MemoryType
<1>3. CASE pc[e][t] \notin {"commit", "running", "checkpoint", "settle"}
  BY <1>m, <1>1, <1>2, <1>3 DEF FailedSave
<1>4. CASE pc[e][t] \in {"commit", "running", "checkpoint", "settle"}
  <2>1. PICK l \in RoundStatuses \cup {"none"} :
          l = IF f.record.last = "COMPLETED" THEN f.record.last ELSE "INTERRUPTED_UNCERTAIN"
    <3>1. (IF f.record.last = "COMPLETED" THEN f.record.last ELSE "INTERRUPTED_UNCERTAIN") \in RoundStatuses \cup {"none"}
      BY DEF RoundStatuses
    <3> QED BY <3>1
  <2>2. PICK r \in Records : /\ r = [m.record EXCEPT !.status = "INTERRUPTED_UNCERTAIN", !.last = l]
                             /\ r.id = m.record.id /\ r.rounds = m.record.rounds
    <3>1. "INTERRUPTED_UNCERTAIN" \in Statuses
      BY DEF Statuses
    <3>2. PICK q \in Records : q = m.record
      BY <1>2
    <3>3. /\ [q EXCEPT !.status = "INTERRUPTED_UNCERTAIN", !.last = l] \in Records
          /\ [q EXCEPT !.status = "INTERRUPTED_UNCERTAIN", !.last = l].id = q.id
          /\ [q EXCEPT !.status = "INTERRUPTED_UNCERTAIN", !.last = l].rounds = q.rounds
      BY <2>1, <3>1 DEF Records
    <3> QED BY <3>2, <3>3
  <2>3. PICK g \in MemoryType : g = [f EXCEPT !.record = r] /\ g.record = r /\ g.failed = TRUE
    <3>1. /\ [f EXCEPT !.record = r] \in MemoryType /\ [f EXCEPT !.record = r].record = r
          /\ [f EXCEPT !.record = r].failed = f.failed
      BY DEF MemoryType
    <3> QED BY <1>2, <3>1
  <2>4. FailedSave(e, t) = g
    <3>1. FailedSave(e, t) = [f EXCEPT !.record.status = "INTERRUPTED_UNCERTAIN",
                                       !.record.last = IF @ = "COMPLETED" THEN @ ELSE "INTERRUPTED_UNCERTAIN"]
      BY <1>m, <1>1, <1>4 DEF FailedSave
    <3>2. PICK s \in Records : s = [f.record EXCEPT !.status = "INTERRUPTED_UNCERTAIN"] /\ s.last = f.record.last
      <4>1. PICK q \in Records : q = f.record
        BY <1>1, <1>2
      <4>2. "INTERRUPTED_UNCERTAIN" \in Statuses
        BY DEF Statuses
      <4>3. [q EXCEPT !.status = "INTERRUPTED_UNCERTAIN"] \in Records
            /\ [q EXCEPT !.status = "INTERRUPTED_UNCERTAIN"].last = q.last
        BY <4>2 DEF Records
      <4> QED BY <4>1, <4>3
    <3>3. PICK h \in MemoryType : h = [f EXCEPT !.record = s] /\ h.record = s
      <4>1. [f EXCEPT !.record = s] \in MemoryType /\ [f EXCEPT !.record = s].record = s
        BY DEF MemoryType
      <4> QED BY <4>1
    <3>4. FailedSave(e, t) = [h EXCEPT !.record.last = IF @ = "COMPLETED" THEN @ ELSE "INTERRUPTED_UNCERTAIN"]
      BY <3>1, <3>2, <3>3 DEF MemoryType
    <3>5. FailedSave(e, t) = [h EXCEPT !.record = [s EXCEPT !.last = l]]
      BY <2>1, <3>2, <3>3, <3>4 DEF MemoryType
    <3>6. [s EXCEPT !.last = l] = r
      BY <1>1, <2>2, <3>2 DEF Records
    <3> QED BY <2>3, <3>3, <3>5, <3>6 DEF MemoryType
  <2> QED BY <1>m, <2>2, <2>3, <2>4
<1> QED BY <1>3, <1>4

(* A save fails. *)
LEMMA SaveFailedStands ==
  ASSUME Alone, EngineStands, NEW e \in Engines, NEW t \in Tasks, SaveFailed(e, t)
  PROVE  EngineStands'
<1>0. TypeOK /\ QueueStands(e, t) /\ RecordStands(e, t) /\ FilesStand(t) /\ CallsStand(t)
  BY DEF EngineStands
<1>1. /\ jobs[e][t] # <<>> /\ Current(e, t).op = "save"
      /\ UNCHANGED <<life, kept, plans, called, damaged>> /\ SettleJob(e, t, <<>>)
      /\ Leave(e, t, FailedSave(e, t)) /\ disturbed' \in {disturbed, disturbed \cup {t}}
  BY DEF SaveFailed, SaveFails, Doing
<1>m. PICK m \in MemoryType : m = memory[e][t]
  BY <1>0 DEF TypeOK
<1>2. /\ Current(e, t).by = "main" /\ m.record \in Records /\ Has(t, m.record.id) /\ ~Removing(t)
  BY <1>1, <1>m, SaveUnderWay
<1>3. /\ dirs' \in {dirs, dirs \cup {t}} /\ faults' \in 0 .. MaxFaults
      /\ files' = files \/ (stage[e][t] = "write" /\ files' = Written(e, t) /\ dirs' = dirs)
  BY <1>0, JournalAssumption DEF SaveFailed, SaveFails, TypeOK
<1>n. PICK n \in MemoryType : n = FailedSave(e, t) /\ n.failed = TRUE /\ n.record \in Records
                              /\ n.record.id = m.record.id /\ n.record.rounds = m.record.rounds
  BY <1>0, <1>m, <1>2, FailedFacts
<1>4. /\ memory' \in [Engines -> [Tasks -> MemoryType]] /\ pc' \in [Engines -> [Tasks -> Points]]
      /\ signal' \in [Engines -> [Tasks -> BOOLEAN]] /\ stopped' \in [Engines -> [Tasks -> BOOLEAN]]
      /\ pc'[e][t] = "idle" /\ memory'[e][t] = IF t \in kept[e] THEN n ELSE Unloaded
      /\ \A u \in Tasks \ {t} : memory'[e][u] = memory[e][u] /\ pc'[e][u] = pc[e][u]
      /\ Planning' \subseteq Planning
  <2>1. Leave(e, t, n)
    BY <1>1, <1>n
  <2> QED BY <1>0, <2>1, LeaveFacts
<1>5. /\ jobs' \in [Engines -> [Tasks -> Seq(JobType)]]
      /\ stage' \in [Engines -> [Tasks -> {"start", "create", "write", "rm"}]]
      /\ stage'[e][t] = "start"
      /\ \A u \in Tasks \ {t} : jobs'[e][u] = jobs[e][u] /\ stage'[e][u] = stage[e][u]
      /\ QueueStands(e, t)'
  <2>1. pc'[e][t] \notin LoadPoints \cup SavePoints
    BY <1>4 DEF LoadPoints, SavePoints
  <2> QED BY <1>0, <1>1, <1>2, <2>1, SettledMain
<1>6. /\ files' \in [Tasks -> [1 .. MaxRevisions -> Records \cup {Missing, Torn}]]
      /\ \A u \in Tasks \ {t} : files'[u] = files[u]
      /\ FilesStand(t)'
      /\ \A id, j : j \in Names(t)' /\ files'[t][j] \in Records /\ files'[t][j].id = id => Has(t, id)
      /\ t \notin damaged => ~Saved(t)' \/ Latest(t)' = m.record \/ (Saved(t) /\ Latest(t)' = Latest(t))
  <2>1. CASE files' = files
    <3>1. FilesStand(t)'
      BY <1>0, <1>1, <1>2, <1>3, <2>1, FilesKept
    <3>2. Names(t)' = Names(t) /\ Latest(t)' = Latest(t) /\ (Saved(t)' <=> Saved(t))
      BY <1>0, <1>3, <2>1, ReadAsBefore
    <3> QED BY <1>0, <2>1, <3>1, <3>2 DEF TypeOK, Has
  <2>2. CASE stage[e][t] = "write" /\ files' = Written(e, t) /\ dirs' = dirs
    BY <1>1, <1>m, <2>2, WriteStands
  <2> QED BY <1>3, <2>1, <2>2
<1>7. TypeOK'
  <2>1. plans' \in Nat /\ IsFiniteSet(Planning)' /\ (plans + Cardinality(Planning) <= MaxPlans)'
    BY <1>0, <1>1, <1>4, PlanningFalls
  <2>2. damaged' \in SUBSET disturbed' /\ disturbed' \in SUBSET Tasks /\ dirs' \in SUBSET Tasks
    BY <1>0, <1>1, <1>3 DEF TypeOK
  <2> QED BY <1>0, <1>1, <1>3, <1>4, <1>5, <1>6, <2>1, <2>2 DEF TypeOK
<1>8. RecordStands(e, t)'
  BY <1>1, <1>n, <1>4, RecordRests
<1>9. SavesStand(e, t)'
  BY <1>1, <1>n, <1>4 DEF SavesStand
<1>10. CallsStand(t)'
  <2>1. t \in kept[e] /\ t \notin damaged => Covers(m.record)
    BY <1>0, <1>m DEF CallsStand
  <2>2. t \in kept'[e] /\ t \notin damaged' => Covers(memory[e][t].record)' /\ pc'[e][t] \notin CallPoints
    BY <1>1, <1>n, <1>4, <2>1 DEF Covers, CallPoints
  <2>3. t \notin damaged /\ Saved(t)' /\ stage[e][t] # "write" => Covers(Latest(t))'
    <3> HAVE t \notin damaged /\ Saved(t)' /\ stage[e][t] # "write"
    <3>1. Latest(t)' = Latest(t) /\ (Saved(t)' <=> Saved(t))
      BY <1>0, <1>3, ReadAsBefore
    <3> QED BY <1>0, <1>1, <1>2, <3>1 DEF CallsStand, Covers
  <2>4. t \notin damaged /\ Saved(t)' /\ stage[e][t] = "write" => Covers(Latest(t))'
    <3> HAVE t \notin damaged /\ Saved(t)' /\ stage[e][t] = "write"
    <3>1. files'[t] \in {files[t], Written(e, t)[t]} /\ (t \in dirs' <=> t \in dirs)
      <4>1. t \in dirs' <=> t \in dirs
        BY <1>0 DEF SaveFailed, SaveFails, Doing
      <4> QED BY <1>3, <4>1
    <3>2. t \in kept[e] /\ Latest(t)' = m.record
      BY <1>1, <1>m, <3>1, WriteStands
    <3>3. Covers(m.record)
      BY <2>1, <3>2
    <3> QED BY <1>1, <3>2, <3>3 DEF Covers
  <2> QED BY <1>1, <2>2, <2>3, <2>4 DEF CallsStand, CallPoints, Alone
<1>11. \A id : Has(t, id)' => Has(t, id)
  <2>1. Unloaded.record \notin Records
    BY NoRecords DEF Unloaded
  <2>2. memory'[e][t].record \in Records => Has(t, memory'[e][t].record.id)
    BY <1>2, <1>n, <1>4, <2>1
  <2> QED BY <1>6, <2>2, HasStays
<1>12. Elsewhere(e, t) /\ CalledFor(t)
  BY <1>1, <1>3, <1>4, <1>5, <1>6 DEF Elsewhere, CalledFor
<1>13. Part(e, t)' /\ plans' >= plans
  BY <1>0, <1>1, <1>5, <1>6, <1>8, <1>9, <1>10 DEF Part, TypeOK
<1> QED BY <1>7, <1>11, <1>12, <1>13, Reassembled

(* save() finds that the record follows what the journal has. *)
LEMMA SaveCheckStands ==
  ASSUME Alone, EngineStands, NEW e \in Engines, NEW t \in Tasks, SaveCheck(e, t),
         UNCHANGED <<engineVars, plans, called, damaged, disturbed>>
  PROVE  EngineStands'
<1>0. /\ TypeOK /\ QueueStands(e, t) /\ RecordStands(e, t) /\ SavesStand(e, t) /\ FilesStand(t) /\ CallsStand(t)
  BY DEF EngineStands
<1>1. /\ jobs[e][t] # <<>> /\ Current(e, t).op = "save" /\ stage[e][t] = "start"
      /\ dirs' = dirs \cup {t} /\ stage' = [stage EXCEPT ![e][t] = "create"] /\ jobs' = jobs /\ files' = files
      /\ UNCHANGED <<faults, life, kept, memory, pc, signal, stopped, plans, called, damaged, disturbed>>
  BY DEF SaveCheck, Doing, Advance, engineVars
<1>m. PICK m \in MemoryType : m = memory[e][t]
  BY <1>0 DEF TypeOK
<1>2. /\ Current(e, t).by = "main" /\ Current(e, t).expected = m.revision
      /\ pc[e][t] \in SavePoints /\ ~Asked(e, t, "forget") /\ ~m.failed
      /\ (t \notin kept[e] => Gone(e, t) /\ m.revision >= 1) /\ ~Removing(t) /\ m.revision \in Nat
  BY <1>1, <1>m, SaveUnderWay
<1>3. t \in kept[e]
  <2> SUFFICES ASSUME t \notin kept[e] PROVE FALSE
    OBVIOUS
  <2>1. Names(t) = {} /\ m.revision # 0
    BY <1>2 DEF Gone
  <2>2. ~Saved(t)
    BY <1>0, <2>1, LatestFacts
  <2> QED BY <1>2, <2>1, <2>2 DEF SaveCheck, Accepts
<1>4. /\ stage' \in [Engines -> [Tasks -> {"start", "create", "write", "rm"}]]
      /\ stage'[e][t] = "create"
      /\ \A u \in Tasks \ {t} : stage'[e][u] = stage[e][u]
  BY <1>0, <1>1, PutFacts DEF TypeOK
<1>5. TypeOK'
  <2>1. plans' \in Nat /\ IsFiniteSet(Planning)' /\ (plans + Cardinality(Planning) <= MaxPlans)'
    BY <1>0, <1>1, PlanningFalls DEF Planning
  <2> QED BY <1>0, <1>1, <1>4, <2>1 DEF TypeOK
<1>6. QueueStands(e, t)'
  <2>1. Doing(e, t, "save", "main", "create")'
    BY <1>1, <1>2, <1>4 DEF Doing, Current
  <2>2. \A who : Asked(e, t, who)' <=> Asked(e, t, who)
    BY <1>1 DEF Asked
  <2> QED BY <1>0, <1>1, <1>4, <2>1, <2>2 DEF QueueStands
<1>7. RecordStands(e, t)'
  BY <1>0, <1>1, <1>3 DEF RecordStands, StatusAt
<1>8. SavesStand(e, t)'
  <2> SUFFICES ASSUME t \notin damaged PROVE Follower(e, t)'
    BY <1>1, <1>2 DEF SavesStand
  <2>1. Follower(e, t)
    BY <1>0, <1>2, <1>3, <1>m DEF SavesStand
  <2>2. /\ Names(t)' = Names(t)
        /\ \A k : Whole(t, k)' <=> Whole(t, k)
    BY <1>0, <1>1, ReadAsBefore
  <2>3. /\ Names(t) = 1 .. m.revision /\ Whole(t, m.revision)
        /\ m.revision = 0 => Initial(m.record)
        /\ m.revision > 0 => Follows(files[t][m.revision], m.record)
    BY <1>1, <1>m, <2>1 DEF Follower
  <2>4. memory'[e][t] = m /\ files' = files /\ t \in dirs'
    BY <1>1, <1>m
  <2> QED BY <1>4, <2>2, <2>3, <2>4 DEF Follower
<1>9. FilesStand(t)'
  BY <1>0, <1>1, <1>2, FilesKept
<1>10. CallsStand(t)'
  <2>1. t \notin damaged => Covers(m.record) /\ (pc[e][t] \in CallPoints => Round(e, t) \notin called)
    BY <1>0, <1>3, <1>m DEF CallsStand, CallPoints, Round
  <2>2. memory'[e][t] = m /\ pc' = pc /\ called' = called /\ Round(e, t)' = Round(e, t)
    BY <1>1, <1>m DEF Round
  <2>3. t \notin damaged' => Covers(memory[e][t].record)' /\ (pc'[e][t] \in CallPoints => Round(e, t)' \notin called)
    BY <1>1, <2>1, <2>2 DEF Covers
  <2> QED BY <1>0, <1>1, <1>2, <2>3, CallsKept
<1>11. \A id : Has(t, id)' => Has(t, id)
  BY <1>0, <1>1, HasKept
<1>12. Elsewhere(e, t) /\ CalledFor(t)
  BY <1>1, <1>4 DEF Elsewhere, CalledFor
<1>13. Part(e, t)' /\ plans' >= plans
  BY <1>0, <1>1, <1>6, <1>7, <1>8, <1>9, <1>10 DEF Part, TypeOK
<1> QED BY <1>5, <1>11, <1>12, <1>13, Reassembled

(* A save creates its file, which has no content yet. *)
LEMMA SaveCreateStands ==
  ASSUME Alone, EngineStands, NEW e \in Engines, NEW t \in Tasks, SaveCreate(e, t),
         UNCHANGED <<engineVars, plans, called, damaged, disturbed>>
  PROVE  EngineStands'
<1>0. /\ TypeOK /\ QueueStands(e, t) /\ RecordStands(e, t) /\ SavesStand(e, t) /\ FilesStand(t) /\ CallsStand(t)
  BY DEF EngineStands
<1>1. /\ jobs[e][t] # <<>> /\ Current(e, t).op = "save" /\ stage[e][t] = "create"
      /\ stage' = [stage EXCEPT ![e][t] = "write"] /\ jobs' = jobs /\ t \in dirs
      /\ UNCHANGED <<dirs, faults, life, kept, memory, pc, signal, stopped, plans, called, damaged, disturbed>>
  BY DEF SaveCreate, Creatable, Doing, Advance, engineVars
<1>m. PICK m \in MemoryType : m = memory[e][t]
  BY <1>0 DEF TypeOK
<1>2. /\ Current(e, t).by = "main" /\ Current(e, t).expected = m.revision
      /\ pc[e][t] \in SavePoints /\ ~Asked(e, t, "forget") /\ ~m.failed
      /\ (t \notin kept[e] => Gone(e, t)) /\ ~Removing(t) /\ m.revision \in Nat /\ m.revision + 1 \in 1 .. MaxRevisions
  BY <1>1, <1>m, SaveUnderWay
<1>k. PICK j \in Nat, k \in 1 .. MaxRevisions : j = m.revision /\ k = j + 1
  BY <1>2
<1>3. t \in kept[e]
  BY <1>1, <1>2 DEF Gone
<1>4. /\ stage' \in [Engines -> [Tasks -> {"start", "create", "write", "rm"}]]
      /\ stage'[e][t] = "write"
      /\ \A u \in Tasks \ {t} : stage'[e][u] = stage[e][u]
  BY <1>0, <1>1, PutFacts DEF TypeOK
<1>f. PICK g \in [1 .. MaxRevisions -> Records \cup {Missing, Torn}] :
        g = [files[t] EXCEPT ![k] = Torn] /\ files' = [files EXCEPT ![t] = g] /\ files[t][k] = Missing
  <2>1. files[t] \in [1 .. MaxRevisions -> Records \cup {Missing, Torn}]
    BY <1>0 DEF TypeOK
  <2>2. [files[t] EXCEPT ![k] = Torn] \in [1 .. MaxRevisions -> Records \cup {Missing, Torn}]
    BY <2>1
  <2>3. files' = [files EXCEPT ![t][k] = Torn] /\ files[t][k] = Missing
    BY <1>2, <1>k DEF SaveCreate, Creatable
  <2>4. files' = [files EXCEPT ![t] = [files[t] EXCEPT ![k] = Torn]]
    BY <1>0, <2>3 DEF TypeOK
  <2> QED BY <2>2, <2>3, <2>4
<1>5. /\ files' \in [Tasks -> [1 .. MaxRevisions -> Records \cup {Missing, Torn}]]
      /\ \A u \in Tasks \ {t} : files'[u] = files[u]
      /\ files'[t][k] = Torn /\ \A n \in (1 .. MaxRevisions) \ {k} : files'[t][n] = files[t][n]
  <2>1. files' \in [Tasks -> [1 .. MaxRevisions -> Records \cup {Missing, Torn}]]
    BY <1>0, <1>f DEF TypeOK
  <2>2. files'[t] = g /\ \A u \in Tasks \ {t} : files'[u] = files[u]
    BY <1>0, <1>f DEF TypeOK
  <2>3. files[t] \in [1 .. MaxRevisions -> Records \cup {Missing, Torn}]
    BY <1>0 DEF TypeOK
  <2> QED BY <1>f, <2>1, <2>2, <2>3
<1>6. Names(t)' = Names(t) \cup {k} /\ k \notin Names(t)
  BY <1>f, <1>5, NoRecords DEF Names
<1>7. TypeOK'
  <2>1. plans' \in Nat /\ IsFiniteSet(Planning)' /\ (plans + Cardinality(Planning) <= MaxPlans)'
    BY <1>0, <1>1, PlanningFalls DEF Planning
  <2> QED BY <1>0, <1>1, <1>4, <1>5, <2>1 DEF TypeOK
<1>8. QueueStands(e, t)'
  <2>1. Doing(e, t, "save", "main", "write")'
    BY <1>1, <1>2, <1>4 DEF Doing, Current
  <2>2. \A who : Asked(e, t, who)' <=> Asked(e, t, who)
    BY <1>1 DEF Asked
  <2> QED BY <1>0, <1>1, <1>4, <2>1, <2>2 DEF QueueStands
<1>9. RecordStands(e, t)'
  BY <1>0, <1>1, <1>3 DEF RecordStands, StatusAt
<1>10. ASSUME t \notin damaged
       PROVE  /\ Names(t) = 1 .. j /\ Whole(t, j)
              /\ j = 0 => Initial(m.record)
              /\ j > 0 => Follows(files[t][j], m.record)
              /\ Names(t)' = 1 .. k /\ Whole(t, j)' /\ Revision(t)' = k
  <2>1. Follower(e, t)
    BY <1>0, <1>2, <1>3, <1>m, <1>10 DEF SavesStand
  <2>2. /\ Names(t) = 1 .. j /\ Whole(t, j)
        /\ j = 0 => Initial(m.record)
        /\ j > 0 => Follows(files[t][j], m.record)
    BY <1>1, <1>m, <1>k, <2>1 DEF Follower
  <2>3. 1 .. k = (1 .. j) \cup {k}
    BY <1>k
  <2>4. Names(t)' = 1 .. k
    BY <1>6, <2>2, <2>3
  <2>5. Revision(t)' = k
    <3>1. k \in Nat
      BY JournalAssumption
    <3>2. Cardinality(1 .. k) = k
      BY <3>1, FS_Interval
    <3> QED BY <2>4, <3>2 DEF Revision
  <2>6. \A n \in 1 .. j : files'[t][n] = files[t][n]
    BY <1>k, <1>5, JournalAssumption
  <2>7. Whole(t, j)'
    <3>1. \A n \in 1 .. j : files'[t][n] \in Records /\ Normal(files'[t][n])
      BY <2>2, <2>6 DEF Whole
    <3>2. j >= 1 => Initial(files'[t][1])
      BY <1>k, <2>2, <2>6 DEF Whole
    <3>3. \A n \in 2 .. j : Follows(files'[t][n - 1], files'[t][n])
      BY <1>k, <2>2, <2>6 DEF Whole
    <3> QED BY <3>1, <3>2, <3>3 DEF Whole
  <2> QED BY <2>2, <2>4, <2>5, <2>7
<1>11. ~Removing(t)'
  BY <1>4, RemovingAlone
<1>12. SavesStand(e, t)'
  <2> SUFFICES ASSUME t \notin damaged PROVE Follower(e, t)'
    BY <1>1, <1>2 DEF SavesStand
  <2>1. memory'[e][t] = m /\ m.revision = j /\ j + 1 = k /\ t \in dirs'
    BY <1>1, <1>m, <1>k
  <2>2. j > 0 => files'[t][j] = files[t][j]
    <3> HAVE j > 0
    <3>1. j \in (1 .. MaxRevisions) \ {k}
      BY <1>k, JournalAssumption
    <3> QED BY <1>5, <3>1
  <2>3. /\ Names(t)' = 1 .. (j + 1) /\ Whole(t, j)'
        /\ j = 0 => Initial(m.record)
        /\ j > 0 => Follows(files'[t][j], m.record)
        /\ files'[t][j + 1] = Torn
    BY <1>5, <1>10, <2>1, <2>2
  <2>4. Whole(t, memory[e][t].revision)'
    BY <2>1, <2>3
  <2> QED BY <1>4, <2>1, <2>3, <2>4 DEF Follower
<1>13. FilesStand(t)'
  <2>1. \A n \in Names(t)' : files'[t][n] \in Records => n <= Reaches(files'[t][n])
    <3> SUFFICES ASSUME NEW n \in Names(t)', files'[t][n] \in Records PROVE n <= Reaches(files'[t][n])
      OBVIOUS
    <3>1. n # k
      BY <1>5, NoRecords
    <3>2. n \in Names(t) /\ n \in 1 .. MaxRevisions
      BY <1>6, <3>1 DEF Names
    <3> QED BY <1>0, <1>5, <3>1, <3>2 DEF FilesStand
  <2>2. t \notin damaged => Names(t)' = 1 .. Revision(t)'
                            /\ Whole(t, Revision(t) - 1)' /\ files'[t][Revision(t)'] = Torn
    <3> HAVE t \notin damaged
    <3>1. Revision(t)' = k /\ k - 1 = j
      BY <1>10, <1>k
    <3> QED BY <1>5, <1>10, <3>1
  <2> QED BY <1>1, <2>1, <2>2 DEF FilesStand
<1>14. CallsStand(t)'
  <2>1. t \notin damaged => Covers(m.record) /\ (pc[e][t] \in CallPoints => Round(e, t) \notin called)
    BY <1>0, <1>3, <1>m DEF CallsStand, CallPoints, Round
  <2>2. memory'[e][t] = m /\ pc' = pc /\ called' = called /\ Round(e, t)' = Round(e, t) /\ damaged' = damaged
    BY <1>1, <1>m DEF Round
  <2>3. t \notin damaged' => Covers(memory[e][t].record)' /\ (pc'[e][t] \in CallPoints => Round(e, t)' \notin called')
    BY <2>1, <2>2 DEF Covers
  <2>4. t \notin damaged => ~Saved(t)'
    <3> SUFFICES ASSUME t \notin damaged, Saved(t)' PROVE FALSE
      OBVIOUS
    <3>1. Chained(t)'
      BY NoRecords DEF Saved, Latest
    <3>2. files'[t][k] \in Records
      BY <1>6, <3>1 DEF Chained
    <3> QED BY <1>5, <3>2, NoRecords
  <2> QED BY <2>2, <2>3, <2>4 DEF CallsStand, CallPoints, Round, Alone
<1>15. \A id : Has(t, id)' => Has(t, id)
  <2>1. \A id, n : n \in Names(t)' /\ files'[t][n] \in Records /\ files'[t][n].id = id => Has(t, id)
    <3> SUFFICES ASSUME NEW id, NEW n, n \in Names(t)', files'[t][n] \in Records, files'[t][n].id = id PROVE Has(t, id)
      OBVIOUS
    <3>1. n # k
      BY <1>5, NoRecords
    <3>2. n \in Names(t) /\ n \in 1 .. MaxRevisions
      BY <1>6, <3>1 DEF Names
    <3> QED BY <1>5, <3>1, <3>2 DEF Has
  <2>2. memory'[e][t].record \in Records => Has(t, memory'[e][t].record.id)
    BY <1>1 DEF Has
  <2> QED BY <2>1, <2>2, HasStays
<1>16. Elsewhere(e, t) /\ CalledFor(t)
  BY <1>1, <1>4, <1>5 DEF Elsewhere, CalledFor
<1>17. Part(e, t)' /\ plans' >= plans
  BY <1>0, <1>1, <1>8, <1>9, <1>12, <1>13, <1>14 DEF Part, TypeOK
<1> QED BY <1>7, <1>15, <1>16, <1>17, Reassembled

(* fs.rm takes a file away. *)
LEMMA RemoveFileStands ==
  ASSUME Alone, EngineStands, NEW e \in Engines, NEW t \in Tasks, RemoveFile(e, t),
         damaged' \in {damaged, damaged \cup {t}}, UNCHANGED <<engineVars, plans, called, disturbed>>
  PROVE  EngineStands'
<1>0. /\ TypeOK /\ QueueStands(e, t) /\ RecordStands(e, t) /\ FilesStand(t) /\ CallsStand(t)
  BY DEF EngineStands
<1>1. /\ jobs[e][t] # <<>> /\ Current(e, t).by = "forget" /\ stage[e][t] = "rm"
      /\ UNCHANGED <<dirs, jobs, stage, faults, life, kept, memory, pc, signal, stopped, plans, called, disturbed>>
  BY DEF RemoveFile, Doing, engineVars
<1>2. Removing(t) /\ Removing(t)' /\ t \in disturbed /\ ~Gone(e, t)
  <2>1. Asked(e, t, "forget")
    BY <1>0, <1>1, HeadFacts
  <2> QED BY <1>0, <1>1, <2>1, RemovingAlone DEF QueueStands, Gone
<1>n. PICK n \in Names(t) : files' = [files EXCEPT ![t][n] = Missing]
  BY DEF RemoveFile
<1>3. /\ files' \in [Tasks -> [1 .. MaxRevisions -> Records \cup {Missing, Torn}]]
      /\ \A u \in Tasks \ {t} : files'[u] = files[u]
      /\ files'[t][n] = Missing /\ \A i \in (1 .. MaxRevisions) \ {n} : files'[t][i] = files[t][i]
  <2>1. n \in 1 .. MaxRevisions
    BY DEF Names
  <2>2. files[t] \in [1 .. MaxRevisions -> Records \cup {Missing, Torn}]
    BY <1>0 DEF TypeOK
  <2>3. PICK g \in [1 .. MaxRevisions -> Records \cup {Missing, Torn}] : g = [files[t] EXCEPT ![n] = Missing]
    <3>1. [files[t] EXCEPT ![n] = Missing] \in [1 .. MaxRevisions -> Records \cup {Missing, Torn}]
      BY <2>1, <2>2
    <3> QED BY <3>1
  <2>4. files' = [files EXCEPT ![t] = g]
    BY <1>0, <1>n, <2>3 DEF TypeOK
  <2>5. files'[t] = g /\ \A u \in Tasks \ {t} : files'[u] = files[u]
    BY <1>0, <2>4 DEF TypeOK
  <2> QED BY <1>0, <2>1, <2>2, <2>3, <2>4, <2>5 DEF TypeOK
<1>4. \A i \in Names(t)' : i \in Names(t) /\ files'[t][i] = files[t][i]
  BY <1>3 DEF Names
<1>5. TypeOK'
  <2>1. plans' \in Nat /\ IsFiniteSet(Planning)' /\ (plans + Cardinality(Planning) <= MaxPlans)'
    BY <1>0, <1>1, PlanningFalls DEF Planning
  <2>2. damaged' \in SUBSET disturbed'
    BY <1>0, <1>1, <1>2 DEF TypeOK
  <2> QED BY <1>0, <1>1, <1>3, <2>1, <2>2 DEF TypeOK
<1>6. QueueStands(e, t)'
  <2>1. \A who : Asked(e, t, who)' <=> Asked(e, t, who)
    BY <1>1 DEF Asked
  <2>2. \A op, who, at : Doing(e, t, op, who, at)' <=> Doing(e, t, op, who, at)
    BY <1>1 DEF Doing, Current
  <2> QED BY <1>0, <1>1, <2>1, <2>2 DEF QueueStands
<1>7. RecordStands(e, t)'
  BY <1>0, <1>1, <1>2 DEF RecordStands, StatusAt
<1>8. SavesStand(e, t)'
  BY <1>2 DEF SavesStand
<1>9. FilesStand(t)'
  BY <1>0, <1>1, <1>2, <1>4 DEF FilesStand
<1>10. CallsStand(t)'
  <2>1. t \notin damaged' => t \notin damaged
    OBVIOUS
  <2>2. \A d \in Engines : Covers(memory[d][t].record)' <=> Covers(memory[d][t].record)
    BY <1>1 DEF Covers
  <2> QED BY <1>0, <1>1, <1>2, <2>1, <2>2 DEF CallsStand
<1>11. \A id : Has(t, id)' => Has(t, id)
  <2>1. \A id, i : i \in Names(t)' /\ files'[t][i] \in Records /\ files'[t][i].id = id => Has(t, id)
    BY <1>4 DEF Has
  <2>2. memory'[e][t].record \in Records => Has(t, memory'[e][t].record.id)
    BY <1>1 DEF Has
  <2> QED BY <2>1, <2>2, HasStays
<1>12. Elsewhere(e, t) /\ CalledFor(t)
  BY <1>1, <1>3 DEF Elsewhere, CalledFor
<1>13. Part(e, t)' /\ plans' >= plans
  BY <1>0, <1>1, <1>6, <1>7, <1>8, <1>9, <1>10 DEF Part, TypeOK
<1> QED BY <1>5, <1>11, <1>12, <1>13, Reassembled

(* The journal goes on with what it was asked for. *)
LEMMA JournalGoesOnStands ==
  ASSUME Alone, EngineStands, NEW e \in Engines, NEW t \in Tasks, JournalGoesOn(e, t)
  PROVE  EngineStands'
<1>1. damaged' \in {damaged, damaged \cup {t}} /\ UNCHANGED <<engineVars, plans, called, disturbed>>
  BY DEF JournalGoesOn
<1>2. stage[e][t] # "rm" => damaged' = damaged
  BY DEF JournalGoesOn
<1>3. CASE SaveCheck(e, t)
  BY <1>1, <1>2, <1>3, SaveCheckStands DEF SaveCheck, Doing
<1>4. CASE SaveCreate(e, t)
  BY <1>1, <1>2, <1>4, SaveCreateStands DEF SaveCreate, Doing
<1>5. CASE RemoveBegin(e, t)
  BY <1>1, <1>2, <1>5, RemoveBeginStands DEF RemoveBegin, Doing
<1>6. CASE RemoveFile(e, t)
  BY <1>1, <1>6, RemoveFileStands
<1> QED BY <1>3, <1>4, <1>5, <1>6 DEF JournalGoesOn, JournalStep

(* A deletion is done: the directory and the record in the map are gone. *)
LEMMA ForgottenStands ==
  ASSUME Alone, EngineStands, NEW e \in Engines, NEW t \in Tasks, Forgotten(e, t)
  PROVE  EngineStands'
<1>0. /\ TypeOK /\ QueueStands(e, t) /\ RecordStands(e, t) /\ FilesStand(t) /\ CallsStand(t)
  BY DEF EngineStands
<1>1. /\ jobs[e][t] # <<>> /\ Current(e, t).by = "forget" /\ stage[e][t] = "rm" /\ Names(t) = {}
      /\ dirs' = dirs \ {t} /\ SettleJob(e, t, <<>>)
      /\ damaged' \in {damaged \cup {t}, damaged \ {t}}
      /\ UNCHANGED <<files, faults, life, pc, signal, stopped, plans, called, disturbed>>
  BY DEF Forgotten, Doing
<1>2. Removing(t) /\ t \in disturbed /\ ~Gone(e, t) /\ pc[e][t] \in BesideForget
  <2>1. Asked(e, t, "forget")
    BY <1>0, <1>1, HeadFacts
  <2> QED BY <1>0, <1>1, <2>1, RemovingAlone DEF QueueStands, Gone
<1>m. PICK m \in MemoryType : m = IF pc[e][t] # "idle" THEN memory[e][t] ELSE Unloaded
  <2>1. Unloaded \in MemoryType
    BY JournalAssumption DEF Unloaded, MemoryType
  <2> QED BY <1>0, <2>1 DEF TypeOK
<1>3. /\ memory' \in [Engines -> [Tasks -> MemoryType]] /\ memory'[e][t] = m
      /\ \A u \in Tasks \ {t} : memory'[e][u] = memory[e][u]
  <2>1. CASE pc[e][t] # "idle"
    <3>1. memory' = memory
      BY <2>1 DEF Forgotten, Busy
    <3> QED BY <1>0, <1>m, <2>1, <3>1 DEF TypeOK
  <2>2. CASE pc[e][t] = "idle"
    <3>1. memory' = [memory EXCEPT ![e][t] = m]
      BY <1>m, <2>2 DEF Forgotten, Busy
    <3> QED BY <1>0, <3>1, PutFacts DEF TypeOK
  <2> QED BY <2>1, <2>2
<1>k. PICK k \in SUBSET Tasks : k = kept[e] \ {t} /\ kept' = [kept EXCEPT ![e] = k]
  BY <1>0 DEF Forgotten, TypeOK
<1>4. kept' \in [Engines -> SUBSET Tasks] /\ t \notin kept'[e] /\ \A u \in Tasks \ {t} : u \in kept'[e] <=> u \in kept[e]
  BY <1>0, <1>k DEF TypeOK
<1>5. /\ jobs' \in [Engines -> [Tasks -> Seq(JobType)]]
      /\ stage' \in [Engines -> [Tasks -> {"start", "create", "write", "rm"}]]
      /\ stage'[e][t] = "start"
      /\ \A u \in Tasks \ {t} : jobs'[e][u] = jobs[e][u] /\ stage'[e][u] = stage[e][u]
      /\ QueueStands(e, t)' /\ ~Asked(e, t, "forget")'
  <2>1. memory'[e][t] = memory[e][t] \/ pc'[e][t] \notin SavePoints
    BY <1>1, <1>m, <1>3 DEF SavePoints
  <2> QED BY <1>0, <1>1, <2>1, SettledAside
<1>6. TypeOK'
  <2>1. plans' \in Nat /\ IsFiniteSet(Planning)' /\ (plans + Cardinality(Planning) <= MaxPlans)'
    BY <1>0, <1>1, PlanningFalls DEF Planning
  <2>2. damaged' \in SUBSET disturbed'
    BY <1>0, <1>1, <1>2 DEF TypeOK
  <2> QED BY <1>0, <1>1, <1>3, <1>4, <1>5, <2>1, <2>2 DEF TypeOK
<1>7. Names(t)' = {} /\ Revision(t)' = 0 /\ ~Saved(t)'
  <2>1. Names(t)' = {}
    BY <1>1 DEF Names
  <2>2. Revision(t)' = 0
    BY <2>1, FS_EmptySet DEF Revision
  <2> QED BY <2>1, <2>2, NoRecords DEF Saved, Latest
<1>8. RecordStands(e, t)'
  <2>1. CASE pc[e][t] = "idle"
    <3>1. memory'[e][t] = Unloaded /\ pc'[e][t] = "idle" /\ Unloaded.record \notin Records
      BY <1>1, <1>m, <1>3, <2>1, NoRecords DEF Unloaded
    <3> QED BY <1>4, <3>1 DEF RecordStands, StatusAt
  <2>2. CASE pc[e][t] \in LoadPoints
    <3>1. memory'[e][t] = memory[e][t] /\ pc'[e][t] = pc[e][t]
      BY <1>1, <1>m, <1>3, <2>2 DEF LoadPoints
    <3> QED BY <1>0, <1>4, <2>2, <3>1 DEF RecordStands, StatusAt
  <2>3. CASE pc[e][t] \notin {"idle"} \cup LoadPoints
    <3>1. memory'[e][t] = memory[e][t] /\ pc'[e][t] = pc[e][t]
      BY <1>1, <1>m, <1>3, <2>3
    <3>2. memory[e][t].record \in Records /\ pc[e][t] \in {"ready", "head", "recover", "limit", "commit"}
      BY <1>0, <1>2, <2>3 DEF RecordStands, BesideForget
    <3>3. Gone(e, t)'
      BY <1>1, <1>2, <1>5, <1>7, <3>1, <3>2 DEF Gone
    <3> QED BY <1>0, <1>4, <3>1, <3>3 DEF RecordStands, StatusAt
  <2> QED BY <2>1, <2>2, <2>3
<1>9. SavesStand(e, t)'
  BY <1>4 DEF SavesStand
<1>10. FilesStand(t)'
  <2>1. 1 .. Revision(t)' = {} /\ Whole(t, Revision(t))'
    BY <1>7 DEF Whole
  <2> QED BY <1>7, <2>1 DEF FilesStand
<1>11. CallsStand(t)'
  BY <1>4, <1>7 DEF CallsStand, Alone
<1>12. \A id : Has(t, id)' => Has(t, id)
  <2>1. Unloaded.record \notin Records
    BY NoRecords DEF Unloaded
  <2>2. memory'[e][t].record \in Records => Has(t, memory'[e][t].record.id)
    BY <1>m, <1>3, <2>1 DEF Has
  <2> QED BY <1>7, <2>2, HasStays
<1>13. Elsewhere(e, t) /\ CalledFor(t)
  BY <1>1, <1>3, <1>4, <1>5 DEF Elsewhere, CalledFor
<1>14. Part(e, t)' /\ plans' >= plans
  BY <1>0, <1>1, <1>5, <1>8, <1>9, <1>10, <1>11 DEF Part, TypeOK
<1> QED BY <1>6, <1>12, <1>13, <1>14, Reassembled
-----------------------------------------------------------------------------
(* What a crash leaves of the files of a task. *)
LEMMA CrashLeaves ==
  ASSUME Alone, EngineStands, Crash, NEW t \in Tasks
  PROVE  /\ files'[t] \in [1 .. MaxRevisions -> Records \cup {Missing, Torn}]
         /\ FilesStand(t)' /\ CallsStand(t)'
         /\ \A id : Has(t, id)' => Has(t, id)
<1>0. TypeOK /\ FilesStand(t) /\ CallsStand(t)
  BY DEF EngineStands
<1>1. /\ dirs' = dirs /\ damaged' = damaged \cup {u \in Tasks : Removing(u)}
      /\ files'[t] \in FileOutcomes(t) /\ called' = called
      /\ stage' = [e \in Engines |-> [u \in Tasks |-> "start"]]
      /\ kept' = [e \in Engines |-> {}]
      /\ memory' = [e \in Engines |-> [u \in Tasks |-> Unloaded]]
  BY DEF Crash, JournalCrash
<1>2. (t \in damaged => t \in damaged') /\ (Removing(t) => t \in damaged')
  BY <1>1
<1>3. \A e \in Engines : t \notin kept'[e] /\ memory'[e][t].record \notin Records
  BY <1>1, NoRecords DEF Unloaded
<1>4. CASE files'[t] = files[t]
  <2>1. FilesStand(t)'
    BY <1>0, <1>1, <1>2, <1>4, FilesKept
  <2>2. Names(t)' = Names(t) /\ Latest(t)' = Latest(t) /\ (Saved(t)' <=> Saved(t))
    BY <1>0, <1>1, <1>4, ReadAsBefore
  <2>3. CallsStand(t)'
    <3>1. t \notin damaged' /\ Saved(t)' => Covers(Latest(t))'
      BY <1>0, <1>1, <1>2, <2>2 DEF CallsStand, Covers
    <3> QED BY <1>3, <3>1 DEF CallsStand
  <2>4. \A id : Has(t, id)' => Has(t, id)
    BY <1>3, <1>4, <2>2 DEF Has
  <2> QED BY <1>0, <1>4, <2>1, <2>3, <2>4 DEF TypeOK
<1>5. CASE files'[t] # files[t]
  <2>1. PICK e \in Engines : stage[e][t] = "write" /\ files'[t] = Written(e, t)[t]
    BY <1>1, <1>5 DEF FileOutcomes
  <2>m. PICK m \in MemoryType : m = memory[e][t]
    BY <1>0 DEF TypeOK
  <2>2. files'[t] \in {files[t], Written(e, t)[t]} /\ (t \in dirs' <=> t \in dirs)
    BY <1>1, <2>1
  <2>3. /\ FilesStand(t)' /\ t \in kept[e]
        /\ Written(e, t) \in [Tasks -> [1 .. MaxRevisions -> Records \cup {Missing, Torn}]]
        /\ \A id, n : n \in Names(t)' /\ files'[t][n] \in Records /\ files'[t][n].id = id => Has(t, id)
        /\ t \notin damaged => ~Saved(t)' \/ Latest(t)' = m.record
    BY <1>2, <2>m, <2>1, <2>2, WriteStands
  <2>4. CallsStand(t)'
    <3>1. t \notin damaged => Covers(m.record)
      BY <1>0, <2>m, <2>3 DEF CallsStand
    <3>2. t \notin damaged => Covers(m.record)'
      BY <1>1, <3>1 DEF Covers
    <3>3. t \notin damaged' /\ Saved(t)' => Covers(Latest(t))'
      BY <1>2, <2>3, <3>2 DEF Covers
    <3> QED BY <1>3, <3>3 DEF CallsStand
  <2>5. \A id : Has(t, id)' => Has(t, id)
    BY <1>3, <2>3, HasStays
  <2> QED BY <2>1, <2>3, <2>4, <2>5
<1> QED BY <1>4, <1>5

(* The process dies. *)
LEMMA CrashStands ==
  ASSUME Alone, EngineStands, Crash
  PROVE  EngineStands'
<1>0. TypeOK /\ RequestsStand /\ \A e \in Engines, t \in Tasks : QueueStands(e, t)
  BY DEF EngineStands
<1>1. /\ dirs' = dirs /\ faults' \in 0 .. MaxFaults
      /\ damaged' = damaged \cup {t \in Tasks : Removing(t)}
      /\ disturbed' = disturbed \cup {t \in Tasks : \E e \in Engines : stage[e][t] # "start"}
      /\ jobs' = [e \in Engines |-> [t \in Tasks |-> <<>>]]
      /\ stage' = [e \in Engines |-> [t \in Tasks |-> "start"]]
      /\ life' = [e \in Engines |-> "new"]
      /\ kept' = [e \in Engines |-> {}]
      /\ memory' = [e \in Engines |-> [t \in Tasks |-> Unloaded]]
      /\ pc' = [e \in Engines |-> [t \in Tasks |-> "idle"]]
      /\ signal' = [e \in Engines |-> [t \in Tasks |-> FALSE]]
      /\ stopped' = [e \in Engines |-> [t \in Tasks |-> FALSE]]
      /\ plans' = plans /\ called' = called
  BY <1>0, JournalAssumption DEF Crash, JournalCrash, TypeOK
<1>2. \A t \in Tasks : /\ files'[t] \in [1 .. MaxRevisions -> Records \cup {Missing, Torn}]
                       /\ FilesStand(t)' /\ CallsStand(t)'
                       /\ \A id : Has(t, id)' => Has(t, id)
  BY CrashLeaves
<1>3. files' \in [Tasks -> [1 .. MaxRevisions -> Records \cup {Missing, Torn}]]
  <2>1. PICK outcome \in [Tasks -> UNION {FileOutcomes(t) : t \in Tasks}] : files' = outcome
    BY DEF Crash, JournalCrash
  <2> QED BY <1>2, <2>1
<1>4. /\ jobs' \in [Engines -> [Tasks -> Seq(JobType)]] /\ memory' \in [Engines -> [Tasks -> MemoryType]]
      /\ pc' \in [Engines -> [Tasks -> Points]] /\ Unloaded.record \notin Records
  <2>1. Unloaded \in MemoryType /\ Unloaded.record \notin Records
    BY NoRecords, JournalAssumption DEF Unloaded, MemoryType
  <2>2. <<>> \in Seq(JobType) /\ "idle" \in Points
    BY EmptySeq DEF Points
  <2> QED BY <1>1, <2>1, <2>2
<1>5. TypeOK'
  <2>1. plans' \in Nat /\ IsFiniteSet(Planning)' /\ (plans + Cardinality(Planning) <= MaxPlans)'
    <3>1. Planning' \subseteq Planning
      BY <1>1 DEF Planning
    <3> QED BY <1>0, <1>1, <3>1, PlanningFalls
  <2>2. damaged' \in SUBSET disturbed' /\ disturbed' \in SUBSET Tasks
    BY <1>0, <1>1 DEF TypeOK, Removing
  <2> QED BY <1>0, <1>1, <1>3, <1>4, <2>1, <2>2 DEF TypeOK
<1>6. ASSUME NEW e \in Engines, NEW t \in Tasks
      PROVE  QueueStands(e, t)' /\ RecordStands(e, t)' /\ SavesStand(e, t)'
  <2>1. /\ jobs'[e][t] = <<>> /\ stage'[e][t] = "start" /\ pc'[e][t] = "idle"
        /\ memory'[e][t] = Unloaded /\ kept'[e] = {}
    BY <1>1
  <2>2. \A who : ~Asked(e, t, who)'
    BY <2>1 DEF Asked
  <2>3. QueueStands(e, t)'
    BY <2>1, <2>2 DEF QueueStands, LoadPoints, SavePoints
  <2>4. RecordStands(e, t)'
    BY <1>4, <2>1 DEF RecordStands, StatusAt
  <2> QED BY <2>1, <2>3, <2>4 DEF SavesStand
<1>7. RequestsStand'
  BY <1>0, <1>1, <1>2 DEF RequestsStand
<1> QED BY <1>2, <1>5, <1>6, <1>7 DEF EngineStands

(* An engine opens, is disposed, or a call is aborted. *)
LEMMA StopStands ==
  ASSUME EngineStands, NEW e \in Engines,
         \/ Open(e) \/ Dispose(e)
         \/ \E t \in Tasks : Abort(e, t) \/ Deadline(e, t)
  PROVE  EngineStands'
<1>0. TypeOK /\ \A d \in Engines, u \in Tasks : QueueStands(d, u)
  BY DEF EngineStands
<1>1. CASE Open(e)
  <2>1. life' \in [Engines -> {"new", "open", "disposed"}]
    BY <1>0, <1>1 DEF Open, TypeOK
  <2> QED BY <1>0, <1>1, <2>1, QuietStep DEF Open, journalVars, historyVars, TypeOK
<1>2. CASE Dispose(e)
  <2>1. life' \in [Engines -> {"new", "open", "disposed"}] /\ stopped' \in [Engines -> [Tasks -> BOOLEAN]]
    BY <1>0, <1>2 DEF Dispose, TypeOK
  <2>2. damaged' \in SUBSET disturbed
    <3> SUFFICES ASSUME NEW u \in Tasks, stage[e][u] = "rm" PROVE u \in disturbed
      BY <1>0, <1>2 DEF Dispose, TypeOK
    <3>1. Asked(e, u, "forget")
      BY <1>0, HeadFacts DEF QueueStands, Doing
    <3> QED BY <1>0, <3>1 DEF QueueStands
  <2> QED BY <1>0, <1>2, <2>1, <2>2, QuietStep DEF Dispose, journalVars, TypeOK
<1>3. ASSUME NEW t \in Tasks, Abort(e, t) PROVE EngineStands'
  <2>1. signal' \in [Engines -> [Tasks -> BOOLEAN]]
    BY <1>0, <1>3 DEF Abort, TypeOK
  <2>2. stopped' \in [Engines -> [Tasks -> BOOLEAN]]
    <3>1. PICK b \in BOOLEAN : b = (stopped[e][t] \/ pc[e][t] \in RoundPoints)
      OBVIOUS
    <3>2. stopped' = [stopped EXCEPT ![e][t] = b]
      BY <1>3, <3>1 DEF Abort
    <3> QED BY <1>0, <3>2, PutFacts DEF TypeOK
  <2> QED BY <1>0, <1>3, <2>1, <2>2, QuietStep DEF Abort, journalVars, historyVars, TypeOK
<1>4. ASSUME NEW t \in Tasks, Deadline(e, t) PROVE EngineStands'
  <2>1. stopped' \in [Engines -> [Tasks -> BOOLEAN]]
    BY <1>0, <1>4 DEF Deadline, TypeOK
  <2> QED BY <1>0, <1>4, <2>1, QuietStep DEF Deadline, journalVars, historyVars, TypeOK
<1> QED BY <1>1, <1>2, <1>3, <1>4

(* Before anything is planned. *)
LEMMA InitStands == Init => EngineStands
<1> SUFFICES ASSUME Init PROVE EngineStands
  OBVIOUS
<1>1. /\ dirs = {} /\ files = [t \in Tasks |-> [n \in 1 .. MaxRevisions |-> Missing]]
      /\ jobs = [e \in Engines |-> [t \in Tasks |-> <<>>]]
      /\ stage = [e \in Engines |-> [t \in Tasks |-> "start"]]
      /\ faults = 0 /\ life = [e \in Engines |-> "new"] /\ kept = [e \in Engines |-> {}]
      /\ memory = [e \in Engines |-> [t \in Tasks |-> Unloaded]]
      /\ pc = [e \in Engines |-> [t \in Tasks |-> "idle"]]
      /\ signal = [e \in Engines |-> [t \in Tasks |-> FALSE]]
      /\ stopped = [e \in Engines |-> [t \in Tasks |-> FALSE]]
      /\ plans = 0 /\ called = {} /\ damaged = {} /\ disturbed = {}
  BY DEF Init, JournalInit
<1>2. Unloaded \in MemoryType /\ Unloaded.record \notin Records
  BY NoRecords, JournalAssumption DEF Unloaded, MemoryType
<1>3. TypeOK
  <2>1. Planning = {}
    BY <1>1 DEF Planning
  <2>2. IsFiniteSet(Planning) /\ Cardinality(Planning) = 0
    BY <2>1, FS_EmptySet
  <2>3. <<>> \in Seq(JobType) /\ "idle" \in Points
    BY EmptySeq DEF Points
  <2>4. /\ jobs \in [Engines -> [Tasks -> Seq(JobType)]] /\ memory \in [Engines -> [Tasks -> MemoryType]]
        /\ pc \in [Engines -> [Tasks -> Points]]
        /\ files \in [Tasks -> [1 .. MaxRevisions -> Records \cup {Missing, Torn}]]
    BY <1>1, <1>2, <2>3
  <2> QED BY <1>1, <2>2, <2>4, JournalAssumption DEF TypeOK
<1>4. ASSUME NEW t \in Tasks PROVE Names(t) = {} /\ Revision(t) = 0 /\ ~Saved(t) /\ FilesStand(t) /\ CallsStand(t)
  <2>1. Names(t) = {}
    BY <1>1 DEF Names
  <2>2. Revision(t) = 0 /\ ~Saved(t)
    BY <1>3, <2>1, NamesFacts, LatestFacts
  <2>3. 1 .. Revision(t) = {} /\ Whole(t, Revision(t))
    BY <2>2 DEF Whole
  <2>4. FilesStand(t)
    BY <2>1, <2>3 DEF FilesStand
  <2>5. CallsStand(t)
    BY <1>1, <2>2 DEF CallsStand
  <2> QED BY <2>1, <2>2, <2>4, <2>5
<1>5. ASSUME NEW e \in Engines, NEW t \in Tasks
      PROVE  QueueStands(e, t) /\ RecordStands(e, t) /\ SavesStand(e, t)
  <2>1. /\ jobs[e][t] = <<>> /\ stage[e][t] = "start" /\ pc[e][t] = "idle"
        /\ memory[e][t] = Unloaded /\ kept[e] = {}
    BY <1>1
  <2>2. \A who : ~Asked(e, t, who)
    BY <2>1 DEF Asked
  <2>3. QueueStands(e, t)
    BY <2>1, <2>2 DEF QueueStands, LoadPoints, SavePoints
  <2>4. RecordStands(e, t)
    BY <1>2, <2>1 DEF RecordStands, StatusAt
  <2> QED BY <2>1, <2>3, <2>4 DEF SavesStand
<1>6. RequestsStand
  <2>1. \A t \in Tasks : \A id : ~Has(t, id)
    BY <1>1, <1>2, <1>4 DEF Has
  <2> QED BY <2>1 DEF RequestsStand
<1> QED BY <1>3, <1>4, <1>5, <1>6 DEF EngineStands

(* The invariant is inductive. *)
LEMMA NextStands == Alone /\ EngineStands /\ [Next]_vars => EngineStands'
<1> SUFFICES ASSUME Alone, EngineStands, [Next]_vars PROVE EngineStands'
  OBVIOUS
<1>1. CASE UNCHANGED vars
  <2>1. TypeOK
    BY DEF EngineStands
  <2> QED BY <1>1, <2>1, QuietStep DEF vars, journalVars, engineVars, historyVars, TypeOK
<1>2. CASE Crash
  BY <1>2, CrashStands
<1>3. ASSUME NEW e \in Engines, Open(e) \/ Dispose(e) PROVE EngineStands'
  BY <1>3, StopStands
<1>4. ASSUME NEW e \in Engines, NEW t \in Tasks, Abort(e, t) \/ Deadline(e, t) PROVE EngineStands'
  BY <1>4, StopStands
<1>5. ASSUME NEW e \in Engines, NEW t \in Tasks, Plan(e, t) \/ Run(e, t) \/ Read(e, t) \/ Forget(e, t)
      PROVE  EngineStands'
  BY <1>5, PlanStands, RunStands, ReadStands, ForgetStands
<1>6. ASSUME NEW e \in Engines, NEW t \in Tasks, RunStep(e, t) PROVE EngineStands'
  BY <1>6, EnterStands, LoopHeadStands, RoundStands DEF RunStep
<1>7. ASSUME NEW e \in Engines, NEW t \in Tasks, JobStep(e, t) PROVE EngineStands'
  <2>1. CASE PlanLoaded(e, t) \/ RunLoaded(e, t) \/ ReadLoaded(e, t) \/ LoadFails(e, t)
    BY <2>1, PlanLoadedStands, RunLoadedStands, ReadLoadedStands, LoadFailsStands
  <2>2. CASE SaveDone(e, t) \/ SaveFailed(e, t)
    BY <2>2, SaveDoneStands, SaveFailedStands
  <2>3. CASE ForgetUnknown(e, t) \/ Forgotten(e, t) \/ ForgetFails(e, t)
    BY <2>3, ForgetUnknownStands, ForgottenStands, ForgetFailsStands
  <2>4. CASE JournalGoesOn(e, t)
    BY <2>4, JournalGoesOnStands
  <2> QED BY <1>7, <2>1, <2>2, <2>3, <2>4 DEF JobStep
<1> QED BY <1>1, <1>2, <1>3, <1>4, <1>5, <1>6, <1>7 DEF Next
-----------------------------------------------------------------------------
(* A record that is put in memory has failed only if the one before it had. *)
LEMMA PutUnfailed ==
  ASSUME memory \in [Engines -> [Tasks -> MemoryType]], NEW e \in Engines, NEW t \in Tasks, NEW m,
         memory' = [memory EXCEPT ![e][t] = m], m.failed => memory[e][t].failed
  PROVE  \A d \in Engines, u \in Tasks : memory'[d][u].failed => memory[d][u].failed
OBVIOUS

(* A record that changes to be saved has not failed by that. *)
LEMMA ChangesUnfailed ==
  ASSUME NEW m \in MemoryType
  PROVE  /\ Uncertain(m).failed = m.failed /\ Committed(m).failed = m.failed /\ Advanced(m).failed = m.failed
         /\ \A s : [m EXCEPT !.record.status = s].failed = m.failed
         /\ \A s, l : [m EXCEPT !.record.status = s, !.record.last = l].failed = m.failed
         /\ \A s, l : [m EXCEPT !.record.last = l, !.record.status = s].failed = m.failed
BY DEF Uncertain, Committed, Advanced, MemoryType

(* Only a save that fails makes a record one of which saving has failed. *)
LEMMA OnlySavesFail ==
  ASSUME TypeOK, NEW e \in Engines, NEW t \in Tasks,
         \/ Plan(e, t) \/ Run(e, t) \/ Read(e, t) \/ Forget(e, t) \/ RunStep(e, t)
         \/ (JobStep(e, t) /\ ~SaveFailed(e, t)) \/ Abort(e, t) \/ Deadline(e, t)
  PROVE  \A d \in Engines, u \in Tasks : memory'[d][u].failed => memory[d][u].failed
<1>1. memory \in [Engines -> [Tasks -> MemoryType]]
  BY DEF TypeOK
<1>m. PICK m \in MemoryType : m = memory[e][t]
  BY <1>1
<1>2. ASSUME NEW n, SaveAs(e, t, n, pc'[e][t]) \/ memory' = [memory EXCEPT ![e][t] = n], n.failed => m.failed
      PROVE  \A d \in Engines, u \in Tasks : memory'[d][u].failed => memory[d][u].failed
  BY <1>1, <1>m, <1>2, PutUnfailed DEF SaveAs
<1>3. ASSUME NEW n, Leave(e, t, n), n.failed => m.failed
      PROVE  \A d \in Engines, u \in Tasks : memory'[d][u].failed => memory[d][u].failed
  <2>1. PICK q : q = IF t \in kept[e] THEN n ELSE Unloaded
    OBVIOUS
  <2>2. memory' = [memory EXCEPT ![e][t] = q]
    BY <1>3, <2>1 DEF Leave
  <2>3. q.failed => m.failed
    BY <1>3, <2>1 DEF Unloaded
  <2> QED BY <1>1, <1>m, <2>2, <2>3, PutUnfailed
<1>4. CASE UNCHANGED memory
  BY <1>4
<1>5. CASE Plan(e, t) \/ Run(e, t) \/ Read(e, t) \/ Forget(e, t) \/ Abort(e, t) \/ Deadline(e, t)
  BY <1>4, <1>5 DEF Plan, Run, Read, Forget, Abort, Deadline, engineVars
<1>6. CASE ForgetUnknown(e, t) \/ ForgetFails(e, t) \/ JournalGoesOn(e, t)
  BY <1>4, <1>6 DEF ForgetUnknown, ForgetFails, JournalGoesOn, engineVars
<1>7. CASE Forgotten(e, t)
  <2>1. Unloaded.failed = FALSE
    BY DEF Unloaded
  <2>2. memory' = memory \/ memory' = [memory EXCEPT ![e][t] = Unloaded]
    BY <1>7 DEF Forgotten
  <2> QED BY <1>2, <1>4, <2>1, <2>2
<1>8. ASSUME NEW r, NEW k PROVE Loaded(r, k).failed = FALSE
  BY DEF Loaded
<1>9. CASE PlanLoaded(e, t) \/ RunLoaded(e, t) \/ ReadLoaded(e, t) \/ LoadFails(e, t)
  <2>1. \/ memory' = memory \/ Leave(e, t, m)
        \/ \E r, k : memory' = [memory EXCEPT ![e][t] = Loaded(r, k)]
    BY <1>9, <1>m DEF PlanLoaded, RunLoaded, ReadLoaded, LoadFails
  <2> QED BY <1>2, <1>3, <1>4, <1>8, <2>1
<1>10. CASE SaveDone(e, t)
  <2>1. memory' = [memory EXCEPT ![e][t] = Advanced(m)] \/ Leave(e, t, Advanced(m))
    BY <1>10, <1>m DEF SaveDone
  <2>2. Advanced(m).failed => m.failed
    BY ChangesUnfailed
  <2> QED BY <1>2, <1>3, <2>1, <2>2
<1>11. CASE Enter(e, t)
  <2>1. memory' = memory \/ Leave(e, t, m) \/ memory' = [memory EXCEPT ![e][t] = Uncertain(m)]
    BY <1>11, <1>m DEF Enter, SaveAs
  <2> QED BY <1>2, <1>3, <1>4, <2>1, ChangesUnfailed
<1>12. CASE LoopHead(e, t)
  <2>1. \/ Leave(e, t, m)
        \/ memory' = [memory EXCEPT ![e][t] = [m EXCEPT !.record.status = "PARTIAL_LIMIT"]]
        \/ memory' = [memory EXCEPT ![e][t] = Committed(m)]
    BY <1>12, <1>m DEF LoopHead, SaveAs
  <2>2. [m EXCEPT !.record.status = "PARTIAL_LIMIT"].failed = m.failed /\ Committed(m).failed = m.failed
    BY ChangesUnfailed
  <2> QED BY <1>2, <1>3, <2>1, <2>2
<1>13. CASE Catch(e, t)
  <2>1. memory' = [memory EXCEPT ![e][t] = Uncertain(m)]
    BY <1>13, <1>m DEF Catch, SaveAs
  <2>2. Uncertain(m).failed = m.failed
    BY ChangesUnfailed
  <2> QED BY <1>2, <2>1, <2>2
<1>14. CASE Prepared(e, t) /\ ~Catch(e, t)
  <2>1. memory' = [memory EXCEPT ![e][t] = [m EXCEPT !.record.status = "RUNNING", !.record.last = "RUNNING"]]
    BY <1>14, <1>m DEF Prepared, SaveAs
  <2>2. [m EXCEPT !.record.status = "RUNNING", !.record.last = "RUNNING"].failed = m.failed
    BY ChangesUnfailed
  <2> QED BY <1>2, <2>1, <2>2
<1>15. CASE Call(e, t) \/ Checkpoint(e, t)
  <2>1. memory' = memory \/ memory' = [memory EXCEPT ![e][t] = m]
    BY <1>15, <1>m DEF Call, Checkpoint, SaveAs
  <2> QED BY <1>2, <1>4, <2>1
<1>16. CASE StreamEnds(e, t)
  <2>1. PICK finish \in {"repeated", "stop", "max-tokens"} :
          memory' = [memory EXCEPT ![e][t] = [m EXCEPT !.record.last = "COMPLETED",
                                                       !.record.status = SettledStatus(m.record, finish)]]
    BY <1>16, <1>m DEF StreamEnds, SaveAs
  <2>2. [m EXCEPT !.record.last = "COMPLETED", !.record.status = SettledStatus(m.record, finish)].failed = m.failed
    BY ChangesUnfailed
  <2> QED BY <1>2, <2>1, <2>2
<1>17. CASE RunStep(e, t)
  BY <1>11, <1>12, <1>13, <1>14, <1>15, <1>16, <1>17 DEF RunStep, CallStopped, StreamFails
<1>18. CASE JobStep(e, t) /\ ~SaveFailed(e, t)
  BY <1>6, <1>7, <1>9, <1>10, <1>18 DEF JobStep
<1> QED BY <1>5, <1>17, <1>18

(* A save of a task that nothing disturbed is taken by the journal. *)
LEMMA UndisturbedSaves ==
  ASSUME Alone, EngineStands, NEW e \in Engines, NEW t \in Tasks, SaveFailed(e, t)
  PROVE  t \in disturbed'
<1>0. /\ TypeOK /\ SavesStand(e, t) /\ FilesStand(t)
  BY DEF EngineStands
<1>1. jobs[e][t] # <<>> /\ Current(e, t).op = "save"
      /\ disturbed' = IF faults' > faults THEN disturbed \cup {t} ELSE disturbed
  BY DEF SaveFailed, SaveFails, Doing
<1>m. PICK m \in MemoryType : m = memory[e][t]
  BY <1>0 DEF TypeOK
<1>2. /\ Current(e, t).record = m.record /\ Current(e, t).expected = m.revision
      /\ pc[e][t] \in SavePoints /\ ~m.failed /\ m.record \in Records /\ Normal(m.record) /\ m.revision \in Nat
      /\ m.revision + 1 \in 1 .. MaxRevisions /\ (t \notin kept[e] => Gone(e, t)) /\ ~Removing(t)
  BY <1>1, <1>m, SaveUnderWay
<1> SUFFICES ASSUME t \notin disturbed PROVE faults' > faults
  BY <1>1
<1>k. PICK j \in Nat, k \in 1 .. MaxRevisions : j = m.revision /\ k = j + 1
  BY <1>2
<1>3. t \in kept[e] /\ t \notin damaged
  BY <1>0, <1>2 DEF Gone, TypeOK
<1>4. Follower(e, t)
  BY <1>0, <1>2, <1>3, <1>m DEF SavesStand
<1>5. ASSUME stage[e][t] # "write"
      PROVE  /\ Names(t) = 1 .. j /\ Whole(t, j)
             /\ j = 0 => Initial(m.record)
             /\ j > 0 => Follows(files[t][j], m.record)
  BY <1>4, <1>5, <1>m, <1>k DEF Follower
<1>6. ~(/\ Doing(e, t, "save", "main", "start") /\ ~Accepts(t, Current(e, t).record, Current(e, t).expected))
  <2> SUFFICES ASSUME stage[e][t] = "start" PROVE Accepts(t, m.record, j)
    BY <1>2, <1>k DEF Doing
  <2>1. j < MaxRevisions
    BY <1>k, JournalAssumption
  <2>2. CASE j = 0
    <3>1. Names(t) = {}
      BY <1>5, <2>2
    <3>2. Latest(t) = NoRecord
      BY <1>0, <3>1, LatestFacts
    <3> QED BY <1>2, <1>5, <2>1, <2>2, <3>2 DEF Accepts
  <2>3. CASE j # 0
    <3>1. j \in Nat \ {0} /\ j \in 1 .. j /\ j > 0
      BY <2>3
    <3>2. t \in dirs
      BY <1>0, <1>5, <3>1 DEF FilesStand
    <3>3. Saved(t) /\ Latest(t) = files[t][j] /\ Revision(t) = j
      BY <1>0, <1>5, <3>1, <3>2, LatestFacts
    <3> QED BY <1>2, <1>5, <2>1, <2>3, <3>1, <3>3 DEF Accepts
  <2> QED BY <2>2, <2>3
<1>7. ~(Doing(e, t, "save", "main", "create") /\ ~Creatable(e, t))
  <2> SUFFICES ASSUME stage[e][t] = "create" PROVE Creatable(e, t)
    BY DEF Doing
  <2>1. t \in dirs
    BY <1>4 DEF Follower
  <2>2. k \notin Names(t)
    BY <1>5, <1>k
  <2>3. files[t][k] = Missing
    BY <2>2 DEF Names
  <2> QED BY <1>2, <1>k, <2>1, <2>3 DEF Creatable
<1>8. faults' = faults + 1
  BY <1>6, <1>7 DEF SaveFailed, SaveFails
<1> QED BY <1>0, <1>8, JournalAssumption DEF TypeOK

(* What was disturbed stays so. *)
LEMMA DisturbedStays == Next => disturbed \subseteq disturbed'
<1> SUFFICES ASSUME Next PROVE disturbed \subseteq disturbed'
  OBVIOUS
<1>1. CASE Crash
  BY <1>1 DEF Crash
<1>2. ASSUME NEW e \in Engines, Open(e) \/ Dispose(e) PROVE disturbed \subseteq disturbed'
  BY <1>2 DEF Open, Dispose, historyVars
<1>3. ASSUME NEW e \in Engines, NEW t \in Tasks, Abort(e, t) \/ Deadline(e, t) PROVE disturbed \subseteq disturbed'
  BY <1>3 DEF Abort, Deadline, historyVars
<1>4. ASSUME NEW e \in Engines, NEW t \in Tasks, Plan(e, t) \/ Run(e, t) \/ Read(e, t) \/ Forget(e, t)
      PROVE  disturbed \subseteq disturbed'
  BY <1>4 DEF Plan, Run, Read, Forget, Disturbed
<1>5. ASSUME NEW e \in Engines, NEW t \in Tasks, RunStep(e, t) PROVE disturbed \subseteq disturbed'
  BY <1>5 DEF RunStep, Enter, LoopHead, Prepared, Call, CallStopped, Checkpoint, StreamEnds, StreamFails, Catch,
     historyVars
<1>6. ASSUME NEW e \in Engines, NEW t \in Tasks, JobStep(e, t) PROVE disturbed \subseteq disturbed'
  <2>1. CASE PlanLoaded(e, t) \/ RunLoaded(e, t) \/ ReadLoaded(e, t) \/ LoadFails(e, t)
    BY <2>1 DEF PlanLoaded, RunLoaded, ReadLoaded, LoadFails, historyVars
  <2>2. CASE SaveDone(e, t) \/ SaveFailed(e, t)
    BY <2>2 DEF SaveDone, SaveFailed, historyVars
  <2>3. CASE ForgetUnknown(e, t) \/ Forgotten(e, t) \/ ForgetFails(e, t) \/ JournalGoesOn(e, t)
    BY <2>3 DEF ForgetUnknown, Forgotten, ForgetFails, JournalGoesOn, historyVars
  <2> QED BY <1>6, <2>1, <2>2, <2>3 DEF JobStep
<1> QED BY <1>1, <1>2, <1>3, <1>4, <1>5, <1>6 DEF Next

(* The engine keeps to the table. *)
LEMMA TableKept == Alone /\ EngineStands /\ KeepsTheTable /\ [Next]_vars => KeepsTheTable'
<1> SUFFICES ASSUME Alone, EngineStands, KeepsTheTable, [Next]_vars PROVE KeepsTheTable'
  OBVIOUS
<1>0. TypeOK
  BY DEF EngineStands
<1>1. CASE UNCHANGED vars
  BY <1>1 DEF vars, engineVars, historyVars, KeepsTheTable
<1>2. CASE Crash
  BY <1>2 DEF Crash, KeepsTheTable, Unloaded
<1>3. ASSUME Next, \A d \in Engines, u \in Tasks : memory'[d][u].failed => memory[d][u].failed PROVE KeepsTheTable'
  BY <1>3, DisturbedStays DEF KeepsTheTable
<1>4. ASSUME NEW e \in Engines, Open(e) \/ Dispose(e)
      PROVE  \A d \in Engines, u \in Tasks : memory'[d][u].failed => memory[d][u].failed
  BY <1>4 DEF Open, Dispose
<1>5. ASSUME NEW e \in Engines, NEW t \in Tasks, SaveFailed(e, t) PROVE KeepsTheTable'
  <2>1. t \in disturbed'
    BY <1>5, UndisturbedSaves
  <2>2. disturbed \subseteq disturbed'
    BY <1>5 DEF SaveFailed
  <2>3. PICK q : memory' = [memory EXCEPT ![e][t] = q]
    BY <1>5 DEF SaveFailed, Leave
  <2>4. \A d \in Engines, u \in Tasks : u # t => memory'[d][u] = memory[d][u]
    BY <1>0, <2>3 DEF TypeOK
  <2> QED BY <2>1, <2>2, <2>4 DEF KeepsTheTable
<1>6. ASSUME NEW e \in Engines, NEW t \in Tasks,
             \/ Plan(e, t) \/ Run(e, t) \/ Read(e, t) \/ Forget(e, t) \/ RunStep(e, t)
             \/ (JobStep(e, t) /\ ~SaveFailed(e, t)) \/ Abort(e, t) \/ Deadline(e, t)
      PROVE  \A d \in Engines, u \in Tasks : memory'[d][u].failed => memory[d][u].failed
  BY <1>0, <1>6, OnlySavesFail
<1> QED BY <1>1, <1>2, <1>3, <1>4, <1>5, <1>6 DEF Next

(* Between calls memory is what is saved. *)
LEMMA SavedIsShown == Alone /\ EngineStands => ShowsWhatIsSaved
<1> SUFFICES ASSUME Alone, EngineStands, NEW e \in Engines, NEW t \in Tasks, Settled(e, t), ~Removing(t), t \notin damaged
             PROVE  Latest(t) = memory[e][t].record /\ Revision(t) = memory[e][t].revision
  BY DEF ShowsWhatIsSaved
<1>1. RecordStands(e, t) /\ SavesStand(e, t)
  BY DEF EngineStands
<1>2. pc[e][t] = "idle" /\ memory[e][t] # Unloaded /\ ~memory[e][t].failed
  BY DEF Settled, Busy
<1>3. t \in kept[e] /\ pc[e][t] \notin SavePoints
  BY <1>1, <1>2 DEF RecordStands, LoadPoints, SavePoints, Gone
<1> QED BY <1>1, <1>2, <1>3 DEF SavesStand, Shown

(* A round that is about to be called is saved as running, and was never called. *)
LEMMA CallIsOnRecord ==
  ASSUME Alone, EngineStands, NEW e \in Engines, NEW t \in Tasks, pc[e][t] = "call", t \notin damaged
  PROVE  /\ Latest(t) = memory[e][t].record /\ Latest(t).status = "RUNNING"
         /\ <<memory[e][t].record.id, memory[e][t].record.rounds>> \notin called
<1>1. TypeOK /\ RecordStands(e, t) /\ SavesStand(e, t) /\ CallsStand(t) /\ QueueStands(e, t)
  BY DEF EngineStands
<1>2. t \in kept[e] /\ ~memory[e][t].failed /\ memory[e][t].record.status = "RUNNING"
  BY <1>1 DEF RecordStands, LoadPoints, Gone, StatusAt
<1>3. ~Removing(t)
  <2> SUFFICES ASSUME stage[e][t] = "rm" PROVE FALSE
    BY RemovingAlone
  <2>1. Asked(e, t, "forget")
    BY <1>1, HeadFacts DEF QueueStands, Doing
  <2> QED BY <1>1, <2>1 DEF QueueStands, BesideForget, LoadPoints
<1>4. Shown(e, t)
  BY <1>1, <1>2, <1>3 DEF SavesStand, SavePoints
<1> QED BY <1>1, <1>2, <1>4 DEF Shown, CallsStand

(* With one engine at a time, memory, the journal and the table of transitions agree, whatever
   fails and wherever the process dies. *)
THEOREM EngineSafe == ASSUME Alone PROVE Spec => []EngineInv
<1>1. Init => EngineStands /\ KeepsTheTable
  <2>1. Init => KeepsTheTable
    BY DEF Init, KeepsTheTable, Unloaded
  <2> QED BY <2>1, InitStands
<1>2. EngineStands /\ KeepsTheTable /\ [Next]_vars => (EngineStands /\ KeepsTheTable)'
  BY NextStands, TableKept
<1>3. EngineStands /\ KeepsTheTable => EngineInv
  BY SavedIsShown DEF EngineInv
<1> QED BY <1>1, <1>2, <1>3, PTL DEF Spec

(* With one engine at a time, the provider is called only for the round that its task has saved
   as running, and never twice for the same round: not after a crash, a reload or a failed save. *)
THEOREM EngineCallsOnRecord == ASSUME Alone PROVE Spec => CallsOnRecord
<1>1. EngineStands /\ [Next]_vars => [\A e \in Engines, t \in Tasks : Calls(e, t) /\ t \notin damaged =>
                                        /\ Latest(t) = memory[e][t].record
                                        /\ Latest(t).status = "RUNNING"]_vars
  BY CallIsOnRecord DEF Calls
<1>2. EngineStands /\ [Next]_vars => [\A e \in Engines, t \in Tasks : Calls(e, t) /\ t \notin damaged =>
                                        <<memory[e][t].record.id, memory[e][t].record.rounds>> \notin called]_vars
  BY CallIsOnRecord DEF Calls
<1>3. Init => EngineStands
  BY InitStands
<1>4. EngineStands /\ [Next]_vars => EngineStands'
  BY NextStands
<1>5. Spec => CalledAsSaved
  BY <1>1, <1>3, <1>4, PTL DEF Spec, CalledAsSaved
<1>6. Spec => NeverRepeated
  BY <1>2, <1>3, <1>4, PTL DEF Spec, NeverRepeated
<1> QED BY <1>5, <1>6 DEF CallsOnRecord
-----------------------------------------------------------------------------
(* Whose round goes on has not been stopped: its engine is open and its caller waits. *)
StopTypes ==
  /\ life \in [Engines -> {"new", "open", "disposed"}]
  /\ pc \in [Engines -> [Tasks -> Points]]
  /\ signal \in [Engines -> [Tasks -> BOOLEAN]]
  /\ stopped \in [Engines -> [Tasks -> BOOLEAN]]
Heeds(e, t) == pc[e][t] \in RoundPoints /\ (life[e] # "open" \/ signal[e][t]) => stopped[e][t]
StopInv == StopTypes /\ \A e \in Engines, t \in Tasks : Heeds(e, t)

(* A call goes to another point: into a round only from a round, or when nothing stops it. *)
LEMMA GoingHeeds ==
  ASSUME StopInv, NEW e \in Engines, NEW t \in Tasks, NEW p \in Points,
         Goto(e, t, p), UNCHANGED <<life, signal>>,
         \/ UNCHANGED stopped /\ (p \in RoundPoints => pc[e][t] \in RoundPoints \/ (life[e] = "open" /\ ~signal[e][t]))
         \/ stopped' = [stopped EXCEPT ![e][t] = TRUE]
         \/ p \notin RoundPoints /\ stopped' = [stopped EXCEPT ![e][t] = FALSE]
  PROVE  StopInv'
<1>1. /\ pc' \in [Engines -> [Tasks -> Points]] /\ pc'[e][t] = p
      /\ \A d \in Engines, u \in Tasks : <<d, u>> # <<e, t>> => pc'[d][u] = pc[d][u]
  BY PutFacts DEF StopInv, StopTypes, Goto
<1>2. PICK b \in BOOLEAN : \/ stopped' = stopped /\ b = stopped[e][t]
                                /\ (p \in RoundPoints => pc[e][t] \in RoundPoints \/ (life[e] = "open" /\ ~signal[e][t]))
                           \/ stopped' = [stopped EXCEPT ![e][t] = b] /\ (p \in RoundPoints => b)
  <2>1. CASE UNCHANGED stopped /\ (p \in RoundPoints => pc[e][t] \in RoundPoints \/ (life[e] = "open" /\ ~signal[e][t]))
    <3>1. stopped[e][t] \in BOOLEAN
      BY DEF StopInv, StopTypes
    <3> QED BY <2>1, <3>1
  <2>2. CASE stopped' = [stopped EXCEPT ![e][t] = TRUE]
    BY <2>2
  <2>3. CASE p \notin RoundPoints /\ stopped' = [stopped EXCEPT ![e][t] = FALSE]
    BY <2>3
  <2> QED BY <2>1, <2>2, <2>3
<1>3. /\ stopped' \in [Engines -> [Tasks -> BOOLEAN]] /\ stopped'[e][t] = b
      /\ \A d \in Engines, u \in Tasks : <<d, u>> # <<e, t>> => stopped'[d][u] = stopped[d][u]
  <2>0. stopped \in [Engines -> [Tasks -> BOOLEAN]]
    BY DEF StopInv, StopTypes
  <2>1. CASE stopped' = stopped /\ b = stopped[e][t]
    BY <2>0, <2>1
  <2>2. CASE stopped' = [stopped EXCEPT ![e][t] = b]
    BY <2>0, <2>2, PutFacts
  <2> QED BY <1>2, <2>1, <2>2
<1>4. StopTypes'
  BY <1>1, <1>3 DEF StopInv, StopTypes
<1>5. Heeds(e, t)'
  BY <1>1, <1>2, <1>3 DEF StopInv, Heeds
<1>6. ASSUME NEW d \in Engines, NEW u \in Tasks, <<d, u>> # <<e, t>> PROVE Heeds(d, u)'
  BY <1>1, <1>3, <1>6 DEF StopInv, Heeds
<1> QED BY <1>4, <1>5, <1>6 DEF StopInv

(* A call that returns has no round. *)
LEMMA LeavingHeeds ==
  ASSUME StopInv, NEW e \in Engines, NEW t \in Tasks, NEW m, Leave(e, t, m), life' = life
  PROVE  StopInv'
<1>1. /\ pc' \in [Engines -> [Tasks -> Points]] /\ pc'[e][t] = "idle"
      /\ \A d \in Engines, u \in Tasks : <<d, u>> # <<e, t>> => pc'[d][u] = pc[d][u]
  <2>1. "idle" \in Points
    BY DEF Points
  <2> QED BY <2>1, PutFacts DEF StopInv, StopTypes, Goto, Leave
<1>2. /\ signal' \in [Engines -> [Tasks -> BOOLEAN]] /\ stopped' \in [Engines -> [Tasks -> BOOLEAN]]
      /\ \A d \in Engines, u \in Tasks : <<d, u>> # <<e, t>> => signal'[d][u] = signal[d][u] /\ stopped'[d][u] = stopped[d][u]
  <2>b. PICK b \in BOOLEAN : b = FALSE
    OBVIOUS
  <2>1. /\ signal' = [signal EXCEPT ![e][t] = b] /\ stopped' = [stopped EXCEPT ![e][t] = b]
        /\ signal \in [Engines -> [Tasks -> BOOLEAN]] /\ stopped \in [Engines -> [Tasks -> BOOLEAN]]
    BY <2>b DEF StopInv, StopTypes, Leave
  <2>2. /\ signal' \in [Engines -> [Tasks -> BOOLEAN]]
        /\ \A d \in Engines, u \in Tasks : <<d, u>> # <<e, t>> => signal'[d][u] = signal[d][u]
    BY <2>1, PutFacts
  <2>3. /\ stopped' \in [Engines -> [Tasks -> BOOLEAN]]
        /\ \A d \in Engines, u \in Tasks : <<d, u>> # <<e, t>> => stopped'[d][u] = stopped[d][u]
    BY <2>1, PutFacts
  <2> QED BY <2>2, <2>3
<1>3. StopTypes'
  BY <1>1, <1>2 DEF StopInv, StopTypes
<1>4. Heeds(e, t)'
  BY <1>1 DEF Heeds, RoundPoints
<1>5. ASSUME NEW d \in Engines, NEW u \in Tasks, <<d, u>> # <<e, t>> PROVE Heeds(d, u)'
  BY <1>1, <1>2, <1>5 DEF StopInv, Heeds
<1> QED BY <1>3, <1>4, <1>5 DEF StopInv

(* A step that leaves where calls stand. *)
LEMMA StayingHeeds ==
  ASSUME StopInv, UNCHANGED <<life, pc, signal, stopped>>
  PROVE  StopInv'
BY DEF StopInv, StopTypes, Heeds

(* What a call does by itself heeds a stop. *)
LEMMA RunHeeds ==
  ASSUME StopInv, NEW e \in Engines, NEW t \in Tasks, RunStep(e, t)
  PROVE  StopInv'
<1>p. {"head", "recover", "limit", "commit", "running", "checkpoint", "settle", "catch", "stream"} \subseteq Points
  BY DEF Points, SavePoints
<1>1. CASE Enter(e, t)
  <2>1. \/ Leave(e, t, memory[e][t]) /\ life' = life
        \/ \E p \in {"head", "recover"} : Goto(e, t, p) /\ UNCHANGED <<life, signal, stopped>>
    BY <1>1 DEF Enter, SaveAs
  <2> QED BY <1>p, <2>1, LeavingHeeds, GoingHeeds DEF RoundPoints
<1>2. CASE LoopHead(e, t)
  <2>1. \/ Leave(e, t, memory[e][t]) /\ life' = life
        \/ \E p \in {"limit", "commit"} : /\ Goto(e, t, p) /\ UNCHANGED <<life, signal, stopped>>
                                          /\ life[e] = "open" /\ ~signal[e][t]
    BY <1>2 DEF LoopHead, SaveAs
  <2> QED BY <1>p, <2>1, LeavingHeeds, GoingHeeds
<1>3. CASE Catch(e, t)
  <2>1. Goto(e, t, "catch") /\ UNCHANGED <<life, signal>> /\ stopped' = [stopped EXCEPT ![e][t] = TRUE]
    BY <1>3 DEF Catch, SaveAs
  <2> QED BY <1>p, <2>1, GoingHeeds
<1>4. CASE (Prepared(e, t) /\ ~Catch(e, t)) \/ Call(e, t) \/ Checkpoint(e, t) \/ StreamEnds(e, t)
  <2>1. \E p \in {"running", "stream", "checkpoint", "settle"} :
          Goto(e, t, p) /\ UNCHANGED <<life, signal, stopped>> /\ pc[e][t] \in {"prepare", "call", "stream"}
    BY <1>4 DEF Prepared, Call, Checkpoint, StreamEnds, SaveAs
  <2> QED BY <1>p, <2>1, GoingHeeds DEF RoundPoints
<1> QED BY <1>1, <1>2, <1>3, <1>4 DEF RunStep, CallStopped, StreamFails, Prepared

(* What the journal answers heeds a stop. *)
LEMMA JobHeeds ==
  ASSUME StopInv, NEW e \in Engines, NEW t \in Tasks, JobStep(e, t)
  PROVE  StopInv'
<1>p. {"planSave", "ready", "head", "prepare", "call", "stream"} \subseteq Points
  BY DEF Points, SavePoints
<1>1. CASE PlanLoaded(e, t) \/ RunLoaded(e, t)
  <2>1. \/ Leave(e, t, memory[e][t]) /\ life' = life
        \/ \E p \in {"planSave", "ready"} : Goto(e, t, p) /\ UNCHANGED <<life, signal, stopped>>
    BY <1>1 DEF PlanLoaded, RunLoaded
  <2> QED BY <1>p, <2>1, LeavingHeeds, GoingHeeds DEF RoundPoints
<1>2. CASE LoadFails(e, t)
  <2>1. life' = life /\ (Leave(e, t, memory[e][t]) \/ UNCHANGED <<pc, signal, stopped>>)
    BY <1>2 DEF LoadFails
  <2> QED BY <2>1, LeavingHeeds, StayingHeeds
<1>3. CASE SaveDone(e, t)
  <2>1. CASE pc[e][t] \in DOMAIN AfterSave
    <3>1. pc[e][t] \in {"commit", "running", "checkpoint"} /\ AfterSave[pc[e][t]] \in {"prepare", "call", "stream"}
      BY <2>1 DEF AfterSave
    <3>2. Goto(e, t, AfterSave[pc[e][t]]) /\ UNCHANGED <<life, signal, stopped>>
      BY <1>3, <2>1 DEF SaveDone
    <3> QED BY <1>p, <3>1, <3>2, GoingHeeds DEF RoundPoints
  <2>2. CASE pc[e][t] \notin DOMAIN AfterSave
    <3>1. \/ Leave(e, t, Advanced(memory[e][t])) /\ life' = life
          \/ Goto(e, t, "head") /\ UNCHANGED <<life, signal>> /\ stopped' = [stopped EXCEPT ![e][t] = FALSE]
      BY <1>3, <2>2 DEF SaveDone
    <3> QED BY <1>p, <3>1, LeavingHeeds, GoingHeeds DEF RoundPoints
  <2> QED BY <2>1, <2>2
<1>4. CASE SaveFailed(e, t)
  <2>1. Leave(e, t, FailedSave(e, t)) /\ life' = life
    BY <1>4 DEF SaveFailed
  <2> QED BY <2>1, LeavingHeeds
<1>5. CASE ReadLoaded(e, t) \/ ForgetUnknown(e, t) \/ Forgotten(e, t) \/ ForgetFails(e, t) \/ JournalGoesOn(e, t)
  <2>1. UNCHANGED <<life, pc, signal, stopped>>
    BY <1>5 DEF ReadLoaded, ForgetUnknown, Forgotten, ForgetFails, JournalGoesOn, engineVars
  <2> QED BY <2>1, StayingHeeds
<1> QED BY <1>1, <1>2, <1>3, <1>4, <1>5 DEF JobStep

(* A stop reaches the round that goes on. *)
LEMMA NextHeeds == StopInv /\ [Next]_vars => StopInv'
<1> SUFFICES ASSUME StopInv, [Next]_vars PROVE StopInv'
  OBVIOUS
<1>0. StopTypes /\ \A e \in Engines, t \in Tasks : Heeds(e, t)
  BY DEF StopInv
<1>1. CASE UNCHANGED vars
  BY <1>1, StayingHeeds DEF vars, engineVars
<1>2. CASE Crash
  <2>1. /\ life' = [e \in Engines |-> "new"] /\ pc' = [e \in Engines |-> [t \in Tasks |-> "idle"]]
        /\ signal' = [e \in Engines |-> [t \in Tasks |-> FALSE]]
        /\ stopped' = [e \in Engines |-> [t \in Tasks |-> FALSE]]
        /\ "idle" \in Points /\ "idle" \notin RoundPoints
    BY <1>2 DEF Crash, Points, RoundPoints
  <2>2. StopTypes'
    BY <2>1 DEF StopTypes
  <2> QED BY <2>1, <2>2 DEF StopInv, Heeds
<1>3. ASSUME NEW e \in Engines, Open(e) PROVE StopInv'
  <2>1. /\ life' = [life EXCEPT ![e] = "open"] /\ UNCHANGED <<pc, signal, stopped>> /\ life[e] = "new"
    BY <1>3 DEF Open
  <2>2. StopTypes'
    BY <1>0, <2>1 DEF StopTypes
  <2>3. ASSUME NEW d \in Engines, NEW t \in Tasks PROVE Heeds(d, t)'
    <3>1. life'[d] # "open" => life[d] # "open"
      BY <1>0, <2>1 DEF StopTypes
    <3> QED BY <1>0, <2>1, <3>1 DEF Heeds
  <2> QED BY <2>2, <2>3 DEF StopInv
<1>4. ASSUME NEW e \in Engines, Dispose(e) PROVE StopInv'
  <2>1. /\ life' = [life EXCEPT ![e] = "disposed"] /\ UNCHANGED <<pc, signal>>
        /\ stopped' = [stopped EXCEPT ![e] = [t \in Tasks |-> pc[e][t] \in RoundPoints]]
    BY <1>4 DEF Dispose
  <2>2. StopTypes'
    BY <1>0, <2>1 DEF StopTypes
  <2>3. ASSUME NEW d \in Engines, NEW t \in Tasks PROVE Heeds(d, t)'
    <3>1. CASE d = e
      BY <1>0, <2>1, <3>1 DEF StopTypes, Heeds
    <3>2. CASE d # e
      BY <1>0, <2>1, <3>2 DEF StopTypes, Heeds
    <3> QED BY <3>1, <3>2
  <2> QED BY <2>2, <2>3 DEF StopInv
<1>5. ASSUME NEW e \in Engines, NEW t \in Tasks, Abort(e, t) \/ Deadline(e, t) PROVE StopInv'
  <2>b. PICK b \in BOOLEAN, c \in BOOLEAN :
          /\ stopped' = [stopped EXCEPT ![e][t] = b] /\ signal' = [signal EXCEPT ![e][t] = c]
          /\ pc[e][t] \in RoundPoints => b
    <3>1. CASE Abort(e, t)
      <4>1. (stopped[e][t] \/ pc[e][t] \in RoundPoints) \in BOOLEAN
        OBVIOUS
      <4> QED BY <3>1, <4>1 DEF Abort
    <3>2. CASE Deadline(e, t)
      <4>1. signal' = [signal EXCEPT ![e][t] = signal[e][t]] /\ signal[e][t] \in BOOLEAN
        BY <1>0, <3>2 DEF Deadline, StopTypes
      <4> QED BY <3>2, <4>1 DEF Deadline
    <3> QED BY <1>5, <3>1, <3>2
  <2>1. /\ stopped' \in [Engines -> [Tasks -> BOOLEAN]] /\ signal' \in [Engines -> [Tasks -> BOOLEAN]]
        /\ stopped'[e][t] = b
        /\ \A d \in Engines, u \in Tasks : <<d, u>> # <<e, t>> => stopped'[d][u] = stopped[d][u] /\ signal'[d][u] = signal[d][u]
    BY <1>0, <2>b, PutFacts DEF StopTypes
  <2>2. UNCHANGED <<pc, life>>
    BY <1>5 DEF Abort, Deadline
  <2>3. StopTypes'
    BY <1>0, <2>1, <2>2 DEF StopTypes
  <2>4. Heeds(e, t)'
    BY <2>b, <2>1, <2>2 DEF Heeds
  <2>5. ASSUME NEW d \in Engines, NEW u \in Tasks, <<d, u>> # <<e, t>> PROVE Heeds(d, u)'
    BY <1>0, <2>1, <2>2, <2>5 DEF Heeds
  <2> QED BY <2>3, <2>4, <2>5 DEF StopInv
<1>6. ASSUME NEW e \in Engines, NEW t \in Tasks, Plan(e, t) \/ Run(e, t) PROVE StopInv'
  <2>1. \E p \in {"planLoad", "ready", "load"} : Goto(e, t, p) /\ UNCHANGED <<life, signal, stopped>>
    BY <1>6 DEF Plan, Run
  <2>2. {"planLoad", "ready", "load"} \subseteq Points
    BY DEF Points
  <2> QED BY <2>1, <2>2, GoingHeeds DEF RoundPoints
<1>7. ASSUME NEW e \in Engines, NEW t \in Tasks, Read(e, t) \/ Forget(e, t) PROVE StopInv'
  BY <1>7, StayingHeeds DEF Read, Forget, engineVars
<1>8. ASSUME NEW e \in Engines, NEW t \in Tasks, RunStep(e, t) \/ JobStep(e, t) PROVE StopInv'
  BY <1>8, RunHeeds, JobHeeds
<1> QED BY <1>1, <1>2, <1>3, <1>4, <1>5, <1>6, <1>7, <1>8 DEF Next

(* A call to the provider is made by the step that finds it not stopped. *)
LEMMA CallsUnstopped ==
  ASSUME StopInv, [Next]_vars, NEW e \in Engines, NEW t \in Tasks, Calls(e, t)
  PROVE  ~stopped[e][t]
<1>0. pc \in [Engines -> [Tasks -> Points]] /\ pc[e][t] = "call" /\ pc'[e][t] = "stream"
  BY DEF StopInv, StopTypes, Calls
<1>1. ASSUME NEW d \in Engines, NEW u \in Tasks, NEW p, Goto(d, u, p) PROVE d = e /\ u = t /\ p = "stream"
  BY <1>0, <1>1 DEF Goto
<1>2. ASSUME NEW d \in Engines, NEW u \in Tasks, NEW m, Leave(d, u, m) PROVE FALSE
  BY <1>1, <1>2 DEF Leave
<1>3. ASSUME UNCHANGED pc PROVE FALSE
  BY <1>0, <1>3
<1>4. CASE Crash
  BY <1>0, <1>4 DEF Crash
<1>5. ASSUME NEW d \in Engines, NEW u \in Tasks,
             \/ Open(d) \/ Dispose(d) \/ Abort(d, u) \/ Deadline(d, u) \/ Read(d, u) \/ Forget(d, u)
             \/ ReadLoaded(d, u) \/ ForgetUnknown(d, u) \/ Forgotten(d, u) \/ ForgetFails(d, u) \/ JournalGoesOn(d, u)
      PROVE  FALSE
  BY <1>3, <1>5 DEF Open, Dispose, Abort, Deadline, Read, Forget, ReadLoaded, ForgetUnknown, Forgotten, ForgetFails,
                    JournalGoesOn, engineVars
<1>6. ASSUME NEW d \in Engines, NEW u \in Tasks, Plan(d, u) \/ Run(d, u) PROVE FALSE
  BY <1>1, <1>6 DEF Plan, Run
<1>7. ASSUME NEW d \in Engines, NEW u \in Tasks, RunStep(d, u) PROVE ~stopped[e][t]
  <2>1. CASE Enter(d, u)
    BY <1>1, <1>2, <2>1 DEF Enter, SaveAs
  <2>2. CASE LoopHead(d, u)
    BY <1>1, <1>2, <2>2 DEF LoopHead, SaveAs
  <2>3. CASE Catch(d, u)
    BY <1>1, <2>3 DEF Catch, SaveAs
  <2>4. CASE (Prepared(d, u) /\ ~Catch(d, u)) \/ Checkpoint(d, u) \/ StreamEnds(d, u)
    BY <1>1, <2>4 DEF Prepared, Checkpoint, StreamEnds, SaveAs
  <2>5. CASE Call(d, u)
    BY <1>1, <2>5 DEF Call
  <2> QED BY <1>7, <2>1, <2>2, <2>3, <2>4, <2>5 DEF RunStep, CallStopped, StreamFails
<1>8. ASSUME NEW d \in Engines, NEW u \in Tasks, JobStep(d, u) PROVE FALSE
  <2>1. CASE PlanLoaded(d, u) \/ RunLoaded(d, u) \/ LoadFails(d, u)
    BY <1>1, <1>2, <1>3, <2>1 DEF PlanLoaded, RunLoaded, LoadFails
  <2>2. CASE SaveFailed(d, u)
    BY <1>2, <2>2 DEF SaveFailed
  <2>3. CASE SaveDone(d, u)
    <3>1. CASE pc[d][u] \in DOMAIN AfterSave
      <4>1. d = e /\ u = t
        BY <1>1, <2>3, <3>1 DEF SaveDone
      <4> QED BY <1>0, <3>1, <4>1 DEF AfterSave
    <3>2. CASE pc[d][u] \notin DOMAIN AfterSave
      BY <1>1, <1>2, <2>3, <3>2 DEF SaveDone
    <3> QED BY <3>1, <3>2
  <2> QED BY <1>5, <1>8, <2>1, <2>2, <2>3 DEF JobStep
<1>9. CASE UNCHANGED vars
  BY <1>3, <1>9 DEF vars, engineVars
<1> QED BY <1>4, <1>5, <1>6, <1>7, <1>8, <1>9 DEF Next

(* However many engines there are, none calls the provider once it is disposed or its caller has
   given up. *)
THEOREM StoppedEngineIsQuiet == Spec => StoppedIsQuiet
<1>1. Init => StopInv
  <2>1. "idle" \in Points /\ "idle" \notin RoundPoints
    BY DEF Points, RoundPoints
  <2> QED BY <2>1 DEF Init, StopInv, StopTypes, Heeds
<1>2. StopInv /\ [Next]_vars => StopInv'
  BY NextHeeds
<1>3. StopInv /\ [Next]_vars => [\A e \in Engines, t \in Tasks : Calls(e, t) =>
                                   /\ life[e] = "open"
                                   /\ ~signal[e][t]]_vars
  <2> SUFFICES ASSUME StopInv, [Next]_vars, NEW e \in Engines, NEW t \in Tasks, Calls(e, t)
               PROVE  life[e] = "open" /\ ~signal[e][t]
    OBVIOUS
  <2>1. ~stopped[e][t]
    BY CallsUnstopped
  <2> QED BY <2>1 DEF StopInv, Heeds, Calls, RoundPoints
<1> QED BY <1>1, <1>2, <1>3, PTL DEF Spec, StoppedIsQuiet
=============================================================================
