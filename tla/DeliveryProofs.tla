--------------------------- MODULE DeliveryProofs ---------------------------
(***************************************************************************)
(* The safety properties of Delivery and of the Continuity beneath it,     *)
(* proved for every number of attempts, launches, pauses, controls and     *)
(* faults.  First lemmas about queues, the journal, the core and the       *)
(* record under way; then one lemma per action, <Action>Stands, that it    *)
(* keeps the invariant; then the theorems.                                 *)
(*                                                                         *)
(* In the lemmas of the actions the steps have the same names: <1>j the    *)
(* journal, <1>o the stages and <1>c the controls after the step, <1>h     *)
(* what stays of them, <1>ep the core, <1>x and <1>z what the action says  *)
(* and what the invariant adds to it; then one step per conjunct, <1>f for *)
(* those that the action does not touch.                                   *)
(***************************************************************************)
EXTENDS Delivery, FiniteSetTheorems, SequenceTheorems, TLAPS
-----------------------------------------------------------------------------
(* The inductive invariant: what the runs check, and DeliveryStands, why it holds. *)
Inv ==
  /\ TypeOK /\ PausedIsDrained /\ ResumedOnce /\ BudgetKept
  /\ DeliveryIsEarned /\ DeliveryStands

(* What replaces the first of a sequence leaves the others where they are. *)
LEMMA FirstReplaced ==
  ASSUME NEW S, NEW s \in Seq(S), s # <<>>, NEW e \in S
  PROVE  LET t == <<e>> \o Tail(s)
         IN /\ t \in Seq(S) /\ t # <<>> /\ Len(t) = Len(s) /\ DOMAIN t = DOMAIN s
            /\ Head(t) = e /\ t[1] = e
            /\ \A i \in DOMAIN t : i > 1 => t[i] = s[i]
OBVIOUS

(* Without its first one a sequence begins with the second. *)
LEMMA FirstGone ==
  ASSUME NEW S, NEW s \in Seq(S), s # <<>>
  PROVE  /\ Tail(s) \in Seq(S) /\ Len(Tail(s)) = Len(s) - 1
         /\ \A i \in DOMAIN Tail(s) : i + 1 \in DOMAIN s /\ i + 1 > 1 /\ Tail(s)[i] = s[i + 1]
         /\ Tail(s) # <<>> => 1 \in DOMAIN Tail(s) /\ Head(Tail(s)) = s[2] /\ 2 \in DOMAIN s
OBVIOUS

(* What is appended to a sequence comes last. *)
LEMMA Appended ==
  ASSUME NEW S, NEW s \in Seq(S), NEW e \in S
  PROVE  LET t == Append(s, e)
         IN /\ t \in Seq(S) /\ t # <<>> /\ Head(t) = IF s = <<>> THEN e ELSE Head(s)
            /\ Len(t) = Len(s) + 1 /\ t[Len(t)] = e
            /\ \A i \in DOMAIN s : i \in DOMAIN t /\ t[i] = s[i] /\ i # Len(t)
            /\ \A i \in DOMAIN t : i # Len(t) => i \in DOMAIN s
OBVIOUS

(* The journal says what it said. *)
SameOnDisk ==
  /\ Spent' = Spent /\ Last' = Last /\ (OpenPause' <=> OpenPause)
  /\ (InOrder' <=> InOrder) /\ (Alternating' <=> Alternating)
  /\ (OnDisk("STOPPED")' <=> OnDisk("STOPPED"))
  /\ (OnDisk("accepted")' <=> OnDisk("accepted"))
  /\ (OnDisk("finalized")' <=> OnDisk("finalized"))
  /\ (OnDisk("reserved")' <=> OnDisk("reserved"))
  /\ (OnDisk("completed")' <=> OnDisk("completed"))

(* The stages and the controls are where they were. *)
SameStages == ops' = ops /\ Op' = Op /\ Tracked' = Tracked /\ (StageUnderWay' <=> StageUnderWay)
SameQueues ==
  /\ ops' = ops /\ Op' = Op /\ Tracked' = Tracked /\ (StageUnderWay' <=> StageUnderWay)
  /\ controls' = controls /\ Turn' = Turn

(* The journal does so as long as nothing is written to it. *)
LEMMA JournalStays ==
  ASSUME UNCHANGED journal
  PROVE  SameOnDisk
BY DEF SameOnDisk, Spent, Last, OpenPause, InOrder, Alternating, OnDisk, Between

(* What a record adds to the journal: *)
LEMMA Written ==
  ASSUME TypeOK, NEW t \in Types, journal' = Append(journal, t)
  PROVE  /\ journal' \in Seq(Types) /\ journal' # <<>> /\ Len(journal') = Len(journal) + 1 /\
              Last' = t
         /\ Spent' = Spent + (IF t = "attempt" THEN 1 ELSE 0) /\ Spent \in Nat
         /\ (OnDisk("STOPPED")' <=> OnDisk("STOPPED") \/ t = "STOPPED")
         /\ (OnDisk("accepted")' <=> OnDisk("accepted") \/ t = "accepted")
         /\ (OnDisk("finalized")' <=> OnDisk("finalized") \/ t = "finalized")
         /\ (OnDisk("reserved")' <=> OnDisk("reserved") \/ t = "reserved")
         /\ (OnDisk("completed")' <=> OnDisk("completed") \/ t = "completed")
         /\ (OpenPause' <=> t = "pause" \/ (OpenPause /\ t # "resume"))
<1> DEFINE n == Len(journal) + 1
<1>1. /\ journal \in Seq(Types) /\ Len(journal) \in Nat /\ DOMAIN journal = 1 .. Len(journal)
      /\ n \in Nat /\ n \notin DOMAIN journal
  BY DEF TypeOK
<1>2. /\ journal' \in Seq(Types) /\ journal' # <<>> /\ Len(journal') = n /\ journal'[n] = t
      /\ DOMAIN journal' = DOMAIN journal \cup {n} /\
           \A i \in DOMAIN journal : journal'[i] = journal[i]
  BY <1>1
<1> HIDE DEF n
<1>3. Spent' = Spent + (IF t = "attempt" THEN 1 ELSE 0) /\ Spent \in Nat
  <2> DEFINE S == {i \in DOMAIN journal : journal[i] = "attempt"}
             T == {i \in DOMAIN journal' : journal'[i] = "attempt"}
  <2>1. IsFiniteSet(S) /\ Cardinality(S) \in Nat
    <3>1. IsFiniteSet(1 .. Len(journal))
      BY <1>1, FS_Interval
    <3>2. S \subseteq 1 .. Len(journal)
      BY <1>1
    <3> QED BY <3>1, <3>2, FS_Subset, FS_CardinalityType
  <2>2. T = IF t = "attempt" THEN S \cup {n} ELSE S
    BY <1>1, <1>2
  <2>3. n \notin S
    BY <1>1
  <2>4. Cardinality(S \cup {n}) = Cardinality(S) + 1
    BY <2>1, <2>3, FS_AddElement
  <2> HIDE DEF S, T
  <2>5. Cardinality(T) = Cardinality(S) + (IF t = "attempt" THEN 1 ELSE 0)
    BY <2>1, <2>2, <2>4
  <2> QED BY <2>1, <2>5 DEF Spent, S, T
<1>4. ASSUME NEW type
      PROVE  OnDisk(type)' <=> OnDisk(type) \/ t = type
  BY <1>1, <1>2 DEF OnDisk
<1>5. OpenPause' <=> t = "pause" \/ (OpenPause /\ t # "resume")
  <2>1. \A i \in DOMAIN journal : i < n
    BY <1>1 DEF n
  <2> QED BY <1>1, <1>2, <2>1 DEF OpenPause
<1>6. Last' = t
  BY <1>2 DEF Last
<1> QED BY <1>2, <1>3, <1>4, <1>5, <1>6 DEF n

(* pauses and resumes take turns with it, *)
LEMMA StillAlternating ==
  ASSUME TypeOK, Alternating, NEW t \in Types, journal' = Append(journal, t),
         t = "pause" => ~OpenPause,
         t = "resume" => journal # <<>> /\ Last = "pause",
         journal # <<>> /\ Last = "resume" => t \in {"attempt", "pause", "STOPPED"}
  PROVE  Alternating'
<1> DEFINE n == Len(journal) + 1
<1>1. /\ journal \in Seq(Types) /\ Len(journal) \in Nat /\ DOMAIN journal = 1 .. Len(journal)
      /\ n \in Nat /\ n - 1 = Len(journal)
  BY DEF TypeOK
<1>2. /\ Len(journal') = n /\ journal'[n] = t
      /\ DOMAIN journal' = 1 .. n /\ \A i \in 1 .. Len(journal) : journal'[i] = journal[i]
  BY <1>1
<1>3. \A i, j \in 0 .. n : j <= n => Between(i, j)' = Between(i, j)
  <2>1. ASSUME NEW i \in 0 .. n, NEW j \in 0 .. n, NEW k \in (i + 1) .. (j - 1)
        PROVE  journal'[k] = journal[k]
    <3>1. k \in 1 .. Len(journal)
      BY <1>1
    <3> QED BY <1>2, <3>1
  <2> QED BY <2>1 DEF Between
<1>4. ASSUME NEW i \in DOMAIN journal', NEW j \in DOMAIN journal', i < j, journal'[i] = journal'[j]
      PROVE  /\ journal'[i] = "pause" => "resume" \in Between(i, j)'
             /\ journal'[i] = "resume" => "pause" \in Between(i, j)'
  <2>1. CASE j # n
    <3>1. i \in DOMAIN journal /\ j \in DOMAIN journal /\ journal[i] = journal[j] /\
            journal'[i] = journal[i]
      BY <1>1, <1>2, <1>4, <2>1
    <3>2. /\ journal[i] = "pause" => "resume" \in Between(i, j)
          /\ journal[i] = "resume" => "pause" \in Between(i, j)
      BY <1>4, <3>1 DEF Alternating
    <3> QED BY <1>1, <1>2, <1>3, <3>1, <3>2
  <2>2. CASE j = n
    <3>1. i \in DOMAIN journal /\ journal[i] = t /\ journal'[i] = t /\ i < n
      BY <1>1, <1>2, <1>4, <2>2
    <3>2. t = "pause" => \E k \in DOMAIN journal : k > i /\ journal[k] = "resume"
      BY <3>1 DEF OpenPause
    <3>3. t = "pause" => "resume" \in Between(i, n)
      BY <1>1, <3>1, <3>2 DEF Between
    <3>4. t = "resume" => Len(journal) \in DOMAIN journal /\ journal[Len(journal)] = "pause" /\
            i # Len(journal)
      BY <1>1, <3>1 DEF Last
    <3>5. t = "resume" => "pause" \in Between(i, n)
      BY <1>1, <3>1, <3>4 DEF Between
    <3> QED BY <1>1, <1>3, <2>2, <3>1, <3>3, <3>5
  <2> QED BY <2>1, <2>2
<1>5. ASSUME NEW i \in DOMAIN journal', journal'[i] = "resume"
      PROVE  "pause" \in Between(0, i)'
  <2>1. CASE i # n
    <3>1. i \in DOMAIN journal /\ journal[i] = "resume"
      BY <1>1, <1>2, <1>5, <2>1
    <3>2. "pause" \in Between(0, i)
      BY <3>1 DEF Alternating
    <3> QED BY <1>1, <1>3, <3>1, <3>2
  <2>2. CASE i = n
    <3>1. Len(journal) \in DOMAIN journal /\ journal[Len(journal)] = "pause"
      BY <1>1, <1>2, <1>5, <2>2 DEF Last
    <3>2. "pause" \in Between(0, n)
      BY <1>1, <3>1 DEF Between
    <3> QED BY <1>1, <1>3, <2>2, <3>2
  <2> QED BY <2>1, <2>2
<1>6. ASSUME NEW i \in 1 .. (Len(journal') - 1), journal'[i] = "resume"
      PROVE  journal'[i + 1] \in {"attempt", "pause", "STOPPED"}
  <2>1. i \in DOMAIN journal /\ journal[i] = "resume"
    BY <1>1, <1>2, <1>6
  <2>2. CASE i = Len(journal)
    BY <1>1, <1>2, <2>1, <2>2 DEF Last
  <2>3. CASE i # Len(journal)
    BY <1>1, <1>2, <2>1, <2>3 DEF Alternating
  <2> QED BY <2>2, <2>3
<1> QED BY <1>4, <1>5, <1>6 DEF Alternating

(* and the papers of a delivery come once and in their order. *)
LEMMA StillInOrder ==
  ASSUME TypeOK, InOrder, NEW t \in Types, journal' = Append(journal, t),
         t = "accepted" => ~OnDisk("accepted") /\ ~OnDisk("finalized"),
         t = "finalized" => ~OnDisk("finalized"),
         t = "reserved" => journal # <<>> /\ Last = "finalized",
         t = "completed" => OnDisk("reserved") /\ ~OnDisk("completed")
  PROVE  InOrder'
<1> DEFINE n == Len(journal) + 1
<1>1. /\ journal \in Seq(Types) /\ Len(journal) \in Nat /\ DOMAIN journal = 1 .. Len(journal)
      /\ n \in Nat /\ n - 1 = Len(journal)
  BY DEF TypeOK
<1>2. /\ Len(journal') = n /\ journal'[n] = t
      /\ DOMAIN journal' = 1 .. n /\ \A i \in 1 .. Len(journal) : journal'[i] = journal[i]
  BY <1>1
<1>3. \A j \in 0 .. n : Between(0, j)' = Between(0, j)
  <2>1. ASSUME NEW j \in 0 .. n, NEW k \in (0 + 1) .. (j - 1)
        PROVE  journal'[k] = journal[k]
    <3>1. k \in 1 .. Len(journal)
      BY <1>1
    <3> QED BY <1>2, <3>1
  <2> QED BY <2>1 DEF Between
<1>4. ASSUME NEW type
      PROVE  OnDisk(type) <=> type \in Between(0, n)
  BY <1>1 DEF OnDisk, Between
<1>5. t = "reserved" => ~OnDisk("reserved")
  <2>1. SUFFICES ASSUME t = "reserved", NEW i \in DOMAIN journal, journal[i] = "reserved"
                 PROVE  FALSE
    BY DEF OnDisk
  <2>2. "finalized" \in Between(0, i)
    BY <2>1 DEF InOrder
  <2>3. PICK k \in 1 .. (i - 1) : journal[k] = "finalized"
    BY <1>1, <2>2 DEF Between
  <2>4. Len(journal) \in DOMAIN journal /\ journal[Len(journal)] = "finalized" /\
          k \in DOMAIN journal /\ k < Len(journal)
    BY <1>1, <2>1, <2>3 DEF Last
  <2> QED BY <2>3, <2>4 DEF InOrder, Papers
<1>6. t \in Papers => ~OnDisk(t)
  BY <1>5 DEF Papers
<1>7. ASSUME NEW i \in DOMAIN journal', NEW j \in DOMAIN journal', i < j, journal'[i] = journal'[j]
      PROVE  journal'[i] \notin Papers
  <2>1. CASE j # n
    <3>1. i \in DOMAIN journal /\ j \in DOMAIN journal /\ journal[i] = journal[j] /\
            journal'[i] = journal[i]
      BY <1>1, <1>2, <1>7, <2>1
    <3> QED BY <1>7, <3>1 DEF InOrder
  <2>2. CASE j = n
    <3>1. i \in DOMAIN journal /\ journal[i] = t /\ journal'[i] = t
      BY <1>1, <1>2, <1>7, <2>2
    <3> QED BY <1>6, <3>1 DEF OnDisk
  <2> QED BY <2>1, <2>2
<1>8. ASSUME NEW i \in DOMAIN journal'
      PROVE  /\ journal'[i] = "accepted" => "finalized" \notin Between(0, i)'
             /\ journal'[i] = "reserved" => "finalized" \in Between(0, i)'
             /\ journal'[i] = "completed" => "reserved" \in Between(0, i)'
  <2>1. CASE i # n
    <3>1. i \in DOMAIN journal /\ journal'[i] = journal[i] /\ i \in 0 .. n
      BY <1>1, <1>2, <2>1
    <3> QED BY <1>3, <3>1 DEF InOrder
  <2>2. CASE i = n
    <3>1. t = "reserved" => OnDisk("finalized")
      BY <1>1 DEF OnDisk, Last
    <3>2. Between(0, i)' = Between(0, i)
      BY <1>1, <1>3, <2>2
    <3>3. /\ t = "accepted" => "finalized" \notin Between(0, i)
          /\ t = "reserved" => "finalized" \in Between(0, i)
          /\ t = "completed" => "reserved" \in Between(0, i)
      BY <1>4, <2>2, <3>1
    <3> QED BY <1>2, <2>2, <3>2, <3>3
  <2> QED BY <2>1, <2>2
<1> QED BY <1>7, <1>8 DEF InOrder

(* The stage under way takes a step, and the others wait. *)
LEMMA ToMeans ==
  ASSUME TypeOK, ops # <<>>, NEW label \in {"closing", "saving", "acting", "concluding"}, To(label)
  PROVE  /\ ops' \in Seq(Stages) /\ ops' # <<>> /\ DOMAIN ops' = DOMAIN ops
         /\ Op' = [Op EXCEPT !.at = label] /\ Op \in Stages
         /\ Op = ops[1] /\ Op' = ops'[1] /\ 1 \in DOMAIN ops
         /\ \A i \in DOMAIN ops' : i > 1 => ops'[i] = ops[i]
<1>1. ops \in Seq(Stages) /\ Op \in Stages /\ Op = ops[1] /\ 1 \in DOMAIN ops
  BY DEF TypeOK, Op
<1>2. [Op EXCEPT !.at = label] \in Stages
  BY <1>1 DEF Stages
<1> QED BY <1>1, <1>2, FirstReplaced DEF To, Op

(* The stage under way ends, and the next one has not begun. *)
LEMMA DoneMeans ==
  ASSUME TypeOK, QueueStands, ops # <<>>, Done
  PROVE  /\ ~StageUnderWay'
         /\ ops' \in Seq(Stages) /\ Op \in Stages /\ Op = ops[1] /\ 1 \in DOMAIN ops
         /\ \A i \in DOMAIN ops' : i + 1 \in DOMAIN ops /\ i + 1 > 1 /\ ops'[i] = ops[i + 1]
         /\ (ops' # <<>> => Op' = ops[2] /\ 2 \in DOMAIN ops)
<1>1. ops \in Seq(Stages) /\ Op \in Stages /\ Op = ops[1] /\ 1 \in DOMAIN ops
  BY DEF TypeOK, Op
<1>2. /\ ops' \in Seq(Stages)
      /\ \A i \in DOMAIN ops' : i + 1 \in DOMAIN ops /\ i + 1 > 1 /\ ops'[i] = ops[i + 1]
      /\ (ops' # <<>> => Op' = ops[2] /\ 2 \in DOMAIN ops)
  BY <1>1, FirstGone DEF Done, Op
<1>3. ~StageUnderWay'
  BY <1>2 DEF QueueStands, StageUnderWay
<1> QED BY <1>1, <1>2, <1>3

(* The control under way takes a step, and the others wait. *)
LEMMA GoesMeans ==
  ASSUME TypeOK, controls # <<>>, NEW label \in {"closing", "before", "consumed", "saving", "after",
           "cleaning"},
         Goes(label)
  PROVE  /\ controls' \in Seq(Turns) /\ controls' # <<>> /\ DOMAIN controls' = DOMAIN controls
         /\ Turn' = [Turn EXCEPT !.at = label] /\ Turn \in Turns
         /\ Turn = controls[1] /\ Turn' = controls'[1] /\ 1 \in DOMAIN controls
         /\ \A i \in DOMAIN controls' : i > 1 => controls'[i] = controls[i]
<1>1. controls \in Seq(Turns) /\ Turn \in Turns /\ Turn = controls[1] /\ 1 \in DOMAIN controls
  BY DEF TypeOK, Turn
<1>2. [Turn EXCEPT !.at = label] \in Turns
  BY <1>1 DEF Turns
<1> QED BY <1>1, <1>2, FirstReplaced DEF Goes, Turn

(* The control under way is over, and the next one has not begun. *)
LEMMA OverMeans ==
  ASSUME TypeOK, TurnsStand, controls # <<>>, Over
  PROVE  /\ (controls' # <<>> => Turn'.at = "queued")
         /\ controls' \in Seq(Turns) /\ Turn \in Turns /\ Turn = controls[1] /\
              1 \in DOMAIN controls
         /\ \A i \in DOMAIN controls' : i + 1 \in DOMAIN controls /\ i + 1 > 1 /\
              controls'[i] = controls[i + 1]
         /\ (controls' # <<>> => Turn' = controls[2] /\ 2 \in DOMAIN controls)
<1>1. controls \in Seq(Turns) /\ Turn \in Turns /\ Turn = controls[1] /\ 1 \in DOMAIN controls
  BY DEF TypeOK, Turn
<1>2. /\ controls' \in Seq(Turns)
      /\ \A i \in DOMAIN controls' : i + 1 \in DOMAIN controls /\ i + 1 > 1 /\
           controls'[i] = controls[i + 1]
      /\ (controls' # <<>> => Turn' = controls[2] /\ 2 \in DOMAIN controls)
  BY <1>1, FirstGone DEF Over, Turn
<1>3. controls' # <<>> => Turn'.at = "queued"
  BY <1>2 DEF TurnsStand
<1> QED BY <1>1, <1>2, <1>3

(* One more waits for its turn. *)
LEMMA WaitsMeans ==
  ASSUME TypeOK, NEW c \in Turns, controls' = Append(controls, c)
  PROVE  /\ controls' \in Seq(Turns) /\ controls' # <<>>
         /\ Turn' = IF controls = <<>> THEN c ELSE Turn
         /\ Len(controls') \in DOMAIN controls' /\ controls'[Len(controls')] = c
         /\ (Len(controls') = 1 <=> controls = <<>>) /\ (controls # <<>> => Turn = controls[1] /\
               1 \in DOMAIN controls)
         /\ \A i \in DOMAIN controls : i \in DOMAIN controls' /\ controls'[i] = controls[i] /\
              i # Len(controls')
         /\ \A i \in DOMAIN controls' : i # Len(controls') => i \in DOMAIN controls
<1>1. controls \in Seq(Turns)
  BY DEF TypeOK
<1> QED BY <1>1, Appended DEF Turn

(* One more stage is launched. *)
LEMMA LaunchMeans ==
  ASSUME TypeOK, NEW o \in Stages, o.at = "launched", ops' = Append(ops, o)
  PROVE  /\ ops' \in Seq(Stages) /\ ops' # <<>>
         /\ Op' = IF ops = <<>> THEN o ELSE Op
         /\ (StageUnderWay' <=> StageUnderWay)
         /\ \A i \in DOMAIN ops' : (i \in DOMAIN ops /\ ops'[i] = ops[i]) \/ ops'[i] = o
<1>1. ops \in Seq(Stages)
  BY DEF TypeOK
<1>2. /\ ops' \in Seq(Stages) /\ ops' # <<>>
      /\ Op' = IF ops = <<>> THEN o ELSE Op
      /\ \A i \in DOMAIN ops' : (i \in DOMAIN ops /\ ops'[i] = ops[i]) \/ ops'[i] = o
  BY <1>1, Appended DEF Op
<1>3. StageUnderWay' <=> StageUnderWay
  BY <1>2 DEF StageUnderWay
<1> QED BY <1>2, <1>3

(* A stage under way is one that the core waits for. *)
LEMMA UnderWay ==
  ASSUME TypeOK
  PROVE  StageUnderWay => ops # <<>> /\ Tracked # {} /\ ~Idle
<1>1. StageUnderWay => 1 \in Tracked
  BY DEF TypeOK, StageUnderWay, Tracked, Op
<1> QED BY <1>1 DEF StageUnderWay, Idle

(* The stages wait as before, also in a later epoch. *)
LEMMA QueueKept ==
  ASSUME TypeOK, QueueStands, core'.epoch \in Nat, core'.epoch >= core.epoch,
         mode' = mode \/ core'.epoch > core.epoch \/ ops' = <<>>,
         \/ ops' = ops
         \/ \E label \in {"closing", "saving", "acting", "concluding"} :
              ops # <<>> /\ Op.at # "launched" /\ To(label)
         \/ ops # <<>> /\ Done
  PROVE  QueueStands'
<1>0. ops \in Seq(Stages) /\ \A i \in DOMAIN ops : ops[i].epoch \in Nat
  <2>1. ops \in Seq(Stages)
    BY DEF TypeOK
  <2>2. \A i \in DOMAIN ops : ops[i] \in Stages
    BY <2>1
  <2> QED BY <2>1, <2>2 DEF Stages
<1>00. core.epoch \in Nat
  BY DEF TypeOK, Cores
<1>1. CASE ops' = ops
  BY <1>0, <1>00, <1>1 DEF QueueStands
<1>2. ASSUME NEW label \in {"closing", "saving", "acting", "concluding"}, ops # <<>>,
               Op.at # "launched", To(label)
      PROVE  QueueStands'
  <2>1. \A i \in DOMAIN ops' : ops'[i].epoch = ops[i].epoch /\ (i > 1 => ops'[i] = ops[i])
          /\ (i = 1 => ops[i].at # "launched") /\ i \in DOMAIN ops
    BY <1>0, <1>2, ToMeans DEF Stages
  <2> QED BY <1>0, <1>00, <2>1 DEF QueueStands
<1>3. CASE ops # <<>> /\ Done
  <2>1. \A i \in DOMAIN ops' : i + 1 \in DOMAIN ops /\ i + 1 > 1 /\ ops'[i] = ops[i + 1]
    BY <1>3, DoneMeans
  <2> QED BY <1>0, <1>00, <2>1 DEF QueueStands
<1> QED BY <1>1, <1>2, <1>3

(* Pauses and resumes wait as before, as long as the owner stays what it is or stops. *)
LEMMA TurnsKept ==
  ASSUME TypeOK, TurnsStand,
         \/ mode' = mode /\ core'.epoch = core.epoch
         \/ mode' \in {"blocked", "stopped"}
         \/ mode # "pausing" /\ mode' = mode
         \/ mode \in {"active", "paused", "resuming"},
         mode = "active" \/ ((ops = <<>> => ops' = <<>>) /\ (job = NoJob => job' = NoJob)),
         \/ controls' = controls
         \/ \E label \in {"closing", "before", "consumed", "saving", "after", "cleaning"} :
              controls # <<>> /\ Goes(label)
         \/ controls # <<>> /\ Over
  PROVE  TurnsStand'
<1>0. controls \in Seq(Turns)
  BY DEF TypeOK
<1>1. CASE controls' = controls
  BY <1>0, <1>1 DEF TurnsStand
<1>2. ASSUME NEW label \in {"closing", "before", "consumed", "saving", "after", "cleaning"},
             controls # <<>>, Goes(label)
      PROVE  TurnsStand'
  <2>1. \A i \in DOMAIN controls' : controls'[i].kind = controls[i].kind /\
          controls'[i].id = controls[i].id
          /\ (i > 1 => controls'[i] = controls[i]) /\ i \in DOMAIN controls
    BY <1>0, <1>2, GoesMeans DEF Turns
  <2> QED BY <1>0, <2>1 DEF TurnsStand
<1>3. CASE controls # <<>> /\ Over
  <2>1. \A i \in DOMAIN controls' : i \in Nat /\ i + 1 \in DOMAIN controls /\ i + 1 > 1 /\
          controls'[i] = controls[i + 1]
    BY <1>0, <1>3, OverMeans
  <2> QED BY <1>0, <2>1 DEF TurnsStand
<1> QED BY <1>1, <1>2, <1>3

(* A pause that has taken its turn was the only one. *)
LEMMA PauseTaken ==
  ASSUME TypeOK, TurnsStand, mode = "pausing", controls # <<>>, Turn.kind = "pause", Over
  PROVE  TurnsStand'
<1>1. controls \in Seq(Turns) /\ Turn = controls[1] /\ 1 \in DOMAIN controls
  BY OverMeans DEF TypeOK
<1>2. \A i \in DOMAIN controls : controls[i].kind = "pause" => i = 1
  BY <1>1 DEF TurnsStand
<1>3. \A i \in DOMAIN controls' : i \in Nat /\ i + 1 \in DOMAIN controls /\ i + 1 > 1 /\
        controls'[i] = controls[i + 1]
  BY <1>1, OverMeans
<1>4. \A i \in DOMAIN controls' : controls'[i].kind # "pause" /\ controls'[i].at = "queued"
  BY <1>2, <1>3 DEF TurnsStand
<1> QED BY <1>4 DEF TurnsStand

(* A fence denies the core and ends its epoch, and nothing else. *)
LEMMA CoreFenced ==
  ASSUME NEW c \in Cores
  PROVE  LET d == Fenced(c)
         IN  /\ d \in Cores /\ d.epoch \in Nat /\ c.epoch \in Nat /\ d.epoch > c.epoch
             /\ d.denied /\ d.stopped = c.stopped /\ d.closing = c.closing /\ d.epoch = c.epoch + 1
<1>1. ASSUME NEW n \in Nat
      PROVE  [c EXCEPT !.denied = TRUE, !.epoch = n] \in Cores
  BY DEF Cores
<1>2. c.epoch \in Nat /\ c.epoch + 1 \in Nat
  BY DEF Cores
<1>3. Fenced(c) \in Cores
  BY <1>1, <1>2 DEF Fenced
<1>4. Fenced(c).epoch = c.epoch + 1 /\ Fenced(c).denied /\ Fenced(c).closing = c.closing
  BY DEF Fenced, Cores
<1>5. Fenced(c).stopped = c.stopped
  BY DEF Fenced, Cores
<1> QED BY <1>2, <1>3, <1>4, <1>5

(* A core that is cut off has stopped, in a later epoch. *)
LEMMA CoreStopped ==
  ASSUME NEW c \in Cores
  PROVE  LET d == CutOff(c)
         IN  /\ d \in Cores /\ d.epoch \in Nat /\ c.epoch \in Nat /\ d.epoch > c.epoch
             /\ d.stopped /\ d.denied = c.denied /\ d.closing = c.closing
<1>1. ASSUME NEW n \in Nat
      PROVE  [c EXCEPT !.stopped = TRUE, !.epoch = n] \in Cores
  BY DEF Cores
<1>2. c.epoch \in Nat /\ c.epoch + 1 \in Nat
  BY DEF Cores
<1>3. CutOff(c) \in Cores
  BY <1>1, <1>2 DEF CutOff
<1>4. CutOff(c).epoch = c.epoch + 1 /\ CutOff(c).stopped /\ CutOff(c).closing = c.closing
  BY DEF Cores, CutOff
<1>5. CutOff(c).denied = c.denied
  BY DEF Cores, CutOff
<1> QED BY <1>2, <1>3, <1>4, <1>5

(* A poison also denies it. *)
LEMMA CorePoisoned ==
  ASSUME NEW c \in Cores, NEW d, d = [CutOff(c) EXCEPT !.denied = TRUE]
  PROVE  /\ d \in Cores /\ d.epoch \in Nat /\ c.epoch \in Nat /\ d.epoch > c.epoch
         /\ d.stopped /\ d.denied /\ d.closing = c.closing
<1>1. PICK b \in Cores : b = CutOff(c)
  BY CoreStopped
<1>2. /\ b.epoch \in Nat /\ c.epoch \in Nat /\ b.epoch > c.epoch
      /\ b.stopped /\ b.closing = c.closing
  BY <1>1, CoreStopped
<1>3. d \in Cores /\ d.denied /\ d.epoch = b.epoch /\ d.closing = b.closing
  BY <1>1 DEF Cores
<1>4. d.stopped = b.stopped
  BY <1>1 DEF Cores
<1> QED BY <1>2, <1>3, <1>4

(* What is closed is cut off first, once. *)
LEMMA CoreClosed ==
  ASSUME NEW c \in Cores
  PROVE  LET d == Closing(c)
         IN  /\ d \in Cores /\ d.epoch \in Nat /\ c.epoch \in Nat /\ d.epoch >= c.epoch
             /\ d.denied = c.denied /\ d.closing # "no"
             /\ (c.closing = "no" => d.stopped /\ d.closing = "waiting" /\ d.epoch > c.epoch)
             /\ (c.closing # "no" => d = c)
<1>1. PICK b \in Cores : b = CutOff(c)
  BY CoreStopped
<1>2. /\ b.epoch \in Nat /\ c.epoch \in Nat /\ b.epoch > c.epoch
      /\ b.stopped /\ b.denied = c.denied /\ b.closing = c.closing
  BY <1>1, CoreStopped
<1> DEFINE d == [b EXCEPT !.closing = "waiting"]
<1>3. d \in Cores /\ d.epoch = b.epoch /\ d.closing = "waiting"
  BY DEF Cores
<1>4. d.stopped = b.stopped
  BY DEF Cores
<1>5. d.denied = b.denied
  BY DEF Cores
<1>6. Closing(c) = IF c.closing # "no" THEN c ELSE d
  BY <1>1 DEF Closing
<1> QED BY <1>2, <1>3, <1>4, <1>5, <1>6

(* A commit asks for one record, of what the controller knows. *)
LEMMA CommitMeans ==
  ASSUME TypeOK, NEW who \in {"op", "control", "stop", "delivery"}, NEW type \in Types,
         NEW phase_ \in Phases, NEW e \in Nat, Commit(who, type, phase_, state.attempts, e)
  PROVE  save' \in Commits
<1> DEFINE n == [phase |-> phase_, attempts |-> state.attempts, revision |-> state.revision + 1]
<1>1. state.attempts \in 0 .. Budget /\ state.revision \in Nat
  BY DEF TypeOK, States
<1>2. n \in States
  BY <1>1 DEF States
<1>3. save' = [at |-> "asked", for |-> who, type |-> type, epoch |-> e, next |-> n]
  BY DEF Commit
<1> QED BY <1>2, <1>3 DEF Commits

(* The record under way goes on, and stays what it is. *)
LEMMA SaveGoes ==
  ASSUME TypeOK, save.at # "none",
         NEW l \in {"appending", "written", "ok", "failed"}, save' = [save EXCEPT !.at = l]
  PROVE  /\ save \in Commits /\ save' \in Commits /\ save'.at = l /\ save'.for = save.for
         /\ save'.type = save.type /\ save'.epoch = save.epoch /\ save'.next = save.next
         /\ save.next \in States /\ save.type \in Types /\ save.epoch \in Nat
<1>1. save \in Commits
  BY DEF TypeOK, NoSave
<1> QED BY <1>1 DEF Commits

(* Who waits for the record under way, and what is not under way then. *)
LEMMA WhoWaits ==
  ASSUME Inv, save.at # "none"
  PROVE  /\ save \in Commits /\ save.for \in {"op", "control", "stop", "delivery"}
         /\ save.for = "op" =>
              /\ ops # <<>> /\ Op = ops[1] /\ 1 \in DOMAIN ops /\ Op \in Stages
              /\ Op.at \in {"saving", "concluding"} /\ StageUnderWay /\ job = NoJob
              /\ stopping.at \in {"no", "called", "stages"} /\ ~core.stopped /\ copy = "none"
              /\ mode \in {"active", "stopped"} /\ (controls # <<>> => Turn.at = "queued")
         /\ save.for = "control" =>
              /\ controls # <<>> /\ Turn = controls[1] /\ 1 \in DOMAIN controls /\ Turn \in Turns
              /\ Turn.at = "saving" /\ ops = <<>> /\ job = NoJob /\ stopping.at # "saving"
              /\ mode \in {"stopped", "pausing", "resuming"}
         /\ save.for = "stop" =>
              /\ stopping.at = "saving" /\ mode = "stopped" /\ ~StageUnderWay /\ job = NoJob
              /\ ~core.stopped /\ (controls # <<>> => Turn.at # "saving")
         /\ save.for = "delivery" =>
              /\ job.at \in {"saving", "completing"} /\ job # NoJob /\ ops = <<>>
              /\ stopping.at \in {"no", "called"} /\ mode \in {"active", "stopped"}
              /\ (controls # <<>> => Turn.at = "queued") /\ state.phase = "DIAGNOSTIC_READY"
<1>1. save \in Commits /\ ops \in Seq(Stages) /\ controls \in Seq(Turns)
  BY DEF Inv, TypeOK, NoSave
<1>2. save.for \in {"op", "control", "stop", "delivery"}
  BY <1>1 DEF Commits
<1>3. \A who \in {"op", "control", "stop", "delivery"} : Waits(who) <=> save.for = who
  BY DEF Inv, DeliveryStands, SavesStand
<1>4. ops # <<>> => Op = ops[1] /\ 1 \in DOMAIN ops /\ Op \in Stages
  BY <1>1 DEF Op
<1>5. controls # <<>> => Turn = controls[1] /\ 1 \in DOMAIN controls /\ Turn \in Turns
  BY <1>1 DEF Turn
<1>6. CASE save.for = "op"
  BY <1>1, <1>3, <1>4, <1>6
     DEF Waits, StageUnderWay, Inv, DeliveryStands, StagesStand, ModesStand, ControlsStand, AtRest,
       TypeOK, NoJob
<1>7. CASE save.for = "control"
  BY <1>1, <1>3, <1>5, <1>7 DEF Waits, Inv, DeliveryStands, ControlsStand, ModesStand, NoJob
<1>8. CASE save.for = "stop"
  BY <1>1, <1>3, <1>8, UnderWay
     DEF Waits, Inv, DeliveryStands, ModesStand, ControlsStand, StagesStand, NoJob
<1>9. CASE save.for = "delivery"
  BY <1>1, <1>3, <1>9 DEF Waits, Inv, DeliveryStands, ModesStand, ControlsStand, NoJob
<1> QED BY <1>1, <1>2, <1>6, <1>7, <1>8, <1>9

(* What a record says of the stage, the control or the job that waits for it. *)
LEMMA WhatTheySave ==
  ASSUME Inv, save.at # "none"
  PROVE  /\ save.type = "STOPPED" => save.for \in {"op", "stop"} /\ save.next.phase = "STOPPED"
         /\ save.for = "stop" => save.type = "STOPPED"
         /\ save.for = "control" =>
              /\ save.type \in {"pause", "resume"} /\ save.type = Turn.kind
              /\ save.next.phase = state.phase /\ state.phase \in Resumable
         /\ save.for = "delivery" =>
              /\ save.type \in Papers /\ save.next.phase = state.phase
              /\ <<job.kind, job.at, save.type>> \in Recorded
         /\ save.for = "op" =>
              /\ save.type \in {"attempt", "seal", "assign", "result", "ready", "STOPPED"}
              /\ (save.type = "attempt" => save.next.phase = "AUTHORING")
              /\ (save.next.phase \in Terminal => save.type \in {"STOPPED", "result"})
              /\ (save.next.phase \in {"STOPPED", "RECONCILIATION_REQUIRED"} =>
                    save.type = "STOPPED")
              /\ (save.next.phase \in Resumable => save.type = "result")
         /\ save.epoch <= core.epoch
         /\ (save.at \notin {"none", "ok"} => save.next.revision = state.revision + 1
               /\ save.next.attempts = state.attempts + (IF save.type = "attempt" THEN 1 ELSE 0))
         /\ (save.at \in {"written", "ok"} => save.next.revision = Len(journal) /\ Last = save.type)
<1>1. WhatIsSaved /\ save.epoch <= core.epoch
      /\ (save.at \in {"written", "ok"} => save.next.revision = Len(journal) /\ Last = save.type)
      /\ (save.at \notin {"none", "ok"} => save.next.revision = state.revision + 1
               /\ save.next.attempts = state.attempts + (IF save.type = "attempt" THEN 1 ELSE 0))
  BY DEF Inv, DeliveryStands, SavesStand
<1>2. CASE save.for = "op"
  BY <1>1, <1>2, WhoWaits DEF WhatIsSaved, Begun, Concluded, Terminal, Resumable
<1>3. CASE save.for = "control"
  BY <1>1, <1>3, WhoWaits DEF WhatIsSaved, Turns
<1>4. CASE save.for = "stop"
  BY <1>1, <1>4 DEF WhatIsSaved
<1>5. CASE save.for = "delivery"
  BY <1>1, <1>5 DEF WhatIsSaved, Recorded, Papers
<1> QED BY <1>1, <1>2, <1>3, <1>4, <1>5, WhoWaits

(* Where neither a stage, a control, the stop nor the job waits for a record,
   none is being saved. *)
LEMMA NobodyWaits ==
  ASSUME Inv,
         ops # <<>> => Op.at \notin {"saving", "concluding"},
         controls # <<>> => Turn.at # "saving",
         stopping.at # "saving", job.at \notin {"saving", "completing"}
  PROVE  save = NoSave /\ save.at = "none"
<1>1. save.at # "none" => save.for \in {"op", "control", "stop", "delivery"}
  BY WhoWaits
<1>2. save.at = "none"
  BY <1>1 DEF Inv, DeliveryStands, SavesStand, Waits
<1>3. save \in Commits \cup {NoSave}
  BY DEF Inv, TypeOK
<1> QED BY <1>2, <1>3 DEF Commits

(* Where nothing was cut off the owner has heard of all that is on disk. *)
LEMMA HeardInStep ==
  ASSUME Inv, mode \notin {"blocked", "stopped"}, ~core.stopped, Owned, save.at # "written"
  PROVE  /\ state.revision = Len(journal) /\ Spent = state.attempts /\ save.at # "failed"
         /\ (save.at # "none" => save.epoch = core.epoch)
         /\ (OnDisk("STOPPED") => state.phase = "STOPPED")
         /\ stopping.at = "no" /\ ~stopping.failed
<1>1. stopping.at = "no" /\ ~stopping.failed
  BY DEF Inv, DeliveryStands, ModesStand
<1>2. /\ state.revision = Len(journal) /\ Spent = state.attempts /\ save.at # "failed"
      /\ (save.at # "none" => save.epoch = core.epoch)
  BY DEF InStep, Inv, DeliveryStands, CountsStand
<1>3. OnDisk("STOPPED") => state.phase = "STOPPED"
  BY <1>1, <1>2 DEF Inv, DeliveryStands, EndStands
<1> QED BY <1>1, <1>2, <1>3

(* What is taken out of a sequence leaves the others in their order. *)
LEMMA OneLess ==
  ASSUME NEW S, NEW s \in Seq(S), NEW i \in DOMAIN s
  PROVE  LET t == SubSeq(s, 1, i - 1) \o SubSeq(s, i + 1, Len(s))
         IN /\ t \in Seq(S) /\ Len(t) = Len(s) - 1 /\ (t # <<>> => Head(t) = t[1] /\ 1 \in DOMAIN t)
            /\ \A k \in DOMAIN t : k \in Nat \ {0}
                 /\ IF k < i THEN k \in DOMAIN s /\ t[k] = s[k] ELSE k + 1 \in DOMAIN s /\
                         t[k] = s[k + 1]
<1> DEFINE a == SubSeq(s, 1, i - 1)
           b == SubSeq(s, i + 1, Len(s))
           t == a \o b
<1>0. i \in 1 .. Len(s) /\ Len(s) \in Nat /\ DOMAIN s = 1 .. Len(s)
  OBVIOUS
<1>1. a \in Seq(S) /\ Len(a) = i - 1 /\ \A k \in 1 .. (i - 1) : a[k] = s[k]
  BY <1>0
<1>2. b \in Seq(S) /\ Len(b) = Len(s) - i /\ \A k \in 1 .. (Len(s) - i) : b[k] = s[i + k]
  BY <1>0
<1> HIDE DEF a, b
<1>3. t \in Seq(S) /\ Len(t) = Len(s) - 1 /\ DOMAIN t = 1 .. (Len(s) - 1)
  <2>1. t \in Seq(S) /\ Len(t) = Len(a) + Len(b)
    BY <1>1, <1>2, ConcatProperties
  <2>2. Len(t) = Len(s) - 1 /\ Len(t) \in Nat
    BY <1>0, <1>1, <1>2, <2>1
  <2>3. DOMAIN t = 1 .. Len(t)
    BY <2>1
  <2> QED BY <2>1, <2>2, <2>3
<1>4. ASSUME NEW k \in DOMAIN t
      PROVE  k \in Nat \ {0} /\ IF k < i THEN k \in DOMAIN s /\
               t[k] = s[k] ELSE k + 1 \in DOMAIN s /\ t[k] = s[k + 1]
  <2>1. k \in 1 .. (Len(s) - 1)
    BY <1>3
  <2>2. CASE k < i
    BY <1>0, <1>1, <1>2, <2>1, <2>2
  <2>3. CASE ~(k < i)
    <3>1. k - (i - 1) \in 1 .. (Len(s) - i) /\ t[k] = b[k - (i - 1)]
      BY <1>0, <1>1, <1>2, <2>1, <2>3
    <3>2. i + (k - (i - 1)) = k + 1 /\ k + 1 \in DOMAIN s /\ k \in Nat \ {0}
      BY <1>0, <2>1, <2>3
    <3>3. t[k] = s[k + 1]
      BY <1>2, <3>1, <3>2
    <3> QED BY <2>3, <3>2, <3>3
  <2> QED BY <2>2, <2>3
<1>5. t # <<>> => Head(t) = t[1] /\ 1 \in DOMAIN t
  BY <1>3
<1> QED BY <1>3, <1>4, <1>5 DEF a, b

(* What is launched is queued while the owner is active, and dropped when it is not; what is
   under way does not notice. *)
LEMMA EnqueuesMeans ==
  ASSUME TypeOK, QueueStands, NEW i \in DOMAIN ops, Enqueues(i)
  PROVE  /\ ops' \in Seq(Stages) /\ (StageUnderWay' <=> StageUnderWay)
         /\ (StageUnderWay => ops # <<>> /\ ops' # <<>> /\ Op' = Op) /\ QueueStands'
         /\ (mode # "active" /\ Tracked = {} => Tracked' = {})
<1>0. ops \in Seq(Stages) /\ i \in 1 .. Len(ops) /\ core.epoch \in Nat /\ ops # <<>>
  BY DEF TypeOK, Cores
<1>1. Op = ops[1] /\ 1 \in DOMAIN ops /\ ops[i].at = "launched" /\ mode' = mode /\ core' = core
  BY <1>0 DEF Op, Enqueues, owner
<1>2. CASE mode = "active" /\ ~store.poisoned
  <2> DEFINE o == [ops[i] EXCEPT !.at = "queued", !.epoch = core.epoch]
  <2>1. ops' = [ops EXCEPT ![i] = o]
    BY <1>2 DEF Enqueues
  <2>2. o \in Stages /\ o.at = "queued" /\ o.epoch = core.epoch
    <3>1. ops[i] \in Stages
      BY <1>0
    <3> QED BY <1>0, <3>1 DEF Stages
  <2> HIDE DEF o
  <2>3. ops' \in Seq(Stages) /\ DOMAIN ops' = DOMAIN ops /\ ops' # <<>> /\ Op' = ops'[1]
    BY <1>0, <2>1, <2>2 DEF Op
  <2>4. \A k \in DOMAIN ops' : ops'[k] = IF k = i THEN o ELSE ops[k]
    BY <1>0, <2>1
  <2>5. QueueStands'
    BY <1>0, <1>1, <1>2, <2>2, <2>3, <2>4 DEF QueueStands
  <2>6. (StageUnderWay' <=> StageUnderWay) /\ (StageUnderWay => Op' = Op)
    BY <1>1, <2>2, <2>3, <2>4 DEF StageUnderWay
  <2> QED BY <1>0, <1>2, <2>3, <2>5, <2>6
<1>3. CASE ~(mode = "active" /\ ~store.poisoned)
  <2>1. ops' = SubSeq(ops, 1, i - 1) \o SubSeq(ops, i + 1, Len(ops))
    BY <1>3 DEF Enqueues
  <2>2. /\ ops' \in Seq(Stages) /\ Len(ops') = Len(ops) - 1 /\ (ops' # <<>> => Op' = ops'[1] /\
             1 \in DOMAIN ops')
        /\ \A k \in DOMAIN ops' : k \in Nat \ {0}
             /\ IF k < i THEN k \in DOMAIN ops /\ ops'[k] = ops[k] ELSE k + 1 \in DOMAIN ops /\
                     ops'[k] = ops[k + 1]
    BY <1>0, <2>1, OneLess, ZenonT(40) DEF Op
  <2>3. QueueStands'
    BY <1>0, <1>1, <2>2 DEF QueueStands
  <2>4. (StageUnderWay' <=> StageUnderWay) /\ (StageUnderWay => ops' # <<>> /\ Op' = Op)
    <3>1. CASE i = 1
      <4>1. ~StageUnderWay
        BY <1>1, <3>1 DEF StageUnderWay
      <4>2. ops' # <<>> => Op'.at \in {"launched", "queued"}
        BY <1>0, <2>2, <3>1 DEF QueueStands
      <4> QED BY <4>1, <4>2 DEF StageUnderWay
    <3>2. CASE i # 1
      <4>1. ops' # <<>> /\ Op' = Op
        BY <1>0, <1>1, <2>2, <3>2
      <4> QED BY <1>0, <4>1 DEF StageUnderWay
    <3> QED BY <3>1, <3>2
  <2>5. \A k \in DOMAIN ops' : \E j \in DOMAIN ops : ops'[k] = ops[j]
    BY <2>2
  <2>6. Tracked = {} => Tracked' = {}
    BY <2>5 DEF Tracked
  <2> QED BY <1>0, <2>2, <2>3, <2>4, <2>6
<1> QED BY <1>2, <1>3

(* While the stage under way does not wait for a record, nobody does. *)
LEMMA StageGoesOn ==
  ASSUME Inv, ops # <<>>, Op.at \notin {"launched", "saving", "concluding"}
  PROVE  /\ save.at = "none" /\ job = NoJob /\ (controls # <<>> => Turn.at = "queued")
         /\ stopping.at \notin {"controls", "closing", "saving"} /\ mode \in {"active", "stopped"}
         /\ Op = ops[1] /\ 1 \in DOMAIN ops /\ Op \in Stages
         /\ (core.epoch = Op.epoch => mode = "active" /\ stopping.at = "no" /\ ~stopping.failed)
<1>1. ops \in Seq(Stages) /\ Op = ops[1] /\ 1 \in DOMAIN ops /\ Op \in Stages
  BY DEF Inv, TypeOK, Op
<1>2. Tracked # {}
  BY <1>1 DEF Tracked
<1>3. /\ job = NoJob /\ mode \in {"active", "stopped"} /\ (controls # <<>> => Turn.at = "queued")
      /\ stopping.at \notin {"controls", "closing", "saving"}
  BY <1>2 DEF Inv, TypeOK, DeliveryStands, ModesStand, ControlsStand, AtRest
<1>4. save.at = "none"
  <2>1. SUFFICES ASSUME save.at # "none"
                 PROVE  FALSE
    OBVIOUS
  <2> QED BY <1>3, <2>1, WhoWaits
<1>5. core.epoch = Op.epoch => mode = "active"
  BY <1>1 DEF Inv, DeliveryStands, StagesStand, QueueStands
<1>6. mode = "active" => stopping.at = "no" /\ ~stopping.failed
  BY DEF Inv, DeliveryStands, ModesStand, TypeOK, Stops
<1> QED BY <1>1, <1>3, <1>4, <1>5, <1>6

(* Whoever lives in an epoch of the owner has heard of all that is on disk. *)
LEMMA LivesInStep ==
  ASSUME Inv, ops # <<>>, Op.at \notin {"launched", "saving", "concluding"}, Live(Op.epoch)
  PROVE  /\ mode = "active" /\ ~core.stopped /\ Owned /\ stopping.at = "no"
         /\ state.revision = Len(journal) /\ Spent = state.attempts
         /\ (OnDisk("STOPPED") => state.phase = "STOPPED")
<1>1. /\ save.at = "none" /\ mode = "active" /\ ~core.stopped /\ Owned
      /\ stopping.at = "no" /\ ~stopping.failed
  BY StageGoesOn DEF Live
<1>2. state.revision = Len(journal) /\ Spent = state.attempts
  BY <1>1 DEF InStep, Inv, DeliveryStands, CountsStand
<1>3. OnDisk("STOPPED") => state.phase = "STOPPED"
  BY <1>1, <1>2 DEF Inv, DeliveryStands, EndStands
<1> QED BY <1>1, <1>2, <1>3

(* What does not change stands. *)
LEMMA Frames ==
  ASSUME Inv
  PROVE  /\ (UNCHANGED <<mode, permitted, checkpoint, controls, stopping, qualifying, core, ops,
               actor, author, space, custody, state, save, journal, store, faults>> => TypeOK')
         /\ (UNCHANGED <<phase, accepted, qualified, consumed, halted, job, copy, output,
               tampered>> => DeliveryTypeOK')
         /\ (UNCHANGED <<mode, checkpoint, core, ops, actor, author, space, custody, state, save,
               journal>> => PausedIsDrained')
         /\ (UNCHANGED <<mode, core, state, save, journal, store>> => BudgetKept')
         /\ (UNCHANGED <<mode, journal>> => ResumedOnce')
         /\ (UNCHANGED <<mode, controls, stopping, core, ops, state, save, journal, job>> =>
               SavesStand')
         /\ (UNCHANGED <<mode, core, ops>> => QueueStands')
         /\ (UNCHANGED <<mode, stopping, core, ops, state, save, copy>> => StagesStand')
         /\ (UNCHANGED <<mode, stopping, qualifying, core, ops, actor, author, state, save, journal,
               store, job>> => ModesStand')
         /\ (UNCHANGED <<mode, controls, core, ops, job>> => TurnsStand')
         /\ (UNCHANGED <<mode, controls, core, ops, space, custody, journal, job>> =>
               ControlsStand')
         /\ (UNCHANGED <<mode, core, state, save, journal, store>> => CountsStand')
         /\ (UNCHANGED <<mode, controls, state, save, journal>> => PausesStand')
         /\ (UNCHANGED <<stopping, core, state, save, journal>> => EndStands')
         /\ (UNCHANGED <<state, save, journal, store, phase, consumed, job, copy, output>> =>
               JobStands')
         /\ (UNCHANGED <<journal, phase, accepted, qualified, consumed, halted, job, copy, output,
               tampered>> => DeliveryIsEarned')
<1>t. UNCHANGED <<mode, permitted, checkpoint, controls, stopping, qualifying, core, ops, actor,
        author, space, custody, state, save, journal, store, faults>> => TypeOK'
  BY DEF Inv, DeliveryStands, DeliveryIsEarned, TypeOK
<1>u. UNCHANGED <<phase, accepted, qualified, consumed, halted, job, copy, output, tampered>> =>
        DeliveryTypeOK'
  BY DEF Inv, DeliveryStands, DeliveryIsEarned, DeliveryTypeOK
<1>d. UNCHANGED <<mode, checkpoint, core, ops, actor, author, space, custody, state, save,
        journal>> => PausedIsDrained'
  BY DEF Inv, DeliveryStands, DeliveryIsEarned, PausedIsDrained
<1>b. UNCHANGED <<mode, core, state, save, journal, store>> => BudgetKept'
  BY DEF Inv, DeliveryStands, DeliveryIsEarned, BudgetKept, Spent, Owned
<1>r. UNCHANGED <<mode, journal>> => ResumedOnce'
  BY DEF Inv, DeliveryStands, DeliveryIsEarned, ResumedOnce, OpenPause, Alternating, Between
<1>s. UNCHANGED <<mode, controls, stopping, core, ops, state, save, journal, job>> => SavesStand'
  BY
     DEF Inv, DeliveryStands, DeliveryIsEarned, SavesStand, Waits, WhatIsSaved, Begun, Concluded,
         Recorded, Last, Op, Turn
<1>g1. UNCHANGED <<mode, core, ops>> => QueueStands'
  BY DEF Inv, DeliveryStands, DeliveryIsEarned, QueueStands, StagesStand
<1>g. UNCHANGED <<mode, stopping, core, ops, state, save, copy>> => StagesStand'
  BY DEF Inv, DeliveryStands, DeliveryIsEarned, StagesStand, StageUnderWay, Op, QueueStands
<1>m. UNCHANGED <<mode, stopping, qualifying, core, ops, actor, author, state, save, journal, store,
        job>> => ModesStand'
  BY DEF Inv, DeliveryStands, DeliveryIsEarned, ModesStand, AtRest, Tracked, OnDisk
<1>k1. UNCHANGED <<mode, controls, core, ops, job>> => TurnsStand'
  BY DEF Inv, DeliveryStands, DeliveryIsEarned, TurnsStand, ControlsStand
<1>k. UNCHANGED <<mode, controls, core, ops, space, custody, journal, job>> => ControlsStand'
  BY DEF Inv, DeliveryStands, DeliveryIsEarned, ControlsStand, TurnsStand, Turn, Last
<1>n. UNCHANGED <<mode, core, state, save, journal, store>> => CountsStand'
  BY DEF Inv, DeliveryStands, DeliveryIsEarned, CountsStand, InStep, Owned, Unsaved, Spent
<1>p. UNCHANGED <<mode, controls, state, save, journal>> => PausesStand'
  BY DEF Inv, DeliveryStands, DeliveryIsEarned, PausesStand, OpenPause, Turn, Unsaved, Last
<1>e. UNCHANGED <<stopping, core, state, save, journal>> => EndStands'
  BY DEF Inv, DeliveryStands, DeliveryIsEarned, EndStands, OnDisk
<1>y. UNCHANGED <<state, save, journal, store, phase, consumed, job, copy, output>> => JobStands'
  BY DEF Inv, DeliveryStands, DeliveryIsEarned, JobStands, Unsaved, OnDisk, Last
<1>a. UNCHANGED <<journal, phase, accepted, qualified, consumed, halted, job, copy, output,
        tampered>> => DeliveryIsEarned'
  BY
     DEF Inv, DeliveryStands, DeliveryIsEarned, DeliveryTypeOK, OnDisk, InOrder, Between,
         DestinationHolds, Inspected, OutputHolds
<1> QED BY <1>t, <1>u, <1>d, <1>b, <1>r, <1>s, <1>g1, <1>g, <1>m, <1>k1, <1>k, <1>n, <1>p, <1>e,
           <1>y, <1>a

(* A record is accepted or refused, and who waits for it goes on waiting. *)
LEMMA StoreAcceptsStands ==
  ASSUME Inv, StoreAccepts, UNCHANGED deliveryVars
  PROVE  Inv'
<1> USE DEF Inv, DeliveryStands, SameOnDisk, deliveryVars, Owned, SameQueues
<1>j. SameOnDisk
  BY JournalStays DEF StoreAccepts, owner, stages
<1>h. SameQueues /\ (\A who : Waits(who)' <=> Waits(who))
  BY DEF Op, Turn, Waits, Tracked, StageUnderWay, StoreAccepts, owner, stages
<1>i. StageUnderWay => ops # <<>> /\ Tracked # {} /\ ~Idle
  BY UnderWay
<1>w. TypeOK /\ DeliveryTypeOK
  BY DEF DeliveryIsEarned
<1>x. /\ save.at = "asked" /\ save.at # "none" /\ save \in Commits /\ save' \in Commits /\
           save'.for = save.for /\ save'.type = save.type
      /\ save'.epoch = save.epoch /\ save'.next = save.next
      /\ save'.at \in {"appending", "failed"}
      /\ (save'.at = "failed" => ~Live(save.epoch))
      /\ UNCHANGED <<mode, permitted, checkpoint, controls, stopping, qualifying, core, ops, actor,
           author, space, custody, state, journal, store, faults>> /\ UNCHANGED deliveryVars
  <2> DEFINE l == IF Live(save.epoch) THEN "appending" ELSE "failed"
  <2>1. save.at = "asked" /\ save' = [save EXCEPT !.at = l] /\ l \in {"appending", "written", "ok",
          "failed"}
    BY DEF StoreAccepts
  <2>2. UNCHANGED <<mode, permitted, checkpoint, controls, stopping, qualifying, core, ops, actor,
          author, space, custody, state, journal, store, faults>> /\ UNCHANGED deliveryVars
    BY DEF StoreAccepts, owner, stages
  <2> QED BY <1>w, <2>1, <2>2, SaveGoes
<1>who. /\ save.for \in {"op", "control", "stop", "delivery"}
        /\ save.for = "op" =>
             /\ ops # <<>> /\ Op = ops[1] /\ 1 \in DOMAIN ops /\ Op \in Stages
             /\ Op.at \in {"saving", "concluding"} /\ StageUnderWay /\ job = NoJob
             /\ stopping.at \in {"no", "called", "stages"} /\ ~core.stopped /\ copy = "none"
             /\ mode \in {"active", "stopped"} /\ (controls # <<>> => Turn.at = "queued")
        /\ save.for = "control" =>
             /\ controls # <<>> /\ Turn = controls[1] /\ 1 \in DOMAIN controls /\ Turn \in Turns
             /\ Turn.at = "saving" /\ ops = <<>> /\ job = NoJob /\ stopping.at # "saving"
             /\ mode \in {"stopped", "pausing", "resuming"}
        /\ save.for = "stop" =>
             /\ stopping.at = "saving" /\ mode = "stopped" /\ ~StageUnderWay /\ job = NoJob
             /\ ~core.stopped /\ (controls # <<>> => Turn.at # "saving")
        /\ save.for = "delivery" =>
             /\ job.at \in {"saving", "completing"} /\ job # NoJob /\ ops = <<>>
             /\ stopping.at \in {"no", "called"} /\ mode \in {"active", "stopped"}
             /\ (controls # <<>> => Turn.at = "queued") /\ state.phase = "DIAGNOSTIC_READY"
  BY <1>x, WhoWaits
<1>wh. /\ save.type = "STOPPED" => save.for \in {"op", "stop"} /\ save.next.phase = "STOPPED"
       /\ save.for = "control" => save.type \in {"pause", "resume"} /\ save.next.phase = state.phase
       /\ save.for = "delivery" => save.type \in Papers /\ save.next.phase = state.phase
       /\ save.at \notin {"none", "ok"} => save.next.revision = state.revision + 1
       /\ save.at \in {"written", "ok"} => save.next.revision = Len(journal)
  BY <1>x, WhatTheySave
<1>f. DeliveryTypeOK' /\ ResumedOnce' /\ QueueStands' /\ TurnsStand' /\ ControlsStand' /\
        DeliveryIsEarned'
  BY Frames, <1>x, <1>who, <1>wh DEF StoreAccepts, owner, stages
<1>t. TypeOK'
  <2>save. save' \in Commits \cup {NoSave}
    BY <1>w, <1>x, <1>who, <1>wh, ContinuityAssumption
       DEF Live, TypeOK, NoSave, Commits, States, Phases, Types, Papers, Terminal, Resumable, Cores
  <2> QED BY <1>w, <1>x, <1>who, <1>wh, <2>save DEF Live, TypeOK
<1>d. PausedIsDrained'
  BY <1>j, <1>h, <1>i, <1>x, <1>who, <1>wh DEF Live, PausedIsDrained
<1>b. BudgetKept'
  BY <1>j, <1>h, <1>i, <1>x, <1>who, <1>wh, ContinuityAssumption
     DEF Live, BudgetKept, TypeOK, CountsStand, InStep, SavesStand, ModesStand, Commits, States
<1>s. SavesStand'
  <2>1. \A who \in {"op", "control", "stop", "delivery"} : Waits(who)' <=> save'.at # "none" /\
          save'.for = who
    BY <1>j, <1>h, <1>i, <1>x, <1>who, <1>wh
       DEF Live, SavesStand, Waits, WhatIsSaved, Begun, Concluded, Recorded
  <2>2. save'.at # "none" => WhatIsSaved'
    BY <1>j, <1>h, <1>i, <1>x, <1>who, <1>wh
       DEF Live, SavesStand, Waits, WhatIsSaved, Begun, Concluded, Recorded
  <2>3. save'.at # "none" => save'.epoch <= core'.epoch /\ (save'.epoch = core'.epoch /\
          save'.for \in {"op", "delivery"} => mode' = "active")
    BY <1>j, <1>h, <1>i, <1>x, <1>who, <1>wh
       DEF Live, SavesStand, Waits, WhatIsSaved, Begun, Concluded, Recorded
  <2>4. save'.at \in {"written", "ok"} => journal' # <<>> /\ Len(journal') = save'.next.revision /\
          Last' = save'.type
    BY <1>j, <1>h, <1>i, <1>x, <1>who, <1>wh
       DEF Live, SavesStand, Waits, WhatIsSaved, Begun, Concluded, Recorded
  <2>5. save'.at = "ok" => state' = save'.next
    BY <1>j, <1>h, <1>i, <1>x, <1>who, <1>wh
       DEF Live, SavesStand, Waits, WhatIsSaved, Begun, Concluded, Recorded
  <2>6. save'.at \notin {"none", "ok"} =>
            /\ save'.next.revision = state'.revision + 1
            /\ save'.next.attempts = state'.attempts + (IF save'.type = "attempt" THEN 1 ELSE 0)
    BY <1>j, <1>h, <1>i, <1>x, <1>who, <1>wh
       DEF Live, SavesStand, Waits, WhatIsSaved, Begun, Concluded, Recorded
  <2> QED BY <2>1, <2>2, <2>3, <2>4, <2>5, <2>6 DEF SavesStand
<1>g. StagesStand'
  BY <1>j, <1>h, <1>i, <1>x, <1>who, <1>wh, <1>f DEF Live, StagesStand, StageUnderWay, Resumable
<1>m. ModesStand'
  BY <1>j, <1>h, <1>i, <1>x, <1>who, <1>wh DEF Live, ModesStand, AtRest, Resumable
<1>n. CountsStand'
  <2>1. Unsaved' /\ save'.type = "attempt" => save'.next.attempts = Spent' + 1
    BY <1>j, <1>h, <1>i, <1>x, <1>who, <1>wh, ContinuityAssumption
       DEF Live, CountsStand, InStep, Unsaved, Terminal, Resumable
  <2>2. save'.at = "written" /\ save'.type = "attempt" => save'.next.attempts = Spent'
    BY <1>j, <1>h, <1>i, <1>x, <1>who, <1>wh, ContinuityAssumption
       DEF Live, CountsStand, InStep, Unsaved, Terminal, Resumable
  <2>3. InStep' => save'.at # "failed" /\ (save'.at # "none" => save'.epoch = core'.epoch)
    BY <1>j, <1>h, <1>i, <1>x, <1>who, <1>wh, ContinuityAssumption
       DEF Live, CountsStand, InStep, Unsaved, Terminal, Resumable
  <2>4. InStep' => (save'.at = "written" => Spent' = save'.next.attempts)
    BY <1>j, <1>h, <1>i, <1>x, <1>who, <1>wh, ContinuityAssumption
       DEF Live, CountsStand, InStep, Unsaved, Terminal, Resumable
  <2>5. InStep' => (save'.at # "written" => state'.revision = Len(journal') /\
          Spent' = state'.attempts)
    BY <1>j, <1>h, <1>i, <1>x, <1>who, <1>wh, ContinuityAssumption
       DEF Live, CountsStand, InStep, Unsaved, Terminal, Resumable
  <2>6. state'.phase \in Terminal =>
            state'.revision = Len(journal') /\ save'.at \notin {"asked", "appending", "written"}
    BY <1>j, <1>h, <1>i, <1>x, <1>who, <1>wh, ContinuityAssumption
       DEF Live, CountsStand, InStep, Unsaved, Terminal, Resumable
  <2> QED BY <2>1, <2>2, <2>3, <2>4, <2>5, <2>6 DEF CountsStand
<1>p. PausesStand'
  BY <1>j, <1>h, <1>i, <1>x, <1>who, <1>wh DEF Live, PausesStand, Unsaved, Resumable
<1>e. EndStands'
  BY <1>j, <1>h, <1>i, <1>x, <1>who, <1>wh DEF Live, EndStands, Terminal
<1>y. JobStands'
  BY <1>j, <1>h, <1>i, <1>x, <1>who, <1>wh DEF Live, JobStands, Unsaved
<1> QED BY <1>f, <1>t, <1>d, <1>b, <1>s, <1>g, <1>m, <1>n, <1>p, <1>e, <1>y

(* What is written is what was asked for: it follows in the journal as it must, and whoever asked
   for it knows what it says. *)
LEMMA StoreWritesStands ==
  ASSUME Inv, StoreWrites, UNCHANGED deliveryVars
  PROVE  Inv'
<1> USE DEF Inv, DeliveryStands, deliveryVars, Owned, SameQueues
<1>h. SameQueues /\ (\A who : Waits(who)' <=> Waits(who))
  BY DEF Op, Turn, Waits, Tracked, StageUnderWay, StoreWrites, IsNext, owner, stages
<1>i. StageUnderWay => ops # <<>> /\ Tracked # {} /\ ~Idle
  BY UnderWay
<1>w. TypeOK /\ DeliveryTypeOK
  BY DEF DeliveryIsEarned
<1>x. /\ save.at = "appending" /\ save.at # "none" /\ save \in Commits /\ save' \in Commits /\
           save'.for = save.for /\ save'.type = save.type
      /\ save'.epoch = save.epoch /\ save'.next = save.next
      /\ save'.at = "written" /\ Owned /\ IsNext /\ journal' = Append(journal, save.type) /\
           save.type \in Types
      /\ save.next \in States
      /\ UNCHANGED <<mode, permitted, checkpoint, controls, stopping, qualifying, core, ops, actor,
           author, space, custody, state, store, faults>> /\ UNCHANGED deliveryVars
  <2>1. save.at = "appending" /\ save' = [save EXCEPT !.at = "written"] /\ Owned /\ IsNext /\
          journal' = Append(journal, save.type)
    BY DEF StoreWrites
  <2>2. UNCHANGED <<mode, permitted, checkpoint, controls, stopping, qualifying, core, ops, actor,
          author, space, custody, state, store, faults>> /\ UNCHANGED deliveryVars
    BY DEF StoreWrites, owner, stages
  <2> QED BY <1>w, <2>1, <2>2, SaveGoes
<1>who. /\ save.for \in {"op", "control", "stop", "delivery"}
        /\ save.for = "op" =>
             /\ ops # <<>> /\ Op = ops[1] /\ 1 \in DOMAIN ops /\ Op \in Stages
             /\ Op.at \in {"saving", "concluding"} /\ StageUnderWay /\ job = NoJob
             /\ stopping.at \in {"no", "called", "stages"} /\ ~core.stopped /\ copy = "none"
             /\ mode \in {"active", "stopped"} /\ (controls # <<>> => Turn.at = "queued")
        /\ save.for = "control" =>
             /\ controls # <<>> /\ Turn = controls[1] /\ 1 \in DOMAIN controls /\ Turn \in Turns
             /\ Turn.at = "saving" /\ ops = <<>> /\ job = NoJob /\ stopping.at # "saving"
             /\ mode \in {"stopped", "pausing", "resuming"}
        /\ save.for = "stop" =>
             /\ stopping.at = "saving" /\ mode = "stopped" /\ ~StageUnderWay /\ job = NoJob
             /\ ~core.stopped /\ (controls # <<>> => Turn.at # "saving")
        /\ save.for = "delivery" =>
             /\ job.at \in {"saving", "completing"} /\ job # NoJob /\ ops = <<>>
             /\ stopping.at \in {"no", "called"} /\ mode \in {"active", "stopped"}
             /\ (controls # <<>> => Turn.at = "queued") /\ state.phase = "DIAGNOSTIC_READY"
  BY <1>x, WhoWaits
<1>wj. /\ journal' \in Seq(Types) /\ journal' # <<>> /\ Len(journal') = Len(journal) + 1 /\
            Last' = save.type
       /\ Spent' = Spent + (IF save.type = "attempt" THEN 1 ELSE 0) /\ Spent \in Nat
       /\ (OnDisk("STOPPED")' <=> OnDisk("STOPPED") \/ save.type = "STOPPED")
       /\ (OnDisk("accepted")' <=> OnDisk("accepted") \/ save.type = "accepted")
       /\ (OnDisk("finalized")' <=> OnDisk("finalized") \/ save.type = "finalized")
       /\ (OnDisk("reserved")' <=> OnDisk("reserved") \/ save.type = "reserved")
       /\ (OnDisk("completed")' <=> OnDisk("completed") \/ save.type = "completed")
       /\ (OpenPause' <=> save.type = "pause" \/ (OpenPause /\ save.type # "resume"))
  BY <1>w, <1>x, Written
<1>wa. Alternating'
  BY <1>w, <1>x, StillAlternating DEF PausesStand, Unsaved, ResumedOnce
<1>wi. InOrder'
  BY <1>w, <1>x, StillInOrder DEF JobStands, Unsaved, DeliveryIsEarned
<1>wh. /\ save.type = "STOPPED" => save.for \in {"op", "stop"} /\ save.next.phase = "STOPPED"
       /\ save.for = "control" => save.type \in {"pause", "resume"} /\ save.next.phase = state.phase
       /\ save.for = "delivery" => save.type \in Papers /\ save.next.phase = state.phase
       /\ save.at \notin {"none", "ok"} => save.next.revision = state.revision + 1
       /\ save.at \in {"written", "ok"} => save.next.revision = Len(journal)
       /\ <<job.kind, job.at, save.type>> \in Recorded \/ save.for # "delivery"
       /\ save.for = "op" => save.type \in {"attempt", "seal", "assign", "result", "ready",
            "STOPPED"}
       /\ save.for = "control" => save.type = Turn.kind /\ state.phase \in Resumable
       /\ save.for = "stop" => save.type = "STOPPED"
  BY <1>x, WhatTheySave
<1>wn. /\ save.next.revision = Len(journal) + 1 /\ save.next.attempts \in 0 .. Budget /\
            Budget \in Nat
       /\ save.next.attempts = state.attempts + (IF save.type = "attempt" THEN 1 ELSE 0) /\
            state.attempts \in Nat
       /\ (save.type = "attempt" => save.next.attempts = Spent + 1)
       /\ (InStep => Spent = state.attempts)
       /\ (save.type \in {"reserved", "completed"} => phase = "reserved")
       /\ (save.type = "completed" => output = "payload")
  <2>1. save.next.attempts \in 0 .. Budget /\ Budget \in Nat /\ state.attempts \in Nat
    BY <1>w, <1>x, ContinuityAssumption DEF States, TypeOK
  <2>2. save.next.revision = Len(journal) + 1
    BY <1>x DEF IsNext
  <2>3. /\ save.next.attempts = state.attempts + (IF save.type = "attempt" THEN 1 ELSE 0)
        /\ (save.type = "attempt" => save.next.attempts = Spent + 1) /\ (InStep =>
              Spent = state.attempts)
    BY <1>x DEF SavesStand, CountsStand, Unsaved
  <2>4. /\ save.type \in {"reserved", "completed"} => phase = "reserved"
        /\ save.type = "completed" => output = "payload"
    <3>1. /\ save.type \in {"reserved", "completed"} => save.for = "delivery" /\ job.kind = "export"
          /\ save.type = "completed" => job.at = "completing"
      BY <1>wh, <1>who DEF Recorded
    <3> QED BY <1>who, <3>1 DEF JobStands
  <2> QED BY <2>1, <2>2, <2>3, <2>4
<1>f. DeliveryTypeOK' /\ QueueStands' /\ TurnsStand'
  BY Frames, <1>x, <1>who, <1>wj, <1>wa, <1>wi, <1>wh, <1>wn DEF StoreWrites, IsNext, owner, stages
<1>t. TypeOK'
  <2>save. save' \in Commits \cup {NoSave}
    BY <1>w, <1>x, <1>who, <1>wj, <1>wa, <1>wi, <1>wh, <1>wn, ContinuityAssumption
       DEF Papers, NoSave, TypeOK, Commits, States, Phases, Types, Terminal, Resumable, Cores
  <2>rev. journal' \in Seq(Types) /\ state'.revision <= Len(journal')
    BY <1>w, <1>x, <1>who, <1>wj, <1>wa, <1>wi, <1>wh, <1>wn
       DEF Papers, NoSave, TypeOK, SavesStand, Commits, States
  <2> QED BY <1>w, <1>x, <1>who, <1>wj, <1>wa, <1>wi, <1>wh, <1>wn, <2>save, <2>rev
             DEF Papers, TypeOK
<1>d. PausedIsDrained'
  BY <1>h, <1>i, <1>x, <1>who, <1>wj, <1>wa, <1>wi, <1>wh, <1>wn DEF Papers, NoSave, PausedIsDrained
<1>b. BudgetKept'
  BY <1>h, <1>i, <1>x, <1>who, <1>wj, <1>wa, <1>wi, <1>wh, <1>wn, ContinuityAssumption
     DEF Papers, NoSave, BudgetKept
<1>r. ResumedOnce'
  BY <1>h, <1>i, <1>x, <1>who, <1>wj, <1>wa, <1>wi, <1>wh, <1>wn DEF Papers, NoSave, ResumedOnce
<1>s. SavesStand'
  <2>1. \A who \in {"op", "control", "stop", "delivery"} : Waits(who)' <=> save'.at # "none" /\
          save'.for = who
    BY <1>h, <1>i, <1>x, <1>who, <1>wj, <1>wa, <1>wi, <1>wh, <1>wn
       DEF Papers, NoSave, SavesStand, Waits, WhatIsSaved, Begun, Concluded, Recorded
  <2>2. save'.at # "none" => WhatIsSaved'
    BY <1>h, <1>i, <1>x, <1>who, <1>wj, <1>wa, <1>wi, <1>wh, <1>wn
       DEF Papers, NoSave, SavesStand, Waits, WhatIsSaved, Begun, Concluded, Recorded
  <2>3. save'.at # "none" => save'.epoch <= core'.epoch /\ (save'.epoch = core'.epoch /\
          save'.for \in {"op", "delivery"} => mode' = "active")
    BY <1>h, <1>i, <1>x, <1>who, <1>wj, <1>wa, <1>wi, <1>wh, <1>wn
       DEF Papers, NoSave, SavesStand, Waits, WhatIsSaved, Begun, Concluded, Recorded
  <2>4. save'.at \in {"written", "ok"} => journal' # <<>> /\ Len(journal') = save'.next.revision /\
          Last' = save'.type
    BY <1>h, <1>i, <1>x, <1>who, <1>wj, <1>wa, <1>wi, <1>wh, <1>wn
       DEF Papers, NoSave, SavesStand, Waits, WhatIsSaved, Begun, Concluded, Recorded
  <2>5. save'.at = "ok" => state' = save'.next
    BY <1>h, <1>i, <1>x, <1>who, <1>wj, <1>wa, <1>wi, <1>wh, <1>wn
       DEF Papers, NoSave, SavesStand, Waits, WhatIsSaved, Begun, Concluded, Recorded
  <2>6. save'.at \notin {"none", "ok"} =>
            /\ save'.next.revision = state'.revision + 1
            /\ save'.next.attempts = state'.attempts + (IF save'.type = "attempt" THEN 1 ELSE 0)
    BY <1>h, <1>i, <1>x, <1>who, <1>wj, <1>wa, <1>wi, <1>wh, <1>wn
       DEF Papers, NoSave, SavesStand, Waits, WhatIsSaved, Begun, Concluded, Recorded
  <2> QED BY <2>1, <2>2, <2>3, <2>4, <2>5, <2>6 DEF SavesStand
<1>g. StagesStand'
  BY <1>h, <1>i, <1>x, <1>who, <1>wj, <1>wa, <1>wi, <1>wh, <1>wn, <1>f
     DEF Papers, NoSave, StagesStand, StageUnderWay, Resumable
<1>m. ModesStand'
  <2>1. stopping'.at # "no" <=> mode' = "stopped"
    BY <1>h, <1>i, <1>x, <1>who, <1>wj, <1>wa, <1>wi, <1>wh, <1>wn
       DEF Papers, NoSave, ModesStand, AtRest, Resumable
  <2>2. core'.closing # "no" \/ store'.revoked \/ mode' = "blocked" => core'.stopped
    BY <1>h, <1>i, <1>x, <1>who, <1>wj, <1>wa, <1>wi, <1>wh, <1>wn
       DEF Papers, NoSave, ModesStand, AtRest, Resumable
  <2>3. core'.stopped => store'.revoked \/ mode' = "stopped"
    BY <1>h, <1>i, <1>x, <1>who, <1>wj, <1>wa, <1>wi, <1>wh, <1>wn
       DEF Papers, NoSave, ModesStand, AtRest, Resumable
  <2>4. core'.closing = "closed" => store'.closed
    BY <1>h, <1>i, <1>x, <1>who, <1>wj, <1>wa, <1>wi, <1>wh, <1>wn
       DEF Papers, NoSave, ModesStand, AtRest, Resumable
  <2>5. core'.closing \in {"closed", "failed"} => save'.at = "none"
    BY <1>h, <1>i, <1>x, <1>who, <1>wj, <1>wa, <1>wi, <1>wh, <1>wn
       DEF Papers, NoSave, ModesStand, AtRest, Resumable
  <2>6. mode' \in AtRest \cup {"blocked"} =>
            ops' = <<>> /\ actor' = "none" /\ ~author' /\ job' = NoJob /\ ~OnDisk("STOPPED")'
    BY <1>h, <1>i, <1>x, <1>who, <1>wj, <1>wa, <1>wi, <1>wh, <1>wn
       DEF Papers, NoSave, ModesStand, AtRest, Resumable
  <2>7. mode' \in AtRest => ~core'.stopped /\ core'.denied /\ state'.phase \in Resumable
    BY <1>h, <1>i, <1>x, <1>who, <1>wj, <1>wa, <1>wi, <1>wh, <1>wn
       DEF Papers, NoSave, ModesStand, AtRest, Resumable
  <2>8. qualifying' <=> job' # NoJob
    BY <1>h, <1>i, <1>x, <1>who, <1>wj, <1>wa, <1>wi, <1>wh, <1>wn
       DEF Papers, NoSave, ModesStand, AtRest, Resumable
  <2>9. job' # NoJob =>
            /\ ops' = <<>> /\ mode' \in {"active", "stopped"} /\ stopping'.at \in {"no", "called"}
            /\ ~OnDisk("STOPPED")' /\ state'.phase = "DIAGNOSTIC_READY"
    BY <1>h, <1>i, <1>x, <1>who, <1>wj, <1>wa, <1>wi, <1>wh, <1>wn
       DEF Papers, NoSave, ModesStand, AtRest, Resumable
  <2>10. stopping'.at = "controls" => ops' = <<>>
    BY <1>h, <1>i, <1>x, <1>who, <1>wj, <1>wa, <1>wi, <1>wh, <1>wn
       DEF Papers, NoSave, ModesStand, AtRest, Resumable
  <2>11. stopping'.at \in {"closing", "saving"} => Tracked' = {}
    BY <1>h, <1>i, <1>x, <1>who, <1>wj, <1>wa, <1>wi, <1>wh, <1>wn
       DEF Papers, NoSave, ModesStand, AtRest, Resumable
  <2>12. stopping'.at = "saving" => ~core'.stopped
    BY <1>h, <1>i, <1>x, <1>who, <1>wj, <1>wa, <1>wi, <1>wh, <1>wn
       DEF Papers, NoSave, ModesStand, AtRest, Resumable
  <2>13. stopping'.at = "stopped" => ~stopping'.failed /\ core'.closing = "closed"
    BY <1>h, <1>i, <1>x, <1>who, <1>wj, <1>wa, <1>wi, <1>wh, <1>wn
       DEF Papers, NoSave, ModesStand, AtRest, Resumable
  <2>14. stopping'.failed => stopping'.at \in {"core", "failed"}
    BY <1>h, <1>i, <1>x, <1>who, <1>wj, <1>wa, <1>wi, <1>wh, <1>wn
       DEF Papers, NoSave, ModesStand, AtRest, Resumable
  <2> QED BY <2>1, <2>2, <2>3, <2>4, <2>5, <2>6, <2>7, <2>8, <2>9, <2>10, <2>11, <2>12, <2>13, <2>14
             DEF ModesStand
<1>k. ControlsStand'
  <2>1. controls' # <<>> /\ Turn'.at # "queued" =>
            /\ ops' = <<>> /\ job' = NoJob
            /\ <<Turn'.kind, Turn'.at>> \in
                 {<<kind, "cleaning">> : kind \in {"pause", "resume"}}
                   \cup {<<"pause", at>> : at \in {"closing", "before", "saving", "after"}}
                   \cup {<<"resume", at>> : at \in {"before", "consumed", "saving", "after"}}
    BY <1>h, <1>i, <1>x, <1>who, <1>wj, <1>wa, <1>wi, <1>wh, <1>wn, <1>f
       DEF Papers, NoSave, ControlsStand
  <2>2. controls' # <<>> /\ Turn'.at # "queued" =>
            mode' \in {"stopped", IF Turn'.at = "cleaning" THEN "blocked"
                                  ELSE IF Turn'.kind = "pause" THEN "pausing"
                                  ELSE IF Turn'.at = "before" THEN "paused" ELSE "resuming"}
    BY <1>h, <1>i, <1>x, <1>who, <1>wj, <1>wa, <1>wi, <1>wh, <1>wn, <1>f
       DEF Papers, NoSave, ControlsStand
  <2>3. controls' # <<>> /\ mode' # "stopped" =>
            /\ (Turn'.kind = "pause" /\ Turn'.at \in {"saving", "after"} => space' = "none" /\
                  ~custody')
            /\ (Turn'.at = "after" => journal' # <<>> /\ Last' = Turn'.kind)
            /\ (Turn'.at = "consumed" => journal' # <<>> /\ Last' = "pause")
    BY <1>h, <1>i, <1>x, <1>who, <1>wj, <1>wa, <1>wi, <1>wh, <1>wn, <1>f
       DEF Papers, NoSave, ControlsStand
  <2> QED BY <2>1, <2>2, <2>3, <1>f DEF ControlsStand
<1>n. CountsStand'
  <2>1. Unsaved' /\ save'.type = "attempt" => save'.next.attempts = Spent' + 1
    BY <1>h, <1>i, <1>x, <1>who, <1>wj, <1>wa, <1>wi, <1>wh, <1>wn, ContinuityAssumption
       DEF Papers, NoSave, CountsStand, InStep, Unsaved, Terminal, Resumable
  <2>2. save'.at = "written" /\ save'.type = "attempt" => save'.next.attempts = Spent'
    BY <1>h, <1>i, <1>x, <1>who, <1>wj, <1>wa, <1>wi, <1>wh, <1>wn, ContinuityAssumption
       DEF Papers, NoSave, CountsStand, InStep, Unsaved, Terminal, Resumable
  <2>3. InStep' => save'.at # "failed" /\ (save'.at # "none" => save'.epoch = core'.epoch)
    BY <1>h, <1>i, <1>x, <1>who, <1>wj, <1>wa, <1>wi, <1>wh, <1>wn, ContinuityAssumption
       DEF Papers, NoSave, CountsStand, InStep, Unsaved, Terminal, Resumable
  <2>4. InStep' => (save'.at = "written" => Spent' = save'.next.attempts)
    BY <1>h, <1>i, <1>x, <1>who, <1>wj, <1>wa, <1>wi, <1>wh, <1>wn, ContinuityAssumption
       DEF Papers, NoSave, CountsStand, InStep, Unsaved, Terminal, Resumable
  <2>5. InStep' => (save'.at # "written" => state'.revision = Len(journal') /\
          Spent' = state'.attempts)
    BY <1>h, <1>i, <1>x, <1>who, <1>wj, <1>wa, <1>wi, <1>wh, <1>wn, ContinuityAssumption
       DEF Papers, NoSave, CountsStand, InStep, Unsaved, Terminal, Resumable
  <2>6. state'.phase \in Terminal =>
            state'.revision = Len(journal') /\ save'.at \notin {"asked", "appending", "written"}
    BY <1>h, <1>i, <1>x, <1>who, <1>wj, <1>wa, <1>wi, <1>wh, <1>wn, ContinuityAssumption
       DEF Papers, NoSave, CountsStand, InStep, Unsaved, Terminal, Resumable
  <2> QED BY <2>1, <2>2, <2>3, <2>4, <2>5, <2>6 DEF CountsStand
<1>p. PausesStand'
  <2>1. OpenPause' =>
            \/ mode' \in {"paused", "resuming", "blocked", "stopped"}
            \/ mode' = "pausing" /\ controls' # <<>> /\ Turn'.kind = "pause" /\
                 Turn'.at \in {"saving", "after"}
    BY <1>h, <1>i, <1>x, <1>who, <1>wj, <1>wa, <1>wi, <1>wh, <1>wn
       DEF Papers, NoSave, PausesStand, Unsaved, Resumable
  <2>2. Unsaved' /\ save'.type = "pause" => ~OpenPause'
    BY <1>h, <1>i, <1>x, <1>who, <1>wj, <1>wa, <1>wi, <1>wh, <1>wn
       DEF Papers, NoSave, PausesStand, Unsaved, Resumable
  <2>3. Unsaved' /\ save'.type = "resume" => journal' # <<>> /\ Last' = "pause"
    BY <1>h, <1>i, <1>x, <1>who, <1>wj, <1>wa, <1>wi, <1>wh, <1>wn
       DEF Papers, NoSave, PausesStand, Unsaved, Resumable
  <2>4. journal' # <<>> /\ Last' = "resume" =>
            /\ state'.phase \in Resumable
            /\ (Unsaved' => save'.type \in {"attempt", "pause", "STOPPED"})
    BY <1>h, <1>i, <1>x, <1>who, <1>wj, <1>wa, <1>wi, <1>wh, <1>wn
       DEF Papers, NoSave, PausesStand, Unsaved, Resumable
  <2> QED BY <2>1, <2>2, <2>3, <2>4 DEF PausesStand
<1>e. EndStands'
  <2>1. save'.at # "none" /\ save'.type # "STOPPED" => ~OnDisk("STOPPED")'
    BY <1>h, <1>i, <1>x, <1>who, <1>wj, <1>wa, <1>wi, <1>wh, <1>wn
       DEF Papers, NoSave, EndStands, Terminal
  <2>2. OnDisk("STOPPED")' /\ state'.phase # "STOPPED" =>
            \/ save'.at = "written" \/ stopping'.failed
            \/ ~core'.stopped /\ state'.phase \notin Terminal /\ state'.revision # Len(journal')
    BY <1>h, <1>i, <1>x, <1>who, <1>wj, <1>wa, <1>wi, <1>wh, <1>wn
       DEF Papers, NoSave, EndStands, Terminal
  <2> QED BY <2>1, <2>2 DEF EndStands
<1>y. JobStands'
  <2>1. Unsaved' /\ save'.type = "accepted" => ~OnDisk("accepted")' /\ ~OnDisk("finalized")'
    BY <1>h, <1>i, <1>x, <1>who, <1>wj, <1>wa, <1>wi, <1>wh, <1>wn
       DEF Papers, NoSave, JobStands, Unsaved
  <2>2. Unsaved' /\ save'.type = "finalized" => ~OnDisk("finalized")'
    BY <1>h, <1>i, <1>x, <1>who, <1>wj, <1>wa, <1>wi, <1>wh, <1>wn
       DEF Papers, NoSave, JobStands, Unsaved
  <2>3. Unsaved' /\ save'.type = "reserved" => journal' # <<>> /\ Last' = "finalized"
    BY <1>h, <1>i, <1>x, <1>who, <1>wj, <1>wa, <1>wi, <1>wh, <1>wn
       DEF Papers, NoSave, JobStands, Unsaved
  <2>4. Unsaved' /\ save'.type = "completed" => OnDisk("reserved")' /\ ~OnDisk("completed")'
    BY <1>h, <1>i, <1>x, <1>who, <1>wj, <1>wa, <1>wi, <1>wh, <1>wn
       DEF Papers, NoSave, JobStands, Unsaved
  <2>5. phase' = "none" => output' = "absent" /\ copy' = "none" /\ ~OnDisk("reserved")' /\
          ~OnDisk("completed")'
    BY <1>h, <1>i, <1>x, <1>who, <1>wj, <1>wa, <1>wi, <1>wh, <1>wn
       DEF Papers, NoSave, JobStands, Unsaved
  <2>6. job'.at \notin {"none", "asked"} =>
            IF job'.kind = "export" THEN phase' = "reserved" /\ consumed' ELSE phase' = "none"
    BY <1>h, <1>i, <1>x, <1>who, <1>wj, <1>wa, <1>wi, <1>wh, <1>wn
       DEF Papers, NoSave, JobStands, Unsaved
  <2>7. job'.at \in {"copying", "copied", "completing", "rereading", "marking", "marked"} =>
            job'.kind = "export" /\ OnDisk("reserved")'
    BY <1>h, <1>i, <1>x, <1>who, <1>wj, <1>wa, <1>wi, <1>wh, <1>wn
       DEF Papers, NoSave, JobStands, Unsaved
  <2>8. job'.kind = "export" /\ job'.at = "reading" => OnDisk("reserved")'
    BY <1>h, <1>i, <1>x, <1>who, <1>wj, <1>wa, <1>wi, <1>wh, <1>wn
       DEF Papers, NoSave, JobStands, Unsaved
  <2>9. job'.at \in {"copied", "completing"} => output' = "payload"
    BY <1>h, <1>i, <1>x, <1>who, <1>wj, <1>wa, <1>wi, <1>wh, <1>wn
       DEF Papers, NoSave, JobStands, Unsaved
  <2>10. job'.at \in {"rereading", "marking"} => OnDisk("completed")'
    BY <1>h, <1>i, <1>x, <1>who, <1>wj, <1>wa, <1>wi, <1>wh, <1>wn
       DEF Papers, NoSave, JobStands, Unsaved
  <2>11. job'.at = "marked" => output' = "marked"
    BY <1>h, <1>i, <1>x, <1>who, <1>wj, <1>wa, <1>wi, <1>wh, <1>wn
       DEF Papers, NoSave, JobStands, Unsaved
  <2>12. phase' = "uncertain" => store'.revoked /\ job' = NoJob /\ save'.at = "none"
    BY <1>h, <1>i, <1>x, <1>who, <1>wj, <1>wa, <1>wi, <1>wh, <1>wn
       DEF Papers, NoSave, JobStands, Unsaved
  <2>13. copy' # "none" => state'.phase \in {"DIAGNOSTIC_READY", "STOPPED"}
    BY <1>h, <1>i, <1>x, <1>who, <1>wj, <1>wa, <1>wi, <1>wh, <1>wn
       DEF Papers, NoSave, JobStands, Unsaved
  <2>14. state'.phase = "DIAGNOSTIC_READY" => journal' # <<>>
    BY <1>h, <1>i, <1>x, <1>who, <1>wj, <1>wa, <1>wi, <1>wh, <1>wn
       DEF Papers, NoSave, JobStands, Unsaved
  <2> QED BY <2>1, <2>2, <2>3, <2>4, <2>5, <2>6, <2>7, <2>8, <2>9, <2>10, <2>11, <2>12, <2>13, <2>14
             DEF JobStands
<1>a. DeliveryIsEarned'
  BY <1>h, <1>i, <1>x, <1>who, <1>wj, <1>wa, <1>wi, <1>wh, <1>wn, <1>y, <1>f, SMTT(30)
     DEF Papers, NoSave, TypeOK, DeliveryIsEarned, DeliveryTypeOK, JobStands, SavesStand, Waits,
         WhatIsSaved, Recorded, Unsaved, Commits, ModesStand, DestinationHolds, Inspected,
         OutputHolds
<1> QED BY <1>f, <1>t, <1>d, <1>b, <1>r, <1>s, <1>g, <1>m, <1>k, <1>n, <1>p, <1>e, <1>y, <1>a

(* A record is refused only by a store that is lost, so that nothing is out of step. *)
LEMMA StoreRefusesStands ==
  ASSUME Inv, StoreRefuses, UNCHANGED deliveryVars
  PROVE  Inv'
<1> USE DEF Inv, DeliveryStands, SameOnDisk, deliveryVars, Owned, SameQueues
<1>j. SameOnDisk
  BY JournalStays DEF StoreRefuses, IsNext, owner, stages
<1>h. SameQueues /\ (\A who : Waits(who)' <=> Waits(who))
  BY DEF Op, Turn, Waits, Tracked, StageUnderWay, StoreRefuses, IsNext, owner, stages
<1>i. StageUnderWay => ops # <<>> /\ Tracked # {} /\ ~Idle
  BY UnderWay
<1>w. TypeOK /\ DeliveryTypeOK
  BY DEF DeliveryIsEarned
<1>x. /\ save.at = "appending" /\ save.at # "none" /\ save \in Commits /\ save' \in Commits /\
           save'.for = save.for /\ save'.type = save.type
      /\ save'.epoch = save.epoch /\ save'.next = save.next
      /\ save'.at \in {"failed"}
      /\ (Owned => ~IsNext /\ store' = store) /\ (Owned' => Owned)
      /\ store' \in Stores /\ store'.revoked = store.revoked /\ store'.closed = store.closed
      /\ UNCHANGED <<mode, permitted, checkpoint, controls, stopping, qualifying, core, ops, actor,
           author, space, custody, state, journal, faults>> /\ UNCHANGED deliveryVars
  <2>1. save.at = "appending" /\ save' = [save EXCEPT !.at = "failed"]
    BY DEF StoreRefuses
  <2>2. UNCHANGED <<mode, permitted, checkpoint, controls, stopping, qualifying, core, ops, actor,
          author, space, custody, state, journal, faults>> /\ UNCHANGED deliveryVars
    BY DEF StoreRefuses, owner, stages
  <2>3. /\ (Owned => ~IsNext /\ store' = store) /\ store' \in Stores
        /\ store'.revoked = store.revoked /\ store'.closed = store.closed /\ (Owned' => Owned)
    BY <1>w DEF StoreRefuses, TypeOK, Stores
  <2> QED BY <1>w, <2>1, <2>2, <2>3, SaveGoes
<1>who. /\ save.for \in {"op", "control", "stop", "delivery"}
        /\ save.for = "op" =>
             /\ ops # <<>> /\ Op = ops[1] /\ 1 \in DOMAIN ops /\ Op \in Stages
             /\ Op.at \in {"saving", "concluding"} /\ StageUnderWay /\ job = NoJob
             /\ stopping.at \in {"no", "called", "stages"} /\ ~core.stopped /\ copy = "none"
             /\ mode \in {"active", "stopped"} /\ (controls # <<>> => Turn.at = "queued")
        /\ save.for = "control" =>
             /\ controls # <<>> /\ Turn = controls[1] /\ 1 \in DOMAIN controls /\ Turn \in Turns
             /\ Turn.at = "saving" /\ ops = <<>> /\ job = NoJob /\ stopping.at # "saving"
             /\ mode \in {"stopped", "pausing", "resuming"}
        /\ save.for = "stop" =>
             /\ stopping.at = "saving" /\ mode = "stopped" /\ ~StageUnderWay /\ job = NoJob
             /\ ~core.stopped /\ (controls # <<>> => Turn.at # "saving")
        /\ save.for = "delivery" =>
             /\ job.at \in {"saving", "completing"} /\ job # NoJob /\ ops = <<>>
             /\ stopping.at \in {"no", "called"} /\ mode \in {"active", "stopped"}
             /\ (controls # <<>> => Turn.at = "queued") /\ state.phase = "DIAGNOSTIC_READY"
  BY <1>x, WhoWaits
<1>wh. /\ save.type = "STOPPED" => save.for \in {"op", "stop"} /\ save.next.phase = "STOPPED"
       /\ save.for = "control" => save.type \in {"pause", "resume"} /\ save.next.phase = state.phase
       /\ save.for = "delivery" => save.type \in Papers /\ save.next.phase = state.phase
       /\ save.at \notin {"none", "ok"} => save.next.revision = state.revision + 1
       /\ save.at \in {"written", "ok"} => save.next.revision = Len(journal)
  BY <1>x, WhatTheySave
<1>f. DeliveryTypeOK' /\ ResumedOnce' /\ QueueStands' /\ TurnsStand' /\ ControlsStand' /\
        DeliveryIsEarned'
  BY Frames, <1>x, <1>who, <1>wh DEF StoreRefuses, IsNext, owner, stages
<1>t. TypeOK'
  <2>save. save' \in Commits \cup {NoSave}
    BY <1>w, <1>x, <1>who, <1>wh, ContinuityAssumption
       DEF IsNext, NoSave, TypeOK, Commits, States, Phases, Types, Papers, Terminal, Resumable,
           Cores
  <2>store. store' \in Stores
    BY <1>w, <1>x, <1>who, <1>wh DEF StoreRefuses, IsNext, owner, stages, TypeOK, Stores
  <2> QED BY <1>w, <1>x, <1>who, <1>wh, <2>save, <2>store DEF IsNext, TypeOK
<1>d. PausedIsDrained'
  BY <1>j, <1>h, <1>i, <1>x, <1>who, <1>wh DEF IsNext, NoSave, PausedIsDrained
<1>b. BudgetKept'
  BY <1>j, <1>h, <1>i, <1>x, <1>who, <1>wh, ContinuityAssumption DEF IsNext, NoSave, BudgetKept
<1>s. SavesStand'
  <2>1. \A who \in {"op", "control", "stop", "delivery"} : Waits(who)' <=> save'.at # "none" /\
          save'.for = who
    BY <1>j, <1>h, <1>i, <1>x, <1>who, <1>wh
       DEF IsNext, NoSave, SavesStand, Waits, WhatIsSaved, Begun, Concluded, Recorded
  <2>2. save'.at # "none" => WhatIsSaved'
    BY <1>j, <1>h, <1>i, <1>x, <1>who, <1>wh
       DEF IsNext, NoSave, SavesStand, Waits, WhatIsSaved, Begun, Concluded, Recorded
  <2>3. save'.at # "none" => save'.epoch <= core'.epoch /\ (save'.epoch = core'.epoch /\
          save'.for \in {"op", "delivery"} => mode' = "active")
    BY <1>j, <1>h, <1>i, <1>x, <1>who, <1>wh
       DEF IsNext, NoSave, SavesStand, Waits, WhatIsSaved, Begun, Concluded, Recorded
  <2>4. save'.at \in {"written", "ok"} => journal' # <<>> /\ Len(journal') = save'.next.revision /\
          Last' = save'.type
    BY <1>j, <1>h, <1>i, <1>x, <1>who, <1>wh
       DEF IsNext, NoSave, SavesStand, Waits, WhatIsSaved, Begun, Concluded, Recorded
  <2>5. save'.at = "ok" => state' = save'.next
    BY <1>j, <1>h, <1>i, <1>x, <1>who, <1>wh
       DEF IsNext, NoSave, SavesStand, Waits, WhatIsSaved, Begun, Concluded, Recorded
  <2>6. save'.at \notin {"none", "ok"} =>
            /\ save'.next.revision = state'.revision + 1
            /\ save'.next.attempts = state'.attempts + (IF save'.type = "attempt" THEN 1 ELSE 0)
    BY <1>j, <1>h, <1>i, <1>x, <1>who, <1>wh
       DEF IsNext, NoSave, SavesStand, Waits, WhatIsSaved, Begun, Concluded, Recorded
  <2> QED BY <2>1, <2>2, <2>3, <2>4, <2>5, <2>6 DEF SavesStand
<1>g. StagesStand'
  BY <1>j, <1>h, <1>i, <1>x, <1>who, <1>wh, <1>f
     DEF IsNext, NoSave, StagesStand, StageUnderWay, Resumable
<1>m. ModesStand'
  BY <1>j, <1>h, <1>i, <1>x, <1>who, <1>wh DEF IsNext, NoSave, ModesStand, AtRest, Resumable
<1>n. CountsStand'
  <2>1. Unsaved' /\ save'.type = "attempt" => save'.next.attempts = Spent' + 1
    BY <1>j, <1>h, <1>i, <1>x, <1>who, <1>wh, ContinuityAssumption
       DEF IsNext, NoSave, CountsStand, InStep, Unsaved, Terminal, Resumable
  <2>2. save'.at = "written" /\ save'.type = "attempt" => save'.next.attempts = Spent'
    BY <1>j, <1>h, <1>i, <1>x, <1>who, <1>wh, ContinuityAssumption
       DEF IsNext, NoSave, CountsStand, InStep, Unsaved, Terminal, Resumable
  <2>3. InStep' => save'.at # "failed" /\ (save'.at # "none" => save'.epoch = core'.epoch)
    BY <1>j, <1>h, <1>i, <1>x, <1>who, <1>wh, ContinuityAssumption
       DEF IsNext, NoSave, CountsStand, InStep, Unsaved, Terminal, Resumable
  <2>4. InStep' => (save'.at = "written" => Spent' = save'.next.attempts)
    BY <1>j, <1>h, <1>i, <1>x, <1>who, <1>wh, ContinuityAssumption
       DEF IsNext, NoSave, CountsStand, InStep, Unsaved, Terminal, Resumable
  <2>5. InStep' => (save'.at # "written" => state'.revision = Len(journal') /\
          Spent' = state'.attempts)
    BY <1>j, <1>h, <1>i, <1>x, <1>who, <1>wh, ContinuityAssumption
       DEF IsNext, NoSave, CountsStand, InStep, Unsaved, Terminal, Resumable
  <2>6. state'.phase \in Terminal =>
            state'.revision = Len(journal') /\ save'.at \notin {"asked", "appending", "written"}
    BY <1>j, <1>h, <1>i, <1>x, <1>who, <1>wh, ContinuityAssumption
       DEF IsNext, NoSave, CountsStand, InStep, Unsaved, Terminal, Resumable
  <2> QED BY <2>1, <2>2, <2>3, <2>4, <2>5, <2>6 DEF CountsStand
<1>p. PausesStand'
  BY <1>j, <1>h, <1>i, <1>x, <1>who, <1>wh DEF IsNext, NoSave, PausesStand, Unsaved, Resumable
<1>e. EndStands'
  BY <1>j, <1>h, <1>i, <1>x, <1>who, <1>wh DEF IsNext, NoSave, EndStands, Terminal
<1>y. JobStands'
  BY <1>j, <1>h, <1>i, <1>x, <1>who, <1>wh DEF IsNext, NoSave, JobStands, Unsaved
<1> QED BY <1>f, <1>t, <1>d, <1>b, <1>s, <1>g, <1>m, <1>n, <1>p, <1>e, <1>y

(* A record that is answered is the one on disk, and the controller knows it. *)
LEMMA StoreAnswersStands ==
  ASSUME Inv, StoreAnswers, UNCHANGED deliveryVars
  PROVE  Inv'
<1> USE DEF Inv, DeliveryStands, SameOnDisk, deliveryVars, Owned, SameQueues
<1>j. SameOnDisk
  BY JournalStays DEF StoreAnswers, owner, stages
<1>h. SameQueues /\ (\A who : Waits(who)' <=> Waits(who))
  BY DEF Op, Turn, Waits, Tracked, StageUnderWay, StoreAnswers, owner, stages
<1>i. StageUnderWay => ops # <<>> /\ Tracked # {} /\ ~Idle
  BY UnderWay
<1>w. TypeOK /\ DeliveryTypeOK
  BY DEF DeliveryIsEarned
<1>x. /\ save.at = "written" /\ save.at # "none" /\ save \in Commits /\ save' \in Commits /\
           save'.for = save.for /\ save'.type = save.type
      /\ save'.epoch = save.epoch /\ save'.next = save.next
      /\ save'.at \in {"ok", "failed"}
      /\ (save'.at = "ok" => Live(save.epoch) /\ state' = save.next /\ store' = store)
      /\ (save'.at = "failed" => ~Live(save.epoch) /\ state' = state)
      /\ save.next \in States /\ store' \in Stores /\ store'.revoked = store.revoked /\
           store'.closed = store.closed
      /\ (~Owned => ~Owned')
      /\ UNCHANGED <<mode, permitted, checkpoint, controls, stopping, qualifying, core, ops, actor,
           author, space, custody, journal, faults>> /\ UNCHANGED deliveryVars
  <2> DEFINE l == IF Live(save.epoch) THEN "ok" ELSE "failed"
  <2>1. save.at = "written" /\ save' = [save EXCEPT !.at = l] /\ l \in {"appending", "written",
          "ok", "failed"}
    BY DEF StoreAnswers
  <2>2. UNCHANGED <<mode, permitted, checkpoint, controls, stopping, qualifying, core, ops, actor,
          author, space, custody, journal, faults>> /\ UNCHANGED deliveryVars
    BY DEF StoreAnswers, owner, stages
  <2>3. /\ (Owned => store' = store) /\ store' \in Stores
        /\ store'.revoked = store.revoked /\ store'.closed = store.closed /\ (~Owned => ~Owned')
    BY <1>w DEF StoreAnswers, TypeOK, Stores
  <2>4. IF Live(save.epoch) THEN Owned /\ state' = save.next ELSE state' = state
    BY DEF StoreAnswers, Live
  <2> QED BY <1>w, <2>1, <2>2, <2>3, <2>4, SaveGoes
<1>who. /\ save.for \in {"op", "control", "stop", "delivery"}
        /\ save.for = "op" =>
             /\ ops # <<>> /\ Op = ops[1] /\ 1 \in DOMAIN ops /\ Op \in Stages
             /\ Op.at \in {"saving", "concluding"} /\ StageUnderWay /\ job = NoJob
             /\ stopping.at \in {"no", "called", "stages"} /\ ~core.stopped /\ copy = "none"
             /\ mode \in {"active", "stopped"} /\ (controls # <<>> => Turn.at = "queued")
        /\ save.for = "control" =>
             /\ controls # <<>> /\ Turn = controls[1] /\ 1 \in DOMAIN controls /\ Turn \in Turns
             /\ Turn.at = "saving" /\ ops = <<>> /\ job = NoJob /\ stopping.at # "saving"
             /\ mode \in {"stopped", "pausing", "resuming"}
        /\ save.for = "stop" =>
             /\ stopping.at = "saving" /\ mode = "stopped" /\ ~StageUnderWay /\ job = NoJob
             /\ ~core.stopped /\ (controls # <<>> => Turn.at # "saving")
        /\ save.for = "delivery" =>
             /\ job.at \in {"saving", "completing"} /\ job # NoJob /\ ops = <<>>
             /\ stopping.at \in {"no", "called"} /\ mode \in {"active", "stopped"}
             /\ (controls # <<>> => Turn.at = "queued") /\ state.phase = "DIAGNOSTIC_READY"
  BY <1>x, WhoWaits
<1>wh. /\ save.type = "STOPPED" => save.for \in {"op", "stop"} /\ save.next.phase = "STOPPED"
       /\ save.for = "control" => save.type \in {"pause", "resume"} /\ save.next.phase = state.phase
       /\ save.for = "delivery" => save.type \in Papers /\ save.next.phase = state.phase
       /\ save.at \notin {"none", "ok"} => save.next.revision = state.revision + 1
       /\ save.at \in {"written", "ok"} => save.next.revision = Len(journal)
  BY <1>x, WhatTheySave
<1>f. DeliveryTypeOK' /\ ResumedOnce' /\ QueueStands' /\ TurnsStand' /\ ControlsStand' /\
        DeliveryIsEarned'
  BY Frames, <1>x, <1>who, <1>wh DEF StoreAnswers, owner, stages
<1>t. TypeOK'
  <2>save. save' \in Commits \cup {NoSave}
    BY <1>w, <1>x, <1>who, <1>wh, ContinuityAssumption
       DEF Live, TypeOK, NoSave, Commits, States, Phases, Types, Papers, Terminal, Resumable, Cores
  <2>store. store' \in Stores
    BY <1>w, <1>x, <1>who, <1>wh DEF StoreAnswers, owner, stages, TypeOK, Stores
  <2>state. state' \in States
    BY <1>w, <1>x, <1>who, <1>wh, ContinuityAssumption DEF Live, TypeOK, Commits, States, SavesStand
  <2>rev. state'.revision <= Len(journal')
    BY <1>w, <1>x, <1>who, <1>wh DEF Live, TypeOK, SavesStand, Commits, States
  <2> QED BY <1>w, <1>x, <1>who, <1>wh, <2>save, <2>store, <2>state, <2>rev DEF Live, TypeOK
<1>d. PausedIsDrained'
  BY <1>j, <1>h, <1>i, <1>x, <1>who, <1>wh DEF Live, PausedIsDrained
<1>b. BudgetKept'
  BY <1>j, <1>h, <1>i, <1>x, <1>who, <1>wh, ContinuityAssumption
     DEF Live, BudgetKept, TypeOK, CountsStand, InStep, SavesStand, ModesStand, Commits, States,
         Stores
<1>s. SavesStand'
  BY <1>j, <1>h, <1>i, <1>x, <1>who, <1>wh
     DEF Live, SavesStand, Waits, WhatIsSaved, Begun, Concluded, Recorded
<1>g. StagesStand'
  BY <1>j, <1>h, <1>i, <1>x, <1>who, <1>wh, <1>f DEF Live, StagesStand, StageUnderWay, Resumable
<1>m. ModesStand'
  <2>1. stopping'.at # "no" <=> mode' = "stopped"
    BY <1>j, <1>h, <1>i, <1>x, <1>who, <1>wh DEF Live, ModesStand, AtRest, Resumable
  <2>2. core'.closing # "no" \/ store'.revoked \/ mode' = "blocked" => core'.stopped
    BY <1>j, <1>h, <1>i, <1>x, <1>who, <1>wh DEF Live, ModesStand, AtRest, Resumable
  <2>3. core'.stopped => store'.revoked \/ mode' = "stopped"
    BY <1>j, <1>h, <1>i, <1>x, <1>who, <1>wh DEF Live, ModesStand, AtRest, Resumable
  <2>4. core'.closing = "closed" => store'.closed
    BY <1>j, <1>h, <1>i, <1>x, <1>who, <1>wh DEF Live, ModesStand, AtRest, Resumable
  <2>5. core'.closing \in {"closed", "failed"} => save'.at = "none"
    BY <1>j, <1>h, <1>i, <1>x, <1>who, <1>wh DEF Live, ModesStand, AtRest, Resumable
  <2>6. mode' \in AtRest \cup {"blocked"} =>
            ops' = <<>> /\ actor' = "none" /\ ~author' /\ job' = NoJob /\ ~OnDisk("STOPPED")'
    BY <1>j, <1>h, <1>i, <1>x, <1>who, <1>wh DEF Live, ModesStand, AtRest, Resumable
  <2>7. mode' \in AtRest => ~core'.stopped /\ core'.denied /\ state'.phase \in Resumable
    BY <1>j, <1>h, <1>i, <1>x, <1>who, <1>wh DEF Live, ModesStand, AtRest, Resumable
  <2>8. qualifying' <=> job' # NoJob
    BY <1>j, <1>h, <1>i, <1>x, <1>who, <1>wh DEF Live, ModesStand, AtRest, Resumable
  <2>9. job' # NoJob =>
            /\ ops' = <<>> /\ mode' \in {"active", "stopped"} /\ stopping'.at \in {"no", "called"}
            /\ ~OnDisk("STOPPED")' /\ state'.phase = "DIAGNOSTIC_READY"
    BY <1>j, <1>h, <1>i, <1>x, <1>who, <1>wh DEF Live, ModesStand, AtRest, Resumable
  <2>10. stopping'.at = "controls" => ops' = <<>>
    BY <1>j, <1>h, <1>i, <1>x, <1>who, <1>wh DEF Live, ModesStand, AtRest, Resumable
  <2>11. stopping'.at \in {"closing", "saving"} => Tracked' = {}
    BY <1>j, <1>h, <1>i, <1>x, <1>who, <1>wh DEF Live, ModesStand, AtRest, Resumable
  <2>12. stopping'.at = "saving" => ~core'.stopped
    BY <1>j, <1>h, <1>i, <1>x, <1>who, <1>wh DEF Live, ModesStand, AtRest, Resumable
  <2>13. stopping'.at = "stopped" => ~stopping'.failed /\ core'.closing = "closed"
    BY <1>j, <1>h, <1>i, <1>x, <1>who, <1>wh DEF Live, ModesStand, AtRest, Resumable
  <2>14. stopping'.failed => stopping'.at \in {"core", "failed"}
    BY <1>j, <1>h, <1>i, <1>x, <1>who, <1>wh DEF Live, ModesStand, AtRest, Resumable
  <2> QED BY <2>1, <2>2, <2>3, <2>4, <2>5, <2>6, <2>7, <2>8, <2>9, <2>10, <2>11, <2>12, <2>13, <2>14
             DEF ModesStand
<1>n. CountsStand'
  <2>1. Unsaved' /\ save'.type = "attempt" => save'.next.attempts = Spent' + 1
    BY <1>j, <1>h, <1>i, <1>x, <1>who, <1>wh, ContinuityAssumption
       DEF Live, CountsStand, InStep, Unsaved, Terminal, Resumable
  <2>2. save'.at = "written" /\ save'.type = "attempt" => save'.next.attempts = Spent'
    BY <1>j, <1>h, <1>i, <1>x, <1>who, <1>wh, ContinuityAssumption
       DEF Live, CountsStand, InStep, Unsaved, Terminal, Resumable
  <2>3. InStep' => save'.at # "failed" /\ (save'.at # "none" => save'.epoch = core'.epoch)
    BY <1>j, <1>h, <1>i, <1>x, <1>who, <1>wh, ContinuityAssumption
       DEF Live, CountsStand, InStep, Unsaved, Terminal, Resumable
  <2>4. InStep' => (save'.at = "written" => Spent' = save'.next.attempts)
    BY <1>j, <1>h, <1>i, <1>x, <1>who, <1>wh, ContinuityAssumption
       DEF Live, CountsStand, InStep, Unsaved, Terminal, Resumable
  <2>5. InStep' => (save'.at # "written" => state'.revision = Len(journal') /\
          Spent' = state'.attempts)
    BY <1>j, <1>h, <1>i, <1>x, <1>who, <1>wh, ContinuityAssumption
       DEF Live, CountsStand, InStep, Unsaved, Terminal, Resumable
  <2>6. state'.phase \in Terminal =>
            state'.revision = Len(journal') /\ save'.at \notin {"asked", "appending", "written"}
    BY <1>j, <1>h, <1>i, <1>x, <1>who, <1>wh, ContinuityAssumption
       DEF Live, CountsStand, InStep, Unsaved, Terminal, Resumable
  <2> QED BY <2>1, <2>2, <2>3, <2>4, <2>5, <2>6 DEF CountsStand
<1>p. PausesStand'
  <2>1. OpenPause' =>
            \/ mode' \in {"paused", "resuming", "blocked", "stopped"}
            \/ mode' = "pausing" /\ controls' # <<>> /\ Turn'.kind = "pause" /\
                 Turn'.at \in {"saving", "after"}
    BY <1>j, <1>h, <1>i, <1>x, <1>who, <1>wh
       DEF Live, TypeOK, PausesStand, ModesStand, ControlsStand, AtRest, StagesStand, StageUnderWay,
           SavesStand, WhatIsSaved, Begun, Concluded, Recorded, Waits, Unsaved, Commits, States,
           Turns, Stages, Stores
  <2>2. Unsaved' /\ save'.type = "pause" => ~OpenPause'
    BY <1>j, <1>h, <1>i, <1>x, <1>who, <1>wh
       DEF Live, TypeOK, PausesStand, ModesStand, ControlsStand, AtRest, StagesStand, StageUnderWay,
           SavesStand, WhatIsSaved, Begun, Concluded, Recorded, Waits, Unsaved, Commits, States,
           Turns, Stages, Stores
  <2>3. Unsaved' /\ save'.type = "resume" => journal' # <<>> /\ Last' = "pause"
    BY <1>j, <1>h, <1>i, <1>x, <1>who, <1>wh
       DEF Live, TypeOK, PausesStand, ModesStand, ControlsStand, AtRest, StagesStand, StageUnderWay,
           SavesStand, WhatIsSaved, Begun, Concluded, Recorded, Waits, Unsaved, Commits, States,
           Turns, Stages, Stores
  <2>4. journal' # <<>> /\ Last' = "resume" =>
            /\ state'.phase \in Resumable
            /\ (Unsaved' => save'.type \in {"attempt", "pause", "STOPPED"})
    BY <1>j, <1>h, <1>i, <1>x, <1>who, <1>wh, SMTT(30)
       DEF Live, TypeOK, PausesStand, ModesStand, ControlsStand, AtRest, StagesStand, StageUnderWay,
           SavesStand, WhatIsSaved, Begun, Concluded, Recorded, Waits, Unsaved, Commits, States,
           Turns, Stages, Stores
  <2> QED BY <2>1, <2>2, <2>3, <2>4 DEF PausesStand
<1>e. EndStands'
  <2>1. save'.at # "none" /\ save'.type # "STOPPED" => ~OnDisk("STOPPED")'
    BY <1>j, <1>h, <1>i, <1>x, <1>who, <1>wh
       DEF Live, TypeOK, EndStands, CountsStand, InStep, ModesStand, AtRest, StagesStand,
           StageUnderWay, SavesStand, Waits, WhatIsSaved, Begun, Concluded, Recorded, Unsaved,
           Commits, States, Stages, Stores
  <2>2. OnDisk("STOPPED")' /\ state'.phase # "STOPPED" =>
            \/ save'.at = "written" \/ stopping'.failed
            \/ ~core'.stopped /\ state'.phase \notin Terminal /\ state'.revision # Len(journal')
    BY <1>j, <1>h, <1>i, <1>x, <1>who, <1>wh
       DEF Live, TypeOK, EndStands, CountsStand, InStep, ModesStand, AtRest, StagesStand,
           StageUnderWay, SavesStand, Waits, WhatIsSaved, Begun, Concluded, Recorded, Unsaved,
           Commits, States, Stages, Stores
  <2> QED BY <2>1, <2>2 DEF EndStands
<1>y. JobStands'
  BY <1>j, <1>h, <1>i, <1>x, <1>who, <1>wh
     DEF Live, TypeOK, DeliveryIsEarned, DeliveryTypeOK, JobStands, SavesStand, Waits, WhatIsSaved,
         Begun, Concluded, Recorded, Unsaved, ModesStand, Commits, Kinds, InOrder, Stores
<1> QED BY <1>f, <1>t, <1>d, <1>b, <1>s, <1>g, <1>m, <1>n, <1>p, <1>e, <1>y

(* A write that fails poisons the store, so that nothing is said to be in step. *)
LEMMA StoreFailsStands ==
  ASSUME Inv, StoreFails, UNCHANGED deliveryVars
  PROVE  Inv'
<1> USE DEF Inv, DeliveryStands, SameOnDisk, deliveryVars, Owned, SameQueues
<1>j. SameOnDisk
  BY JournalStays DEF StoreFails, owner, stages
<1>h. SameQueues /\ (\A who : Waits(who)' <=> Waits(who))
  BY DEF Op, Turn, Waits, Tracked, StageUnderWay, StoreFails, owner, stages
<1>i. StageUnderWay => ops # <<>> /\ Tracked # {} /\ ~Idle
  BY UnderWay
<1>w. TypeOK /\ DeliveryTypeOK
  BY DEF DeliveryIsEarned
<1>x. /\ save.at \in {"appending", "written"} /\ save.at # "none" /\ save \in Commits /\
           save' \in Commits /\ save'.for = save.for /\ save'.type = save.type
      /\ save'.epoch = save.epoch /\ save'.next = save.next
      /\ save'.at \in {"failed"}
      /\ store' \in Stores /\ store'.poisoned /\ store'.revoked = store.revoked /\
           store'.closed = store.closed
      /\ UNCHANGED <<mode, permitted, checkpoint, controls, stopping, qualifying, core, ops, actor,
           author, space, custody, state, journal>> /\ UNCHANGED deliveryVars
  <2>1. save.at \in {"appending", "written"} /\ save' = [save EXCEPT !.at = "failed"]
    BY DEF StoreFails
  <2>2. UNCHANGED <<mode, permitted, checkpoint, controls, stopping, qualifying, core, ops, actor,
          author, space, custody, state, journal>> /\ UNCHANGED deliveryVars
    BY DEF StoreFails, owner, stages
  <2>3. store' \in Stores /\ store'.poisoned /\ store'.revoked = store.revoked /\
          store'.closed = store.closed
    BY <1>w DEF StoreFails, TypeOK, Stores
  <2> QED BY <1>w, <2>1, <2>2, <2>3, SaveGoes
<1>who. /\ save.for \in {"op", "control", "stop", "delivery"}
        /\ save.for = "op" =>
             /\ ops # <<>> /\ Op = ops[1] /\ 1 \in DOMAIN ops /\ Op \in Stages
             /\ Op.at \in {"saving", "concluding"} /\ StageUnderWay /\ job = NoJob
             /\ stopping.at \in {"no", "called", "stages"} /\ ~core.stopped /\ copy = "none"
             /\ mode \in {"active", "stopped"} /\ (controls # <<>> => Turn.at = "queued")
        /\ save.for = "control" =>
             /\ controls # <<>> /\ Turn = controls[1] /\ 1 \in DOMAIN controls /\ Turn \in Turns
             /\ Turn.at = "saving" /\ ops = <<>> /\ job = NoJob /\ stopping.at # "saving"
             /\ mode \in {"stopped", "pausing", "resuming"}
        /\ save.for = "stop" =>
             /\ stopping.at = "saving" /\ mode = "stopped" /\ ~StageUnderWay /\ job = NoJob
             /\ ~core.stopped /\ (controls # <<>> => Turn.at # "saving")
        /\ save.for = "delivery" =>
             /\ job.at \in {"saving", "completing"} /\ job # NoJob /\ ops = <<>>
             /\ stopping.at \in {"no", "called"} /\ mode \in {"active", "stopped"}
             /\ (controls # <<>> => Turn.at = "queued") /\ state.phase = "DIAGNOSTIC_READY"
  BY <1>x, WhoWaits
<1>wh. /\ save.type = "STOPPED" => save.for \in {"op", "stop"} /\ save.next.phase = "STOPPED"
       /\ save.for = "control" => save.type \in {"pause", "resume"} /\ save.next.phase = state.phase
       /\ save.for = "delivery" => save.type \in Papers /\ save.next.phase = state.phase
       /\ save.at \notin {"none", "ok"} => save.next.revision = state.revision + 1
       /\ save.at \in {"written", "ok"} => save.next.revision = Len(journal)
  BY <1>x, WhatTheySave
<1>f. DeliveryTypeOK' /\ ResumedOnce' /\ QueueStands' /\ TurnsStand' /\ ControlsStand' /\
        DeliveryIsEarned'
  BY Frames, <1>x, <1>who, <1>wh DEF StoreFails, owner, stages
<1>t. TypeOK'
  <2>save. save' \in Commits \cup {NoSave}
    BY <1>w, <1>x, <1>who, <1>wh, ContinuityAssumption
       DEF TypeOK, NoSave, Commits, States, Phases, Types, Papers, Terminal, Resumable, Cores
  <2>store. store' \in Stores
    BY <1>w, <1>x, <1>who, <1>wh DEF StoreFails, owner, stages, TypeOK, Stores
  <2>faults. faults' \in 0 .. MaxFaults
    BY <1>w, <1>x, <1>who, <1>wh, ContinuityAssumption DEF StoreFails, owner, stages, TypeOK, Stores
  <2> QED BY <1>w, <1>x, <1>who, <1>wh, <2>save, <2>store, <2>faults DEF TypeOK
<1>d. PausedIsDrained'
  BY <1>j, <1>h, <1>i, <1>x, <1>who, <1>wh DEF PausedIsDrained
<1>b. BudgetKept'
  BY <1>j, <1>h, <1>i, <1>x, <1>who, <1>wh, ContinuityAssumption DEF BudgetKept
<1>s. SavesStand'
  <2>1. \A who \in {"op", "control", "stop", "delivery"} : Waits(who)' <=> save'.at # "none" /\
          save'.for = who
    BY <1>j, <1>h, <1>i, <1>x, <1>who, <1>wh
       DEF SavesStand, Waits, WhatIsSaved, Begun, Concluded, Recorded
  <2>2. save'.at # "none" => WhatIsSaved'
    BY <1>j, <1>h, <1>i, <1>x, <1>who, <1>wh
       DEF SavesStand, Waits, WhatIsSaved, Begun, Concluded, Recorded
  <2>3. save'.at # "none" => save'.epoch <= core'.epoch /\ (save'.epoch = core'.epoch /\
          save'.for \in {"op", "delivery"} => mode' = "active")
    BY <1>j, <1>h, <1>i, <1>x, <1>who, <1>wh
       DEF SavesStand, Waits, WhatIsSaved, Begun, Concluded, Recorded
  <2>4. save'.at \in {"written", "ok"} => journal' # <<>> /\ Len(journal') = save'.next.revision /\
          Last' = save'.type
    BY <1>j, <1>h, <1>i, <1>x, <1>who, <1>wh
       DEF SavesStand, Waits, WhatIsSaved, Begun, Concluded, Recorded
  <2>5. save'.at = "ok" => state' = save'.next
    BY <1>j, <1>h, <1>i, <1>x, <1>who, <1>wh
       DEF SavesStand, Waits, WhatIsSaved, Begun, Concluded, Recorded
  <2>6. save'.at \notin {"none", "ok"} =>
            /\ save'.next.revision = state'.revision + 1
            /\ save'.next.attempts = state'.attempts + (IF save'.type = "attempt" THEN 1 ELSE 0)
    BY <1>j, <1>h, <1>i, <1>x, <1>who, <1>wh
       DEF SavesStand, Waits, WhatIsSaved, Begun, Concluded, Recorded
  <2> QED BY <2>1, <2>2, <2>3, <2>4, <2>5, <2>6 DEF SavesStand
<1>g. StagesStand'
  BY <1>j, <1>h, <1>i, <1>x, <1>who, <1>wh, <1>f DEF StagesStand, StageUnderWay, Resumable
<1>m. ModesStand'
  BY <1>j, <1>h, <1>i, <1>x, <1>who, <1>wh DEF ModesStand, AtRest, Resumable
<1>n. CountsStand'
  BY <1>j, <1>h, <1>i, <1>x, <1>who, <1>wh, ContinuityAssumption
     DEF CountsStand, InStep, Unsaved, Terminal, Resumable
<1>p. PausesStand'
  BY <1>j, <1>h, <1>i, <1>x, <1>who, <1>wh DEF PausesStand, Unsaved, Resumable
<1>e. EndStands'
  <2>1. save'.at # "none" /\ save'.type # "STOPPED" => ~OnDisk("STOPPED")'
    BY <1>j, <1>h, <1>i, <1>x, <1>who, <1>wh
       DEF TypeOK, EndStands, CountsStand, InStep, ModesStand, AtRest, StagesStand, StageUnderWay,
           SavesStand, Waits, WhatIsSaved, Begun, Concluded, Recorded, Unsaved, Commits, States,
           Stages, Stores
  <2>2. OnDisk("STOPPED")' /\ state'.phase # "STOPPED" =>
            \/ save'.at = "written" \/ stopping'.failed
            \/ ~core'.stopped /\ state'.phase \notin Terminal /\ state'.revision # Len(journal')
    BY <1>j, <1>h, <1>i, <1>x, <1>who, <1>wh
       DEF TypeOK, EndStands, CountsStand, InStep, ModesStand, AtRest, StagesStand, StageUnderWay,
           SavesStand, Waits, WhatIsSaved, Begun, Concluded, Recorded, Unsaved, Commits, States,
           Stages, Stores
  <2> QED BY <2>1, <2>2 DEF EndStands
<1>y. JobStands'
  BY <1>j, <1>h, <1>i, <1>x, <1>who, <1>wh DEF JobStands, Unsaved
<1> QED BY <1>f, <1>t, <1>d, <1>b, <1>s, <1>g, <1>m, <1>n, <1>p, <1>e, <1>y

(* A store that is lost leaves all the rest. *)
LEMMA OwnerLostStands ==
  ASSUME Inv, OwnerLost, UNCHANGED deliveryVars
  PROVE  Inv'
<1> USE DEF Inv, DeliveryStands, SameOnDisk, deliveryVars, Owned, SameQueues
<1>j. SameOnDisk
  BY JournalStays DEF OwnerLost, owner, stages
<1>h. SameQueues /\ (\A who : Waits(who)' <=> Waits(who))
  BY DEF Op, Turn, Waits, Tracked, StageUnderWay, OwnerLost, owner, stages
<1>i. StageUnderWay => ops # <<>> /\ Tracked # {} /\ ~Idle
  BY UnderWay
<1>w. TypeOK /\ DeliveryTypeOK
  BY DEF DeliveryIsEarned
<1>f. DeliveryTypeOK' /\ PausedIsDrained' /\ ResumedOnce' /\ SavesStand' /\ QueueStands' /\
        StagesStand' /\ TurnsStand' /\ ControlsStand' /\ PausesStand' /\ EndStands' /\
        DeliveryIsEarned'
  BY Frames DEF OwnerLost, owner, stages
<1>t. TypeOK'
  <2>store. store' \in Stores
    BY <1>w DEF OwnerLost, owner, stages, TypeOK, Stores
  <2>faults. faults' \in 0 .. MaxFaults
    BY <1>w, ContinuityAssumption DEF OwnerLost, owner, stages, TypeOK
  <2> QED BY <1>w, <2>store, <2>faults DEF OwnerLost, owner, stages, TypeOK
<1>b. BudgetKept'
  BY <1>j, <1>h, <1>i, ContinuityAssumption DEF OwnerLost, owner, stages, BudgetKept
<1>m. ModesStand'
  BY <1>j, <1>h, <1>i DEF OwnerLost, owner, stages, ModesStand, AtRest, Resumable
<1>n. CountsStand'
  BY <1>j, <1>h, <1>i, ContinuityAssumption
     DEF OwnerLost, owner, stages, CountsStand, InStep, Unsaved, Terminal, Resumable
<1>y. JobStands'
  BY <1>j, <1>h, <1>i DEF OwnerLost, owner, stages, JobStands, Unsaved
<1> QED BY <1>f, <1>t, <1>b, <1>m, <1>n, <1>y

(* What is launched waits behind what is under way. *)
LEMMA LaunchStands ==
  ASSUME Inv, NEW name \in Names, Launch(name), UNCHANGED deliveryVars
  PROVE  Inv'
<1> USE DEF Inv, DeliveryStands, SameOnDisk, deliveryVars, Owned
<1>j. SameOnDisk
  BY JournalStays DEF Launch, disk
<1>o. LET o == [name |-> name, at |-> "launched", epoch |-> 0]
      IN /\ ops' \in Seq(Stages) /\ ops' # <<>> /\ o \in Stages
         /\ Op' = IF ops = <<>> THEN o ELSE Op
         /\ (StageUnderWay' <=> StageUnderWay)
         /\ \A i \in DOMAIN ops' : (i \in DOMAIN ops /\ ops'[i] = ops[i]) \/ ops'[i] = o
  BY LaunchMeans DEF Stages, Launch
<1>h. controls' = controls /\ Turn' = Turn
  BY DEF Op, Turn, Waits, Tracked, StageUnderWay, Launch, disk
<1>i. StageUnderWay => ops # <<>> /\ Tracked # {} /\ ~Idle
  BY UnderWay
<1>w. TypeOK /\ DeliveryTypeOK
  BY DEF DeliveryIsEarned
<1>f. DeliveryTypeOK' /\ BudgetKept' /\ ResumedOnce' /\ CountsStand' /\ PausesStand' /\
        EndStands' /\ JobStands' /\ DeliveryIsEarned'
  BY Frames DEF Launch, disk
<1>t. TypeOK'
  <2> QED BY <1>w, <1>o DEF Launch, disk, TypeOK, Stages, Names
<1>d. PausedIsDrained'
  BY <1>j, <1>o, <1>h, <1>i DEF Launch, disk, PausedIsDrained
<1>s. SavesStand'
  <2>1. \A who \in {"op", "control", "stop", "delivery"} : Waits(who)' <=> save'.at # "none" /\
          save'.for = who
    BY <1>j, <1>o, <1>h, <1>i
       DEF Launch, disk, SavesStand, Waits, WhatIsSaved, Begun, Concluded, Recorded
  <2>2. save'.at # "none" => WhatIsSaved'
    BY <1>j, <1>o, <1>h, <1>i
       DEF Launch, disk, SavesStand, Waits, WhatIsSaved, Begun, Concluded, Recorded
  <2>3. save'.at # "none" => save'.epoch <= core'.epoch /\ (save'.epoch = core'.epoch /\
          save'.for \in {"op", "delivery"} => mode' = "active")
    BY <1>j, <1>o, <1>h, <1>i
       DEF Launch, disk, SavesStand, Waits, WhatIsSaved, Begun, Concluded, Recorded
  <2>4. save'.at \in {"written", "ok"} => journal' # <<>> /\ Len(journal') = save'.next.revision /\
          Last' = save'.type
    BY <1>j, <1>o, <1>h, <1>i
       DEF Launch, disk, SavesStand, Waits, WhatIsSaved, Begun, Concluded, Recorded
  <2>5. save'.at = "ok" => state' = save'.next
    BY <1>j, <1>o, <1>h, <1>i
       DEF Launch, disk, SavesStand, Waits, WhatIsSaved, Begun, Concluded, Recorded
  <2>6. save'.at \notin {"none", "ok"} =>
            /\ save'.next.revision = state'.revision + 1
            /\ save'.next.attempts = state'.attempts + (IF save'.type = "attempt" THEN 1 ELSE 0)
    BY <1>j, <1>o, <1>h, <1>i
       DEF Launch, disk, SavesStand, Waits, WhatIsSaved, Begun, Concluded, Recorded
  <2> QED BY <2>1, <2>2, <2>3, <2>4, <2>5, <2>6 DEF SavesStand
<1>g1. QueueStands'
  <2>1. \A i \in DOMAIN ops' : (i \in DOMAIN ops /\ ops'[i] = ops[i]) \/ ops'[i].at = "launched"
    BY <1>o
  <2>2. QueueStands /\ UNCHANGED <<mode, core>>
    BY DEF StagesStand, Launch
  <2> QED BY <2>1, <2>2 DEF QueueStands
<1>g. StagesStand'
  BY <1>j, <1>o, <1>h, <1>i, <1>g1 DEF Launch, disk, StagesStand, StageUnderWay, Resumable
<1>m. ModesStand'
  BY <1>j, <1>o, <1>h, <1>i DEF Launch, disk, ModesStand, AtRest, Resumable
<1>k1. TurnsStand'
  BY <1>j, <1>o, <1>h, <1>i, TurnsKept DEF Launch, disk, ControlsStand
<1>k. ControlsStand'
  BY <1>j, <1>o, <1>h, <1>i, <1>k1 DEF Launch, disk, ControlsStand
<1> QED BY <1>f, <1>t, <1>d, <1>s, <1>g, <1>m, <1>k

(* What is queued takes the epoch in which the owner is active; what is dropped was not under way.
   *)
LEMMA EnqueuesStands ==
  ASSUME Inv, NEW i \in DOMAIN ops, Enqueues(i), UNCHANGED deliveryVars
  PROVE  Inv'
<1> USE DEF Inv, DeliveryStands, SameOnDisk, deliveryVars, Owned
<1>j. SameOnDisk
  BY JournalStays DEF Enqueues, owner, disk
<1>h. controls' = controls /\ Turn' = Turn
  BY DEF Op, Turn, Waits, Tracked, StageUnderWay, Enqueues, owner, disk
<1>i. StageUnderWay => ops # <<>> /\ Tracked # {} /\ ~Idle
  BY UnderWay
<1>w. TypeOK /\ DeliveryTypeOK
  BY DEF DeliveryIsEarned
<1>o. /\ ops' \in Seq(Stages) /\ (StageUnderWay' <=> StageUnderWay) /\ ops # <<>> /\ QueueStands'
      /\ (StageUnderWay => ops' # <<>> /\ Op' = Op)
      /\ (mode # "active" /\ Tracked = {} => Tracked' = {})
  BY EnqueuesMeans DEF StagesStand, StageUnderWay, TypeOK
<1>x. UNCHANGED <<mode, permitted, checkpoint, controls, stopping, qualifying, core, actor, author,
        space, custody, save, state, journal, store, faults>> /\ UNCHANGED deliveryVars /\
        (\A who : Waits(who)' <=> Waits(who))
      /\ (save.at # "none" /\ save.for = "op" => StageUnderWay)
  <2>1. UNCHANGED <<mode, permitted, checkpoint, controls, stopping, qualifying, core, actor,
          author, space, custody, save, state, journal, store, faults>> /\ UNCHANGED deliveryVars
    BY DEF Enqueues, owner, disk
  <2>2. save.at # "none" /\ save.for = "op" => StageUnderWay
    BY WhoWaits
  <2> QED BY <1>o, <2>1, <2>2 DEF Waits, Turn, StageUnderWay
<1>f. DeliveryTypeOK' /\ BudgetKept' /\ ResumedOnce' /\ CountsStand' /\ PausesStand' /\
        EndStands' /\ JobStands' /\ DeliveryIsEarned'
  BY Frames, <1>o, <1>x DEF Enqueues, owner, disk
<1>t. TypeOK'
  <2> QED BY <1>w, <1>o, <1>o, <1>x DEF TypeOK, Stages, Names
<1>d. PausedIsDrained'
  BY <1>j, <1>h, <1>i, <1>o, <1>x DEF PausedIsDrained
<1>s. SavesStand'
  <2>1. \A who \in {"op", "control", "stop", "delivery"} : Waits(who)' <=> save'.at # "none" /\
          save'.for = who
    BY <1>j, <1>h, <1>i, <1>o, <1>x DEF SavesStand, Waits, WhatIsSaved, Begun, Concluded, Recorded
  <2>2. save'.at # "none" => WhatIsSaved'
    BY <1>j, <1>h, <1>i, <1>o, <1>x DEF SavesStand, Waits, WhatIsSaved, Begun, Concluded, Recorded
  <2>3. save'.at # "none" => save'.epoch <= core'.epoch /\ (save'.epoch = core'.epoch /\
          save'.for \in {"op", "delivery"} => mode' = "active")
    BY <1>j, <1>h, <1>i, <1>o, <1>x DEF SavesStand, Waits, WhatIsSaved, Begun, Concluded, Recorded
  <2>4. save'.at \in {"written", "ok"} => journal' # <<>> /\ Len(journal') = save'.next.revision /\
          Last' = save'.type
    BY <1>j, <1>h, <1>i, <1>o, <1>x DEF SavesStand, Waits, WhatIsSaved, Begun, Concluded, Recorded
  <2>5. save'.at = "ok" => state' = save'.next
    BY <1>j, <1>h, <1>i, <1>o, <1>x DEF SavesStand, Waits, WhatIsSaved, Begun, Concluded, Recorded
  <2>6. save'.at \notin {"none", "ok"} =>
            /\ save'.next.revision = state'.revision + 1
            /\ save'.next.attempts = state'.attempts + (IF save'.type = "attempt" THEN 1 ELSE 0)
    BY <1>j, <1>h, <1>i, <1>o, <1>x DEF SavesStand, Waits, WhatIsSaved, Begun, Concluded, Recorded
  <2> QED BY <2>1, <2>2, <2>3, <2>4, <2>5, <2>6 DEF SavesStand
<1>g1. QueueStands'
  BY <1>o
<1>g. StagesStand'
  BY <1>j, <1>h, <1>i, <1>o, <1>x, <1>g1 DEF StagesStand, StageUnderWay, Resumable
<1>m. ModesStand'
  BY <1>j, <1>h, <1>i, <1>o, <1>x DEF ModesStand, AtRest, Resumable
<1>k1. TurnsStand'
  BY <1>j, <1>h, <1>i, <1>o, <1>x, TurnsKept DEF Enqueues, ControlsStand
<1>k. ControlsStand'
  BY <1>j, <1>h, <1>i, <1>o, <1>x, <1>k1 DEF ControlsStand
<1> QED BY <1>f, <1>t, <1>d, <1>s, <1>g, <1>m, <1>k

(* A stage that may not start had saved nothing; a seal in that case stops the controller and
   revokes the store. *)
LEMMA OpRefusedStands ==
  ASSUME Inv, OpRefused, UNCHANGED deliveryVars
  PROVE  Inv'
<1> USE DEF Inv, DeliveryStands, SameOnDisk, deliveryVars, Owned
<1>j. SameOnDisk
  BY JournalStays DEF OpRefused, OpAt, Admitted, MayStart, SealStops, RevokedSpace, owner
<1>o. /\ ~StageUnderWay' /\ ops # <<>>
         /\ ops' \in Seq(Stages) /\ Op \in Stages /\ Op = ops[1] /\ 1 \in DOMAIN ops
         /\ \A n \in DOMAIN ops' : n + 1 \in DOMAIN ops /\ n + 1 > 1 /\ ops'[n] = ops[n + 1]
         /\ (ops' # <<>> => Op' = ops[2] /\ 2 \in DOMAIN ops)
  BY DoneMeans DEF StagesStand, OpRefused, OpAt, Admitted, MayStart, SealStops, RevokedSpace, owner
<1>h. controls' = controls /\ Turn' = Turn
  BY
     DEF Op, Turn, Waits, Tracked, StageUnderWay, OpRefused, OpAt, Admitted, MayStart, SealStops,
         RevokedSpace, owner
<1>b0. author' \in BOOLEAN /\ custody' \in BOOLEAN
  BY DEF TypeOK, OpRefused, OpAt, Admitted, MayStart, SealStops, RevokedSpace, owner
<1>i. StageUnderWay => ops # <<>> /\ Tracked # {} /\ ~Idle
  BY UnderWay
<1>w. TypeOK /\ DeliveryTypeOK
  BY DEF DeliveryIsEarned
<1>ep. /\ core' \in Cores /\ core.epoch \in Nat /\ core'.epoch \in Nat /\ core'.epoch >= core.epoch
          /\ core'.closing = core.closing /\ core'.denied = core.denied
          /\ (core' = core \/ (core'.stopped /\ core'.epoch > core.epoch))
          /\ (UNCHANGED <<core, store, author, custody, space>> \/ (core'.stopped /\
                store'.revoked))
  <2>1. core \in Cores
    BY <1>w DEF TypeOK
  <2>2. UNCHANGED <<core, store, author, custody, space>> \/ SealStops
    BY DEF OpRefused
  <2>3. SealStops => store'.revoked /\ core' = IF core.stopped THEN core ELSE CutOff(core)
    BY <1>w DEF TypeOK, Stores, SealStops
  <2>4. LET d == CutOff(core)
        IN  /\ d \in Cores /\ d.epoch \in Nat /\ core.epoch \in Nat /\ d.epoch > core.epoch
            /\ d.stopped /\ d.denied = core.denied /\ d.closing = core.closing
    BY <2>1, CoreStopped
  <2> QED BY <2>1, <2>2, <2>3, <2>4
<1>x. /\ Op.at = "queued" /\ store' \in Stores /\ store'.poisoned = store.poisoned /\
           store'.closed = store.closed
      /\ (store' = store \/ store'.revoked)
      /\ UNCHANGED <<mode, permitted, checkpoint, controls, stopping, qualifying, actor, state,
           save, journal, faults>> /\ UNCHANGED deliveryVars
  BY <1>w DEF OpRefused, OpAt, SealStops, owner, TypeOK, Stores
<1>z. /\ save.at = "none" /\ job = NoJob /\ (controls # <<>> => Turn.at = "queued")
      /\ stopping.at \notin {"controls", "closing", "saving"} /\ mode \in {"active", "stopped"}
  BY <1>x, <1>o, StageGoesOn
<1>zz. core' = core \/ (OnDisk("STOPPED") => state.phase = "STOPPED")
  BY <1>x, <1>o, LivesInStep DEF OpRefused, Admitted, SealStops, Live, ModesStand
<1>f. DeliveryTypeOK' /\ ResumedOnce' /\ PausesStand' /\ DeliveryIsEarned'
  BY Frames, <1>x, <1>z, <1>zz
     DEF OpRefused, OpAt, Admitted, MayStart, SealStops, RevokedSpace, owner
<1>t. TypeOK'
  <2>store. store' \in Stores
    BY <1>w, <1>x, <1>z, <1>zz DEF OpRefused, OpAt, SealStops, RevokedSpace, owner, TypeOK, Stores
  <2>core. core' \in Cores
    BY <1>ep
  <2>space. space' \in {"none", "open", "revoked"}
    BY <1>w, <1>x, <1>z, <1>zz DEF OpRefused, SealStops, RevokedSpace, TypeOK
  <2> QED BY <1>w, <1>o, <1>b0, <1>x, <1>z, <1>zz, <2>store, <2>core, <2>space
             DEF TypeOK, Stages, Names
<1>d. PausedIsDrained'
  BY <1>j, <1>o, <1>h, <1>i, <1>ep, <1>x, <1>z, <1>zz DEF PausedIsDrained
<1>b. BudgetKept'
  BY <1>j, <1>o, <1>h, <1>i, <1>ep, <1>x, <1>z, <1>zz, ContinuityAssumption DEF BudgetKept
<1>s. SavesStand'
  <2>1. \A who \in {"op", "control", "stop", "delivery"} : Waits(who)' <=> save'.at # "none" /\
          save'.for = who
    BY <1>j, <1>o, <1>h, <1>i, <1>ep, <1>x, <1>z, <1>zz
       DEF TypeOK, SavesStand, WhatIsSaved, Begun, Concluded, Recorded, Waits, ModesStand,
           ControlsStand, StagesStand, StageUnderWay, Unsaved, Commits, States, AtRest, Stages,
           Turns, Cores, Stores
  <2>2. save'.at # "none" => WhatIsSaved'
    BY <1>j, <1>o, <1>h, <1>i, <1>ep, <1>x, <1>z, <1>zz
       DEF TypeOK, SavesStand, WhatIsSaved, Begun, Concluded, Recorded, Waits, ModesStand,
           ControlsStand, StagesStand, StageUnderWay, Unsaved, Commits, States, AtRest, Stages,
           Turns, Cores, Stores
  <2>3. save'.at # "none" => save'.epoch <= core'.epoch /\ (save'.epoch = core'.epoch /\
          save'.for \in {"op", "delivery"} => mode' = "active")
    BY <1>j, <1>o, <1>h, <1>i, <1>ep, <1>x, <1>z, <1>zz
       DEF TypeOK, SavesStand, WhatIsSaved, Begun, Concluded, Recorded, Waits, ModesStand,
           ControlsStand, StagesStand, StageUnderWay, Unsaved, Commits, States, AtRest, Stages,
           Turns, Cores, Stores
  <2>4. save'.at \in {"written", "ok"} => journal' # <<>> /\ Len(journal') = save'.next.revision /\
          Last' = save'.type
    BY <1>j, <1>o, <1>h, <1>i, <1>ep, <1>x, <1>z, <1>zz
       DEF TypeOK, SavesStand, WhatIsSaved, Begun, Concluded, Recorded, Waits, ModesStand,
           ControlsStand, StagesStand, StageUnderWay, Unsaved, Commits, States, AtRest, Stages,
           Turns, Cores, Stores
  <2>5. save'.at = "ok" => state' = save'.next
    BY <1>j, <1>o, <1>h, <1>i, <1>ep, <1>x, <1>z, <1>zz
       DEF TypeOK, SavesStand, WhatIsSaved, Begun, Concluded, Recorded, Waits, ModesStand,
           ControlsStand, StagesStand, StageUnderWay, Unsaved, Commits, States, AtRest, Stages,
           Turns, Cores, Stores
  <2>6. save'.at \notin {"none", "ok"} =>
            /\ save'.next.revision = state'.revision + 1
            /\ save'.next.attempts = state'.attempts + (IF save'.type = "attempt" THEN 1 ELSE 0)
    BY <1>j, <1>o, <1>h, <1>i, <1>ep, <1>x, <1>z, <1>zz
       DEF TypeOK, SavesStand, WhatIsSaved, Begun, Concluded, Recorded, Waits, ModesStand,
           ControlsStand, StagesStand, StageUnderWay, Unsaved, Commits, States, AtRest, Stages,
           Turns, Cores, Stores
  <2> QED BY <2>1, <2>2, <2>3, <2>4, <2>5, <2>6 DEF SavesStand
<1>g1. QueueStands'
  BY <1>j, <1>o, <1>h, <1>i, <1>ep, <1>x, <1>z, <1>zz, QueueKept
     DEF OpRefused, StagesStand, TypeOK, Cores
<1>g. StagesStand'
  BY <1>j, <1>o, <1>h, <1>i, <1>ep, <1>x, <1>z, <1>zz, <1>g1
     DEF StagesStand, StageUnderWay, Resumable
<1>m. ModesStand'
  <2>1. stopping'.at # "no" <=> mode' = "stopped"
    BY <1>j, <1>o, <1>h, <1>i, <1>ep, <1>x, <1>z, <1>zz DEF ModesStand, AtRest, Resumable
  <2>2. core'.closing # "no" \/ store'.revoked \/ mode' = "blocked" => core'.stopped
    BY <1>j, <1>o, <1>h, <1>i, <1>ep, <1>x, <1>z, <1>zz DEF ModesStand, AtRest, Resumable
  <2>3. core'.stopped => store'.revoked \/ mode' = "stopped"
    BY <1>j, <1>o, <1>h, <1>i, <1>ep, <1>x, <1>z, <1>zz DEF ModesStand, AtRest, Resumable
  <2>4. core'.closing = "closed" => store'.closed
    BY <1>j, <1>o, <1>h, <1>i, <1>ep, <1>x, <1>z, <1>zz DEF ModesStand, AtRest, Resumable
  <2>5. core'.closing \in {"closed", "failed"} => save'.at = "none"
    BY <1>j, <1>o, <1>h, <1>i, <1>ep, <1>x, <1>z, <1>zz DEF ModesStand, AtRest, Resumable
  <2>6. mode' \in AtRest \cup {"blocked"} =>
            ops' = <<>> /\ actor' = "none" /\ ~author' /\ job' = NoJob /\ ~OnDisk("STOPPED")'
    BY <1>j, <1>o, <1>h, <1>i, <1>ep, <1>x, <1>z, <1>zz DEF ModesStand, AtRest, Resumable
  <2>7. mode' \in AtRest => ~core'.stopped /\ core'.denied /\ state'.phase \in Resumable
    BY <1>j, <1>o, <1>h, <1>i, <1>ep, <1>x, <1>z, <1>zz DEF ModesStand, AtRest, Resumable
  <2>8. qualifying' <=> job' # NoJob
    BY <1>j, <1>o, <1>h, <1>i, <1>ep, <1>x, <1>z, <1>zz DEF ModesStand, AtRest, Resumable
  <2>9. job' # NoJob =>
            /\ ops' = <<>> /\ mode' \in {"active", "stopped"} /\ stopping'.at \in {"no", "called"}
            /\ ~OnDisk("STOPPED")' /\ state'.phase = "DIAGNOSTIC_READY"
    BY <1>j, <1>o, <1>h, <1>i, <1>ep, <1>x, <1>z, <1>zz DEF ModesStand, AtRest, Resumable
  <2>10. stopping'.at = "controls" => ops' = <<>>
    BY <1>j, <1>o, <1>h, <1>i, <1>ep, <1>x, <1>z, <1>zz DEF ModesStand, AtRest, Resumable
  <2>11. stopping'.at \in {"closing", "saving"} => Tracked' = {}
    BY <1>j, <1>o, <1>h, <1>i, <1>ep, <1>x, <1>z, <1>zz DEF ModesStand, AtRest, Resumable
  <2>12. stopping'.at = "saving" => ~core'.stopped
    BY <1>j, <1>o, <1>h, <1>i, <1>ep, <1>x, <1>z, <1>zz DEF ModesStand, AtRest, Resumable
  <2>13. stopping'.at = "stopped" => ~stopping'.failed /\ core'.closing = "closed"
    BY <1>j, <1>o, <1>h, <1>i, <1>ep, <1>x, <1>z, <1>zz DEF ModesStand, AtRest, Resumable
  <2>14. stopping'.failed => stopping'.at \in {"core", "failed"}
    BY <1>j, <1>o, <1>h, <1>i, <1>ep, <1>x, <1>z, <1>zz DEF ModesStand, AtRest, Resumable
  <2> QED BY <2>1, <2>2, <2>3, <2>4, <2>5, <2>6, <2>7, <2>8, <2>9, <2>10, <2>11, <2>12, <2>13, <2>14
             DEF ModesStand
<1>k1. TurnsStand'
  BY <1>j, <1>o, <1>h, <1>i, <1>ep, <1>x, <1>z, <1>zz, TurnsKept
     DEF OpRefused, ControlsStand, ModesStand, AtRest
<1>k. ControlsStand'
  BY <1>j, <1>o, <1>h, <1>i, <1>ep, <1>x, <1>z, <1>zz, <1>k1 DEF ControlsStand
<1>n. CountsStand'
  BY <1>j, <1>o, <1>h, <1>i, <1>ep, <1>x, <1>z, <1>zz, ContinuityAssumption
     DEF CountsStand, InStep, Unsaved, Terminal, Resumable
<1>e. EndStands'
  BY <1>j, <1>o, <1>h, <1>i, <1>ep, <1>x, <1>z, <1>zz
     DEF TypeOK, EndStands, CountsStand, InStep, ModesStand, AtRest, StagesStand, StageUnderWay,
         SavesStand, Waits, WhatIsSaved, Begun, Concluded, Recorded, Unsaved, Commits, States,
         Stages, QueueStands, Cores, Stores
<1>y. JobStands'
  BY <1>j, <1>o, <1>h, <1>i, <1>ep, <1>x, <1>z, <1>zz DEF JobStands, Unsaved
<1> QED BY <1>f, <1>t, <1>d, <1>b, <1>s, <1>g, <1>m, <1>k, <1>n, <1>e, <1>y

(* An author closes a workspace only in its own epoch, with an attempt left. *)
LEMMA OpClosesStands ==
  ASSUME Inv, OpCloses, UNCHANGED deliveryVars
  PROVE  Inv'
<1> USE DEF Inv, DeliveryStands, SameOnDisk, deliveryVars, Owned
<1>j. SameOnDisk
  BY JournalStays DEF OpCloses, OpAt, Admitted, MayStart, owner, disk
<1>o. /\ ops # <<>> /\ ops' \in Seq(Stages) /\ ops' # <<>> /\ DOMAIN ops' = DOMAIN ops
         /\ Op' = [Op EXCEPT !.at = "closing"] /\ Op \in Stages
         /\ Op = ops[1] /\ Op' = ops'[1] /\ 1 \in DOMAIN ops
         /\ \A n \in DOMAIN ops' : n > 1 => ops'[n] = ops[n]
  BY ToMeans DEF OpCloses, OpAt, Admitted, MayStart, owner, disk
<1>h. controls' = controls /\ Turn' = Turn
  BY DEF Op, Turn, Waits, Tracked, StageUnderWay, OpCloses, OpAt, Admitted, MayStart, owner, disk
<1>i. StageUnderWay => ops # <<>> /\ Tracked # {} /\ ~Idle
  BY UnderWay
<1>w. TypeOK /\ DeliveryTypeOK
  BY DEF DeliveryIsEarned
<1>x. /\ Op.at = "queued" /\ Op.name = "author" /\ Admitted /\ Alive /\ space' = "revoked"
      /\ state.phase \in Resumable /\ state.attempts < Budget
      /\ UNCHANGED <<mode, permitted, checkpoint, controls, stopping, qualifying, core, actor,
           author, custody, state, save, journal, store, faults>> /\ UNCHANGED deliveryVars
  BY DEF OpCloses, OpAt, MayStart, owner, disk
<1>z. /\ mode = "active" /\ ~core.stopped /\ Owned /\ stopping.at = "no" /\ ~stopping.failed /\
           job = NoJob
      /\ save = NoSave /\ save.at = "none" /\ (controls # <<>> => Turn.at = "queued") /\
           core.epoch = Op.epoch /\ core.epoch \in Nat
      /\ (\A n \in DOMAIN controls : controls[n].kind # "pause") /\ ~OpenPause
      /\ state.revision = Len(journal) /\ Spent = state.attempts /\ state \in States
      /\ Op'.at = "closing" /\ Op'.name = "author" /\ Op'.epoch = Op.epoch /\ ~OnDisk("STOPPED") /\
           copy = "none"
  <2>l. Op.at \notin {"launched", "saving", "concluding"} /\ Live(Op.epoch)
    BY <1>x DEF Admitted, Alive, Live
  <2>m. /\ mode = "active" /\ ~core.stopped /\ Owned /\ stopping.at = "no" /\ ~stopping.failed /\
             job = NoJob
        /\ save.at = "none" /\ (controls # <<>> => Turn.at = "queued") /\ core.epoch = Op.epoch
        /\ state.revision = Len(journal) /\ Spent = state.attempts /\ (OnDisk("STOPPED") =>
             state.phase = "STOPPED")
    BY <1>o, <2>l, StageGoesOn, LivesInStep DEF Live
  <2>n. /\ save = NoSave /\ (\A n \in DOMAIN controls : controls[n].kind # "pause") /\ ~OpenPause
        /\ core.epoch \in Nat /\ state \in States
    BY <1>w, <2>m DEF TypeOK, Commits, Cores, ControlsStand, TurnsStand, ResumedOnce
  <2>1. Op'.at = "closing" /\ Op'.name = "author" /\ Op'.epoch = Op.epoch
    BY <1>o, <1>x DEF Stages
  <2>2. ~OnDisk("STOPPED") /\ copy = "none"
    BY <1>x, <2>m DEF Resumable, JobStands
  <2> QED BY <2>m, <2>n, <2>1, <2>2
<1>f. DeliveryTypeOK' /\ BudgetKept' /\ ResumedOnce' /\ CountsStand' /\ PausesStand' /\
        EndStands' /\ JobStands' /\ DeliveryIsEarned'
  BY Frames, <1>x, <1>z DEF OpCloses, OpAt, Admitted, MayStart, owner, disk
<1>t. TypeOK'
  <2>space. space' \in {"none", "open", "revoked"}
    BY <1>w, <1>x, <1>z DEF OpCloses, TypeOK
  <2> QED BY <1>w, <1>o, <1>x, <1>z, <2>space DEF TypeOK, Stages, Names
<1>d. PausedIsDrained'
  BY <1>j, <1>o, <1>h, <1>i, <1>x, <1>z DEF PausedIsDrained
<1>s. SavesStand'
  BY <1>j, <1>o, <1>h, <1>i, <1>x, <1>z
     DEF SavesStand, Waits, WhatIsSaved, Begun, Concluded, Recorded
<1>g1. QueueStands'
  BY <1>o, <1>w, <1>x, <1>z, QueueKept DEF StagesStand, OpCloses
<1>g. StagesStand'
  <2>1. StageUnderWay' => ~core'.stopped /\ copy' = "none" /\ stopping'.at \in {"no", "called",
          "stages"}
    BY <1>j, <1>o, <1>h, <1>i, <1>x, <1>z, <1>g1 DEF StagesStand, StageUnderWay, Resumable
  <2>2. StageUnderWay' /\ Op'.at = "closing" => Op'.name = "author" /\ state'.phase \in Resumable /\
          state'.attempts < Budget
    BY <1>j, <1>o, <1>h, <1>i, <1>x, <1>z, <1>g1 DEF StagesStand, StageUnderWay, Resumable
  <2>3. StageUnderWay' /\ Op'.at = "saving" /\ save'.at # "ok" =>
            CASE Op'.name = "author" -> state'.phase \in Resumable
              [] Op'.name = "seal" -> state'.phase = "AUTHORING"
              [] Op'.name = "judge" -> state'.phase = "FROZEN"
    BY <1>j, <1>o, <1>h, <1>i, <1>x, <1>z, <1>g1 DEF StagesStand, StageUnderWay, Resumable
  <2>4. StageUnderWay' /\ (Op'.at = "acting" \/ (Op'.at = "concluding" /\ save'.at # "ok")) =>
            state'.phase \in {"AUTHORING", "REVIEWING"}
    BY <1>j, <1>o, <1>h, <1>i, <1>x, <1>z, <1>g1 DEF StagesStand, StageUnderWay, Resumable
  <2> QED BY <2>1, <2>2, <2>3, <2>4, <1>g1 DEF StagesStand
<1>m. ModesStand'
  BY <1>j, <1>o, <1>h, <1>i, <1>x, <1>z DEF ModesStand, AtRest, Resumable
<1>k1. TurnsStand'
  BY <1>j, <1>o, <1>h, <1>i, <1>x, <1>z, TurnsKept DEF OpCloses, ControlsStand
<1>k. ControlsStand'
  BY <1>j, <1>o, <1>h, <1>i, <1>x, <1>z, <1>k1 DEF ControlsStand
<1> QED BY <1>f, <1>t, <1>d, <1>s, <1>g, <1>m, <1>k

(* The first record of a stage is asked for in the phase in which the stage may start, and it
   counts the attempt. *)
LEMMA OpCommitsStands ==
  ASSUME Inv, OpCommits, UNCHANGED deliveryVars
  PROVE  Inv'
<1> USE DEF Inv, DeliveryStands, SameOnDisk, deliveryVars, Owned
<1>j. SameOnDisk
  BY JournalStays DEF OpCommits, OpAt, Admitted, MayStart, Begins, Commit, owner
<1>o. /\ ops # <<>> /\ ops' \in Seq(Stages) /\ ops' # <<>> /\ DOMAIN ops' = DOMAIN ops
         /\ Op' = [Op EXCEPT !.at = "saving"] /\ Op \in Stages
         /\ Op = ops[1] /\ Op' = ops'[1] /\ 1 \in DOMAIN ops
         /\ \A n \in DOMAIN ops' : n > 1 => ops'[n] = ops[n]
  BY ToMeans DEF OpCommits, OpAt, Admitted, MayStart, Begins, Commit, owner
<1>h. controls' = controls /\ Turn' = Turn
  BY
     DEF Op, Turn, Waits, Tracked, StageUnderWay, OpCommits, OpAt, Admitted, MayStart, Begins,
         Commit, owner
<1>b0. custody' \in BOOLEAN
  BY DEF TypeOK, OpCommits, OpAt, Admitted, MayStart, Begins, Commit, owner
<1>i. StageUnderWay => ops # <<>> /\ Tracked # {} /\ ~Idle
  BY UnderWay
<1>w. TypeOK /\ DeliveryTypeOK
  BY DEF DeliveryIsEarned
<1>x. /\ Op.at \in {"queued", "closing"} /\ Live(Op.epoch) /\ Begins(Op.name)
      /\ space' \in {space, "none"} /\ (custody' = custody \/ ~custody')
      /\ UNCHANGED <<mode, permitted, checkpoint, controls, stopping, qualifying, core, actor,
           author, state, journal, store, faults>> /\ UNCHANGED deliveryVars
  BY <1>b0, <1>w DEF OpCommits, OpAt, Admitted, Alive, Live, TypeOK, owner
<1>z. /\ mode = "active" /\ ~core.stopped /\ Owned /\ stopping.at = "no" /\ ~stopping.failed /\
           job = NoJob
      /\ save = NoSave /\ save.at = "none" /\ (controls # <<>> => Turn.at = "queued") /\
           core.epoch = Op.epoch /\ core.epoch \in Nat
      /\ (\A n \in DOMAIN controls : controls[n].kind # "pause") /\ ~OpenPause
      /\ state.revision = Len(journal) /\ Spent = state.attempts /\ state \in States
      /\ Op'.at = "saving" /\ Op'.name = Op.name /\ Op'.epoch = Op.epoch /\ Op.epoch \in Nat
      /\ \/ Op.name = "author" /\ state.phase \in Resumable /\ state.attempts < Budget
         \/ Op.name = "seal" /\ state.phase = "AUTHORING"
         \/ Op.name = "judge" /\ state.phase = "FROZEN"
      /\ ~OnDisk("STOPPED") /\ copy = "none"
  <2>l. Op.at \notin {"launched", "saving", "concluding"} /\ Live(Op.epoch)
    BY <1>x
  <2>m. /\ mode = "active" /\ ~core.stopped /\ Owned /\ stopping.at = "no" /\ ~stopping.failed /\
             job = NoJob
        /\ save.at = "none" /\ (controls # <<>> => Turn.at = "queued") /\ core.epoch = Op.epoch
        /\ state.revision = Len(journal) /\ Spent = state.attempts /\ (OnDisk("STOPPED") =>
             state.phase = "STOPPED")
    BY <1>o, <2>l, StageGoesOn, LivesInStep DEF Live
  <2>n. /\ save = NoSave /\ (\A n \in DOMAIN controls : controls[n].kind # "pause") /\ ~OpenPause
        /\ core.epoch \in Nat /\ state \in States
    BY <1>w, <2>m DEF TypeOK, Commits, Cores, ControlsStand, TurnsStand, ResumedOnce
  <2>1. Op'.at = "saving" /\ Op'.name = Op.name /\ Op'.epoch = Op.epoch /\ Op.name \in Names /\
          Op.epoch \in Nat
    BY <1>o DEF Stages
  <2>2. \/ Op.name = "author" /\ state.phase \in Resumable /\ state.attempts < Budget
        \/ Op.name = "seal" /\ state.phase = "AUTHORING"
        \/ Op.name = "judge" /\ state.phase = "FROZEN"
    <3>1. CASE Op.at = "queued"
      BY <2>1, <3>1 DEF OpCommits, OpAt, MayStart, Names
    <3>2. CASE Op.at = "closing"
      BY <1>o, <3>2 DEF StagesStand, StageUnderWay
    <3> QED BY <1>x, <3>1, <3>2
  <2>3. ~OnDisk("STOPPED") /\ copy = "none"
    BY <2>2, <2>m DEF Resumable, JobStands
  <2> QED BY <2>m, <2>n, <2>1, <2>2, <2>3
<1>s0. /\ save' \in Commits /\ save'.at = "asked" /\ save'.for = "op" /\ save'.epoch = Op.epoch
       /\ save'.next.attempts = state.attempts + (IF save'.type = "attempt" THEN 1 ELSE 0)
       /\ save'.next.revision = state.revision + 1
       /\ <<Op.name, save'.type, save'.next.phase>> \in Begun /\ save'.type \in {"attempt", "seal",
            "assign"}
       /\ (save'.type = "attempt" <=> Op.name = "author")
  <2>1. state.attempts \in Nat /\ state.attempts <= Budget /\ state.revision \in Nat /\
          Budget \in Nat
    BY <1>z, ContinuityAssumption DEF States
  <2>2. PICK type \in {"attempt", "seal", "assign"}, phase1 \in {"AUTHORING", "FROZEN",
          "REVIEWING"}, attempts1 \in {state.attempts, state.attempts + 1} :
          /\ Commit("op", type, phase1, attempts1, Op.epoch)
          /\ <<Op.name, type, phase1>> \in Begun /\ (type = "attempt" <=> Op.name = "author")
          /\ attempts1 = state.attempts + (IF type = "attempt" THEN 1 ELSE 0)
    <3>1. CASE Op.name = "author"
      <4>1. Commit("op", "attempt", "AUTHORING", state.attempts + 1, Op.epoch)
        BY <1>x, <3>1 DEF Begins
      <4> QED BY <3>1, <4>1 DEF Begun
    <3>2. CASE Op.name = "seal"
      <4>1. Commit("op", "seal", "FROZEN", state.attempts, Op.epoch)
        BY <1>x, <3>2 DEF Begins
      <4> QED BY <2>1, <3>2, <4>1 DEF Begun
    <3>3. CASE Op.name = "judge"
      <4>1. Commit("op", "assign", "REVIEWING", state.attempts, Op.epoch)
        BY <1>x, <3>3 DEF Begins
      <4> QED BY <2>1, <3>3, <4>1 DEF Begun
    <3> QED BY <1>z, <3>1, <3>2, <3>3
  <2>3. /\ save' = [at |-> "asked", for |-> "op", type |-> type, epoch |-> Op.epoch,
             next |-> save'.next]
        /\ save'.at = "asked" /\ save'.for = "op" /\ save'.type = type /\ save'.epoch = Op.epoch
        /\ save'.next = [phase |-> phase1, attempts |-> attempts1, revision |-> state.revision + 1]
    BY <2>2 DEF Commit
  <2>4. attempts1 \in 0 .. Budget
    BY <1>z, <2>1, <2>2
  <2>5. save'.next \in States
    BY <2>1, <2>3, <2>4 DEF States, Phases
  <2>6. save' \in Commits
    BY <1>z, <2>3, <2>5 DEF Commits, Types
  <2> QED BY <2>2, <2>3, <2>6
<1>f. DeliveryTypeOK' /\ ResumedOnce' /\ DeliveryIsEarned'
  BY Frames, <1>x, <1>z, <1>s0 DEF OpCommits, OpAt, Admitted, MayStart, Begins, Commit, owner
<1>t. TypeOK'
  <2>save. save' \in Commits \cup {NoSave}
    BY <1>w, <1>x, <1>z, <1>s0, <1>o, ContinuityAssumption
       DEF NoSave, TypeOK, Commits, States, Phases, Types, Papers, Terminal, Resumable, Cores,
           SavesStand, StagesStand, StageUnderWay, Stages, Heard
  <2>space. space' \in {"none", "open", "revoked"}
    BY <1>w, <1>x, <1>z, <1>s0 DEF OpCommits, TypeOK
  <2> QED BY <1>w, <1>o, <1>b0, <1>x, <1>z, <1>s0, <2>save, <2>space DEF TypeOK, Stages, Names
<1>d. PausedIsDrained'
  BY <1>j, <1>o, <1>h, <1>i, <1>x, <1>z, <1>s0 DEF NoSave, PausedIsDrained
<1>b. BudgetKept'
  BY <1>j, <1>o, <1>h, <1>i, <1>x, <1>z, <1>s0, ContinuityAssumption DEF NoSave, BudgetKept
<1>s. SavesStand'
  <2>1. \A who \in {"op", "control", "stop", "delivery"} : Waits(who)' <=> save'.at # "none" /\
          save'.for = who
    BY <1>j, <1>o, <1>h, <1>i, <1>x, <1>z, <1>s0
       DEF NoSave, SavesStand, Waits, WhatIsSaved, Begun, Concluded, Recorded
  <2>2. save'.at # "none" => WhatIsSaved'
    BY <1>j, <1>o, <1>h, <1>i, <1>x, <1>z, <1>s0
       DEF NoSave, SavesStand, Waits, WhatIsSaved, Begun, Concluded, Recorded
  <2>3. save'.at # "none" => save'.epoch <= core'.epoch /\ (save'.epoch = core'.epoch /\
          save'.for \in {"op", "delivery"} => mode' = "active")
    BY <1>j, <1>o, <1>h, <1>i, <1>x, <1>z, <1>s0
       DEF NoSave, SavesStand, Waits, WhatIsSaved, Begun, Concluded, Recorded
  <2>4. save'.at \in {"written", "ok"} => journal' # <<>> /\ Len(journal') = save'.next.revision /\
          Last' = save'.type
    BY <1>j, <1>o, <1>h, <1>i, <1>x, <1>z, <1>s0
       DEF NoSave, SavesStand, Waits, WhatIsSaved, Begun, Concluded, Recorded
  <2>5. save'.at = "ok" => state' = save'.next
    BY <1>j, <1>o, <1>h, <1>i, <1>x, <1>z, <1>s0
       DEF NoSave, SavesStand, Waits, WhatIsSaved, Begun, Concluded, Recorded
  <2>6. save'.at \notin {"none", "ok"} =>
            /\ save'.next.revision = state'.revision + 1
            /\ save'.next.attempts = state'.attempts + (IF save'.type = "attempt" THEN 1 ELSE 0)
    BY <1>j, <1>o, <1>h, <1>i, <1>x, <1>z, <1>s0
       DEF NoSave, SavesStand, Waits, WhatIsSaved, Begun, Concluded, Recorded
  <2> QED BY <2>1, <2>2, <2>3, <2>4, <2>5, <2>6 DEF SavesStand
<1>g1. QueueStands'
  BY <1>o, <1>w, <1>x, <1>z, QueueKept DEF StagesStand, OpCommits
<1>g. StagesStand'
  <2>1. StageUnderWay' => ~core'.stopped /\ copy' = "none" /\ stopping'.at \in {"no", "called",
          "stages"}
    BY <1>j, <1>o, <1>h, <1>i, <1>x, <1>z, <1>s0, <1>g1
       DEF NoSave, StagesStand, StageUnderWay, Resumable
  <2>2. StageUnderWay' /\ Op'.at = "closing" => Op'.name = "author" /\ state'.phase \in Resumable /\
          state'.attempts < Budget
    BY <1>j, <1>o, <1>h, <1>i, <1>x, <1>z, <1>s0, <1>g1
       DEF NoSave, StagesStand, StageUnderWay, Resumable
  <2>3. StageUnderWay' /\ Op'.at = "saving" /\ save'.at # "ok" =>
            CASE Op'.name = "author" -> state'.phase \in Resumable
              [] Op'.name = "seal" -> state'.phase = "AUTHORING"
              [] Op'.name = "judge" -> state'.phase = "FROZEN"
    BY <1>j, <1>o, <1>h, <1>i, <1>x, <1>z, <1>s0, <1>g1, ZenonT(40)
       DEF NoSave, StagesStand, StageUnderWay, Resumable
  <2>4. StageUnderWay' /\ (Op'.at = "acting" \/ (Op'.at = "concluding" /\ save'.at # "ok")) =>
            state'.phase \in {"AUTHORING", "REVIEWING"}
    BY <1>j, <1>o, <1>h, <1>i, <1>x, <1>z, <1>s0, <1>g1
       DEF NoSave, StagesStand, StageUnderWay, Resumable
  <2> QED BY <2>1, <2>2, <2>3, <2>4, <1>g1 DEF StagesStand
<1>m. ModesStand'
  BY <1>j, <1>o, <1>h, <1>i, <1>x, <1>z, <1>s0 DEF NoSave, ModesStand, AtRest, Resumable
<1>k1. TurnsStand'
  BY <1>j, <1>o, <1>h, <1>i, <1>x, <1>z, <1>s0, TurnsKept DEF NoSave, OpCommits, ControlsStand
<1>k. ControlsStand'
  BY <1>j, <1>o, <1>h, <1>i, <1>x, <1>z, <1>s0, <1>k1 DEF NoSave, ControlsStand
<1>n. CountsStand'
  <2>1. Unsaved' /\ save'.type = "attempt" => save'.next.attempts = Spent' + 1
    BY <1>j, <1>o, <1>h, <1>i, <1>x, <1>z, <1>s0, ContinuityAssumption
       DEF NoSave, CountsStand, InStep, Unsaved, Terminal, Resumable
  <2>2. save'.at = "written" /\ save'.type = "attempt" => save'.next.attempts = Spent'
    BY <1>j, <1>o, <1>h, <1>i, <1>x, <1>z, <1>s0, ContinuityAssumption
       DEF NoSave, CountsStand, InStep, Unsaved, Terminal, Resumable
  <2>3. InStep' => save'.at # "failed" /\ (save'.at # "none" => save'.epoch = core'.epoch)
    BY <1>j, <1>o, <1>h, <1>i, <1>x, <1>z, <1>s0, ContinuityAssumption
       DEF NoSave, CountsStand, InStep, Unsaved, Terminal, Resumable
  <2>4. InStep' => (save'.at = "written" => Spent' = save'.next.attempts)
    BY <1>j, <1>o, <1>h, <1>i, <1>x, <1>z, <1>s0, ContinuityAssumption
       DEF NoSave, CountsStand, InStep, Unsaved, Terminal, Resumable
  <2>5. InStep' => (save'.at # "written" => state'.revision = Len(journal') /\
          Spent' = state'.attempts)
    BY <1>j, <1>o, <1>h, <1>i, <1>x, <1>z, <1>s0, ContinuityAssumption
       DEF NoSave, CountsStand, InStep, Unsaved, Terminal, Resumable
  <2>6. state'.phase \in Terminal =>
            state'.revision = Len(journal') /\ save'.at \notin {"asked", "appending", "written"}
    BY <1>j, <1>o, <1>h, <1>i, <1>x, <1>z, <1>s0, ContinuityAssumption
       DEF NoSave, CountsStand, InStep, Unsaved, Terminal, Resumable
  <2> QED BY <2>1, <2>2, <2>3, <2>4, <2>5, <2>6 DEF CountsStand
<1>p. PausesStand'
  <2>1. OpenPause' =>
            \/ mode' \in {"paused", "resuming", "blocked", "stopped"}
            \/ mode' = "pausing" /\ controls' # <<>> /\ Turn'.kind = "pause" /\
                 Turn'.at \in {"saving", "after"}
    BY <1>j, <1>o, <1>h, <1>i, <1>x, <1>z, <1>s0 DEF NoSave, PausesStand, Unsaved, Resumable
  <2>2. Unsaved' /\ save'.type = "pause" => ~OpenPause'
    BY <1>j, <1>o, <1>h, <1>i, <1>x, <1>z, <1>s0 DEF NoSave, PausesStand, Unsaved, Resumable
  <2>3. Unsaved' /\ save'.type = "resume" => journal' # <<>> /\ Last' = "pause"
    BY <1>j, <1>o, <1>h, <1>i, <1>x, <1>z, <1>s0 DEF NoSave, PausesStand, Unsaved, Resumable
  <2>4. journal' # <<>> /\ Last' = "resume" =>
            /\ state'.phase \in Resumable
            /\ (Unsaved' => save'.type \in {"attempt", "pause", "STOPPED"})
    BY <1>j, <1>o, <1>h, <1>i, <1>x, <1>z, <1>s0 DEF NoSave, PausesStand, Unsaved, Resumable
  <2> QED BY <2>1, <2>2, <2>3, <2>4 DEF PausesStand
<1>e. EndStands'
  <2>1. save'.at # "none" /\ save'.type # "STOPPED" => ~OnDisk("STOPPED")'
    BY <1>j, <1>o, <1>h, <1>i, <1>x, <1>z, <1>s0 DEF NoSave, EndStands, Terminal, QueueStands
  <2>2. OnDisk("STOPPED")' /\ state'.phase # "STOPPED" =>
            \/ save'.at = "written" \/ stopping'.failed
            \/ ~core'.stopped /\ state'.phase \notin Terminal /\ state'.revision # Len(journal')
    BY <1>j, <1>o, <1>h, <1>i, <1>x, <1>z, <1>s0 DEF NoSave, EndStands, Terminal, QueueStands
  <2> QED BY <2>1, <2>2 DEF EndStands
<1>y. JobStands'
  <2>1. Unsaved' /\ save'.type = "accepted" => ~OnDisk("accepted")' /\ ~OnDisk("finalized")'
    BY <1>j, <1>o, <1>h, <1>i, <1>x, <1>z, <1>s0 DEF NoSave, JobStands, Unsaved
  <2>2. Unsaved' /\ save'.type = "finalized" => ~OnDisk("finalized")'
    BY <1>j, <1>o, <1>h, <1>i, <1>x, <1>z, <1>s0 DEF NoSave, JobStands, Unsaved
  <2>3. Unsaved' /\ save'.type = "reserved" => journal' # <<>> /\ Last' = "finalized"
    BY <1>j, <1>o, <1>h, <1>i, <1>x, <1>z, <1>s0 DEF NoSave, JobStands, Unsaved
  <2>4. Unsaved' /\ save'.type = "completed" => OnDisk("reserved")' /\ ~OnDisk("completed")'
    BY <1>j, <1>o, <1>h, <1>i, <1>x, <1>z, <1>s0 DEF NoSave, JobStands, Unsaved
  <2>5. phase' = "none" => output' = "absent" /\ copy' = "none" /\ ~OnDisk("reserved")' /\
          ~OnDisk("completed")'
    BY <1>j, <1>o, <1>h, <1>i, <1>x, <1>z, <1>s0 DEF NoSave, JobStands, Unsaved
  <2>6. job'.at \notin {"none", "asked"} =>
            IF job'.kind = "export" THEN phase' = "reserved" /\ consumed' ELSE phase' = "none"
    BY <1>j, <1>o, <1>h, <1>i, <1>x, <1>z, <1>s0 DEF NoSave, JobStands, Unsaved
  <2>7. job'.at \in {"copying", "copied", "completing", "rereading", "marking", "marked"} =>
            job'.kind = "export" /\ OnDisk("reserved")'
    BY <1>j, <1>o, <1>h, <1>i, <1>x, <1>z, <1>s0 DEF NoSave, JobStands, Unsaved
  <2>8. job'.kind = "export" /\ job'.at = "reading" => OnDisk("reserved")'
    BY <1>j, <1>o, <1>h, <1>i, <1>x, <1>z, <1>s0 DEF NoSave, JobStands, Unsaved
  <2>9. job'.at \in {"copied", "completing"} => output' = "payload"
    BY <1>j, <1>o, <1>h, <1>i, <1>x, <1>z, <1>s0 DEF NoSave, JobStands, Unsaved
  <2>10. job'.at \in {"rereading", "marking"} => OnDisk("completed")'
    BY <1>j, <1>o, <1>h, <1>i, <1>x, <1>z, <1>s0 DEF NoSave, JobStands, Unsaved
  <2>11. job'.at = "marked" => output' = "marked"
    BY <1>j, <1>o, <1>h, <1>i, <1>x, <1>z, <1>s0 DEF NoSave, JobStands, Unsaved
  <2>12. phase' = "uncertain" => store'.revoked /\ job' = NoJob /\ save'.at = "none"
    BY <1>j, <1>o, <1>h, <1>i, <1>x, <1>z, <1>s0 DEF NoSave, JobStands, Unsaved
  <2>13. copy' # "none" => state'.phase \in {"DIAGNOSTIC_READY", "STOPPED"}
    BY <1>j, <1>o, <1>h, <1>i, <1>x, <1>z, <1>s0 DEF NoSave, JobStands, Unsaved
  <2>14. state'.phase = "DIAGNOSTIC_READY" => journal' # <<>>
    BY <1>j, <1>o, <1>h, <1>i, <1>x, <1>z, <1>s0 DEF NoSave, JobStands, Unsaved
  <2> QED BY <2>1, <2>2, <2>3, <2>4, <2>5, <2>6, <2>7, <2>8, <2>9, <2>10, <2>11, <2>12, <2>13, <2>14
             DEF JobStands
<1> QED BY <1>f, <1>t, <1>d, <1>b, <1>s, <1>g, <1>m, <1>k, <1>n, <1>p, <1>e, <1>y

(* A stage that cannot close the workspace ends before it saves anything. *)
LEMMA OpCloseFailsStands ==
  ASSUME Inv, OpCloseFails, UNCHANGED deliveryVars
  PROVE  Inv'
<1> USE DEF Inv, DeliveryStands, SameOnDisk, deliveryVars, Owned
<1>j. SameOnDisk
  BY JournalStays DEF OpCloseFails, OpAt, owner, disk
<1>o. /\ ~StageUnderWay' /\ ops # <<>>
         /\ ops' \in Seq(Stages) /\ Op \in Stages /\ Op = ops[1] /\ 1 \in DOMAIN ops
         /\ \A n \in DOMAIN ops' : n + 1 \in DOMAIN ops /\ n + 1 > 1 /\ ops'[n] = ops[n + 1]
         /\ (ops' # <<>> => Op' = ops[2] /\ 2 \in DOMAIN ops)
  BY DoneMeans DEF StagesStand, OpCloseFails, OpAt, owner, disk
<1>h. controls' = controls /\ Turn' = Turn
  BY DEF Op, Turn, Waits, Tracked, StageUnderWay, OpCloseFails, OpAt, owner, disk
<1>b0. custody' \in BOOLEAN
  BY DEF TypeOK, OpCloseFails, OpAt, owner, disk
<1>i. StageUnderWay => ops # <<>> /\ Tracked # {} /\ ~Idle
  BY UnderWay
<1>w. TypeOK /\ DeliveryTypeOK
  BY DEF DeliveryIsEarned
<1>x. /\ Op.at = "closing"
      /\ UNCHANGED <<mode, permitted, checkpoint, controls, stopping, qualifying, core, actor,
           author, state, save, journal, store>> /\ UNCHANGED deliveryVars
  BY DEF OpCloseFails, OpAt, owner, disk
<1>z. /\ save.at = "none" /\ job = NoJob /\ (controls # <<>> => Turn.at = "queued") /\
           copy = "none" /\ ~core.stopped
      /\ stopping.at \notin {"controls", "closing", "saving"} /\ mode \in {"active", "stopped"}
  BY <1>x, <1>o, StageGoesOn DEF StagesStand, StageUnderWay
<1>f. DeliveryTypeOK' /\ BudgetKept' /\ ResumedOnce' /\ CountsStand' /\ PausesStand' /\
        EndStands' /\ JobStands' /\ DeliveryIsEarned'
  BY Frames, <1>x, <1>z DEF OpCloseFails, OpAt, owner, disk
<1>t. TypeOK'
  <2>faults. faults' \in 0 .. MaxFaults
    BY <1>w, <1>x, <1>z, ContinuityAssumption DEF OpCloseFails, OpAt, owner, disk, TypeOK, Stores
  <2>space. space' \in {"none", "open", "revoked"}
    BY <1>w, <1>x, <1>z DEF OpCloseFails, TypeOK
  <2> QED BY <1>w, <1>o, <1>b0, <1>x, <1>z, <2>faults, <2>space DEF TypeOK, Stages, Names
<1>d. PausedIsDrained'
  BY <1>j, <1>o, <1>h, <1>i, <1>x, <1>z DEF PausedIsDrained
<1>s. SavesStand'
  <2>1. \A who \in {"op", "control", "stop", "delivery"} : Waits(who)' <=> save'.at # "none" /\
          save'.for = who
    BY <1>j, <1>o, <1>h, <1>i, <1>x, <1>z
       DEF TypeOK, SavesStand, WhatIsSaved, Begun, Concluded, Recorded, Waits, ModesStand,
           ControlsStand, StagesStand, StageUnderWay, Unsaved, Commits, States, AtRest, Stages,
           Turns
  <2>2. save'.at # "none" => WhatIsSaved'
    BY <1>j, <1>o, <1>h, <1>i, <1>x, <1>z
       DEF TypeOK, SavesStand, WhatIsSaved, Begun, Concluded, Recorded, Waits, ModesStand,
           ControlsStand, StagesStand, StageUnderWay, Unsaved, Commits, States, AtRest, Stages,
           Turns
  <2>3. save'.at # "none" => save'.epoch <= core'.epoch /\ (save'.epoch = core'.epoch /\
          save'.for \in {"op", "delivery"} => mode' = "active")
    BY <1>j, <1>o, <1>h, <1>i, <1>x, <1>z
       DEF TypeOK, SavesStand, WhatIsSaved, Begun, Concluded, Recorded, Waits, ModesStand,
           ControlsStand, StagesStand, StageUnderWay, Unsaved, Commits, States, AtRest, Stages,
           Turns
  <2>4. save'.at \in {"written", "ok"} => journal' # <<>> /\ Len(journal') = save'.next.revision /\
          Last' = save'.type
    BY <1>j, <1>o, <1>h, <1>i, <1>x, <1>z
       DEF TypeOK, SavesStand, WhatIsSaved, Begun, Concluded, Recorded, Waits, ModesStand,
           ControlsStand, StagesStand, StageUnderWay, Unsaved, Commits, States, AtRest, Stages,
           Turns
  <2>5. save'.at = "ok" => state' = save'.next
    BY <1>j, <1>o, <1>h, <1>i, <1>x, <1>z
       DEF TypeOK, SavesStand, WhatIsSaved, Begun, Concluded, Recorded, Waits, ModesStand,
           ControlsStand, StagesStand, StageUnderWay, Unsaved, Commits, States, AtRest, Stages,
           Turns
  <2>6. save'.at \notin {"none", "ok"} =>
            /\ save'.next.revision = state'.revision + 1
            /\ save'.next.attempts = state'.attempts + (IF save'.type = "attempt" THEN 1 ELSE 0)
    BY <1>j, <1>o, <1>h, <1>i, <1>x, <1>z
       DEF TypeOK, SavesStand, WhatIsSaved, Begun, Concluded, Recorded, Waits, ModesStand,
           ControlsStand, StagesStand, StageUnderWay, Unsaved, Commits, States, AtRest, Stages,
           Turns
  <2> QED BY <2>1, <2>2, <2>3, <2>4, <2>5, <2>6 DEF SavesStand
<1>g1. QueueStands'
  BY <1>j, <1>o, <1>h, <1>i, <1>x, <1>z, QueueKept DEF OpCloseFails, StagesStand, TypeOK, Cores
<1>g. StagesStand'
  BY <1>j, <1>o, <1>h, <1>i, <1>x, <1>z, <1>g1 DEF StagesStand, StageUnderWay, Resumable
<1>m. ModesStand'
  BY <1>j, <1>o, <1>h, <1>i, <1>x, <1>z DEF ModesStand, AtRest, Resumable
<1>k1. TurnsStand'
  BY <1>j, <1>o, <1>h, <1>i, <1>x, <1>z, TurnsKept DEF OpCloseFails, ControlsStand
<1>k. ControlsStand'
  BY <1>j, <1>o, <1>h, <1>i, <1>x, <1>z, <1>k1 DEF ControlsStand
<1> QED BY <1>f, <1>t, <1>d, <1>s, <1>g, <1>m, <1>k

(* The first record of a stage is on disk when its actor runs. *)
LEMMA OpProceedsStands ==
  ASSUME Inv, OpProceeds, UNCHANGED deliveryVars
  PROVE  Inv'
<1> USE DEF Inv, DeliveryStands, SameOnDisk, deliveryVars, Owned
<1>j. SameOnDisk
  BY JournalStays DEF OpProceeds, OpAt, Saved, owner
<1>h. controls' = controls /\ Turn' = Turn
  BY DEF Op, Turn, Waits, Tracked, StageUnderWay, OpProceeds, OpAt, Saved, owner
<1>i. StageUnderWay => ops # <<>> /\ Tracked # {} /\ ~Idle
  BY UnderWay
<1>w. TypeOK /\ DeliveryTypeOK
  BY DEF DeliveryIsEarned
<1>x. /\ ops # <<>> /\ Op.at = "saving" /\ save.at = "ok" /\ save.for = "op" /\ save' = NoSave
      /\ \/ To("acting") /\ Op.name \in {"author", "judge"}
         \/ Done /\ Op.name = "seal"
      /\ space' \in {space, "open"} /\ actor' \in {actor, "running"}
      /\ author' \in BOOLEAN /\ custody' \in BOOLEAN
      /\ UNCHANGED <<mode, permitted, checkpoint, controls, stopping, qualifying, core, state,
           journal, store, faults>> /\ UNCHANGED deliveryVars
  <2>1. Op.name \in {"author", "seal", "judge"}
    <3>1. ops \in Seq(Stages) /\ ops # <<>>
      BY <1>w DEF OpProceeds, OpAt, TypeOK
    <3>2. Op \in Stages
      BY <3>1 DEF Op
    <3> QED BY <3>2 DEF Stages, Names
  <2>2. author' \in BOOLEAN /\ custody' \in BOOLEAN
    <3>1. CASE Op.name = "author"
      BY <1>w, <3>1 DEF OpProceeds, TypeOK
    <3>2. CASE Op.name = "seal"
      BY <1>w, <3>2 DEF OpProceeds, TypeOK
    <3>3. CASE Op.name = "judge"
      BY <1>w, <3>3 DEF OpProceeds, TypeOK
    <3> QED BY <2>1, <3>1, <3>2, <3>3
  <2> QED BY <1>w, <2>1, <2>2 DEF OpProceeds, OpAt, Saved, TypeOK, owner
<1>z. /\ job = NoJob /\ stopping.at \in {"no", "called", "stages"} /\ ~core.stopped /\ copy = "none"
      /\ mode \in {"active", "stopped"} /\ (controls # <<>> => Turn.at = "queued")
      /\ state = save.next /\ state.revision = Len(journal) /\ <<Op.name, save.type,
           state.phase>> \in Begun
      /\ (\A n \in DOMAIN controls : controls[n].kind # "pause")
  <2>1. save.at # "none" /\ 1 \in DOMAIN ops
    BY <1>w, <1>x DEF TypeOK
  <2>2. /\ job = NoJob /\ stopping.at \in {"no", "called", "stages"} /\ ~core.stopped /\
             copy = "none"
        /\ mode \in {"active", "stopped"} /\ (controls # <<>> => Turn.at = "queued") /\
             save.next.revision = Len(journal)
    BY <1>x, <2>1, WhoWaits, WhatTheySave
  <2>3. state = save.next /\ <<Op.name, save.type, save.next.phase>> \in Begun
    BY <1>x, <2>1 DEF SavesStand, WhatIsSaved
  <2>4. \A n \in DOMAIN controls : controls[n].kind # "pause"
    BY <1>x DEF ControlsStand, TurnsStand
  <2> QED BY <2>2, <2>3, <2>4
<1>o. /\ ops' \in Seq(Stages) /\ QueueStands'
      /\ (ops' # <<>> => Op'.at \in {"launched", "queued", "acting"})
      /\ (ops' # <<>> /\ Op'.at = "acting" => state.phase \in {"AUTHORING", "REVIEWING"})
  <2>1. QueueStands
    BY DEF StagesStand
  <2>2. CASE To("acting") /\ Op.name \in {"author", "judge"}
    <3>1. ops' \in Seq(Stages) /\ Op'.at = "acting"
      BY <1>w, <1>x, <2>2, ToMeans DEF Stages
    <3>2. QueueStands'
      BY <1>w, <1>x, <2>1, <2>2, QueueKept DEF TypeOK, Cores
    <3> QED BY <1>z, <2>2, <3>1, <3>2 DEF Begun
  <2>3. CASE Done /\ Op.name = "seal"
    <3>1. ops' \in Seq(Stages) /\ ~StageUnderWay'
      BY <1>w, <1>x, <2>1, <2>3, DoneMeans
    <3>2. QueueStands'
      BY <1>w, <1>x, <2>1, <2>3, QueueKept DEF TypeOK, Cores
    <3> QED BY <3>1, <3>2 DEF StageUnderWay
  <2> QED BY <1>x, <2>2, <2>3
<1>f. DeliveryTypeOK' /\ ResumedOnce' /\ DeliveryIsEarned'
  BY Frames, <1>x, <1>z, <1>o DEF OpProceeds, OpAt, Saved, owner
<1>t. TypeOK'
  <2>save. save' \in Commits \cup {NoSave}
    BY <1>w, <1>x, <1>z, <1>o, <1>o, ContinuityAssumption
       DEF NoSave, TypeOK, Commits, States, Phases, Types, Papers, Terminal, Resumable, Cores
  <2>space. space' \in {"none", "open", "revoked"}
    BY <1>w, <1>x, <1>z, <1>o DEF OpProceeds, TypeOK
  <2>actor. actor' \in {"none", "running", "completed", "failed"}
    BY <1>w, <1>x, <1>z, <1>o DEF NoSave, TypeOK
  <2> QED BY <1>w, <1>o, <1>x, <1>z, <1>o, <2>save, <2>space, <2>actor DEF TypeOK, Stages, Names
<1>d. PausedIsDrained'
  BY <1>j, <1>h, <1>i, <1>x, <1>z, <1>o DEF NoSave, PausedIsDrained
<1>b. BudgetKept'
  BY <1>j, <1>h, <1>i, <1>x, <1>z, <1>o, ContinuityAssumption
     DEF NoSave, BudgetKept, TypeOK, CountsStand, InStep, SavesStand, ModesStand, Commits, States
<1>s. SavesStand'
  <2>1. \A who \in {"op", "control", "stop", "delivery"} : Waits(who)' <=> save'.at # "none" /\
          save'.for = who
    BY <1>j, <1>h, <1>i, <1>x, <1>z, <1>o
       DEF NoSave, SavesStand, Waits, WhatIsSaved, Begun, Concluded, Recorded
  <2>2. save'.at # "none" => WhatIsSaved'
    BY <1>j, <1>h, <1>i, <1>x, <1>z, <1>o
       DEF NoSave, SavesStand, Waits, WhatIsSaved, Begun, Concluded, Recorded
  <2>3. save'.at # "none" => save'.epoch <= core'.epoch /\ (save'.epoch = core'.epoch /\
          save'.for \in {"op", "delivery"} => mode' = "active")
    BY <1>j, <1>h, <1>i, <1>x, <1>z, <1>o
       DEF NoSave, SavesStand, Waits, WhatIsSaved, Begun, Concluded, Recorded
  <2>4. save'.at \in {"written", "ok"} => journal' # <<>> /\ Len(journal') = save'.next.revision /\
          Last' = save'.type
    BY <1>j, <1>h, <1>i, <1>x, <1>z, <1>o
       DEF NoSave, SavesStand, Waits, WhatIsSaved, Begun, Concluded, Recorded
  <2>5. save'.at = "ok" => state' = save'.next
    BY <1>j, <1>h, <1>i, <1>x, <1>z, <1>o
       DEF NoSave, SavesStand, Waits, WhatIsSaved, Begun, Concluded, Recorded
  <2>6. save'.at \notin {"none", "ok"} =>
            /\ save'.next.revision = state'.revision + 1
            /\ save'.next.attempts = state'.attempts + (IF save'.type = "attempt" THEN 1 ELSE 0)
    BY <1>j, <1>h, <1>i, <1>x, <1>z, <1>o
       DEF NoSave, SavesStand, Waits, WhatIsSaved, Begun, Concluded, Recorded
  <2> QED BY <2>1, <2>2, <2>3, <2>4, <2>5, <2>6 DEF SavesStand
<1>g1. QueueStands'
  BY <1>o
<1>g. StagesStand'
  <2>1. StageUnderWay' => ~core'.stopped /\ copy' = "none" /\ stopping'.at \in {"no", "called",
          "stages"}
    BY <1>j, <1>h, <1>i, <1>x, <1>z, <1>o, <1>g1 DEF NoSave, StagesStand, StageUnderWay, Resumable
  <2>2. StageUnderWay' /\ Op'.at = "closing" => Op'.name = "author" /\ state'.phase \in Resumable /\
          state'.attempts < Budget
    BY <1>j, <1>h, <1>i, <1>x, <1>z, <1>o, <1>g1 DEF NoSave, StagesStand, StageUnderWay, Resumable
  <2>3. StageUnderWay' /\ Op'.at = "saving" /\ save'.at # "ok" =>
            CASE Op'.name = "author" -> state'.phase \in Resumable
              [] Op'.name = "seal" -> state'.phase = "AUTHORING"
              [] Op'.name = "judge" -> state'.phase = "FROZEN"
    BY <1>j, <1>h, <1>i, <1>x, <1>z, <1>o, <1>g1 DEF NoSave, StagesStand, StageUnderWay, Resumable
  <2>4. StageUnderWay' /\ (Op'.at = "acting" \/ (Op'.at = "concluding" /\ save'.at # "ok")) =>
            state'.phase \in {"AUTHORING", "REVIEWING"}
    BY <1>j, <1>h, <1>i, <1>x, <1>z, <1>o, <1>g1 DEF NoSave, StagesStand, StageUnderWay, Resumable
  <2> QED BY <2>1, <2>2, <2>3, <2>4, <1>g1 DEF StagesStand
<1>m. ModesStand'
  BY <1>j, <1>h, <1>i, <1>x, <1>z, <1>o DEF NoSave, ModesStand, AtRest, Resumable
<1>k1. TurnsStand'
  BY <1>j, <1>h, <1>i, <1>x, <1>z, <1>o, TurnsKept DEF NoSave, OpProceeds, ControlsStand
<1>k. ControlsStand'
  BY <1>j, <1>h, <1>i, <1>x, <1>z, <1>o, <1>k1 DEF NoSave, ControlsStand
<1>n. CountsStand'
  BY <1>j, <1>h, <1>i, <1>x, <1>z, <1>o, ContinuityAssumption
     DEF NoSave, CountsStand, InStep, Unsaved, Terminal, Resumable
<1>p. PausesStand'
  BY <1>j, <1>h, <1>i, <1>x, <1>z, <1>o DEF NoSave, PausesStand, Unsaved, Resumable
<1>e. EndStands'
  BY <1>j, <1>h, <1>i, <1>x, <1>z, <1>o DEF NoSave, EndStands, Terminal, QueueStands
<1>y. JobStands'
  BY <1>j, <1>h, <1>i, <1>x, <1>z, <1>o DEF NoSave, JobStands, Unsaved
<1> QED BY <1>f, <1>t, <1>d, <1>b, <1>s, <1>g, <1>m, <1>k, <1>n, <1>p, <1>e, <1>y

(* A stage whose first record failed ends, and nobody waits for the record any more. *)
LEMMA OpFailsStands ==
  ASSUME Inv, OpFails, UNCHANGED deliveryVars
  PROVE  Inv'
<1> USE DEF Inv, DeliveryStands, SameOnDisk, deliveryVars, Owned
<1>j. SameOnDisk
  BY JournalStays DEF OpFails, OpAt, Saved, Answered, SealStops, RevokedSpace, owner
<1>o. /\ ~StageUnderWay' /\ ops # <<>>
         /\ ops' \in Seq(Stages) /\ Op \in Stages /\ Op = ops[1] /\ 1 \in DOMAIN ops
         /\ \A n \in DOMAIN ops' : n + 1 \in DOMAIN ops /\ n + 1 > 1 /\ ops'[n] = ops[n + 1]
         /\ (ops' # <<>> => Op' = ops[2] /\ 2 \in DOMAIN ops)
  BY DoneMeans DEF StagesStand, OpFails, OpAt, Saved, Answered, SealStops, RevokedSpace, owner
<1>h. controls' = controls /\ Turn' = Turn
  BY
     DEF Op, Turn, Waits, Tracked, StageUnderWay, OpFails, OpAt, Saved, Answered, SealStops,
         RevokedSpace, owner
<1>b0. author' \in BOOLEAN /\ custody' \in BOOLEAN
  BY DEF TypeOK, OpFails, OpAt, Saved, Answered, SealStops, RevokedSpace, owner
<1>i. StageUnderWay => ops # <<>> /\ Tracked # {} /\ ~Idle
  BY UnderWay
<1>w. TypeOK /\ DeliveryTypeOK
  BY DEF DeliveryIsEarned
<1>ep. /\ core' \in Cores /\ core.epoch \in Nat /\ core'.epoch \in Nat /\ core'.epoch >= core.epoch
          /\ core'.closing = core.closing /\ core'.denied = core.denied
          /\ (core' = core \/ (core'.stopped /\ core'.epoch > core.epoch))
          /\ (UNCHANGED <<core, store, author, custody, space>> \/ (core'.stopped /\
                store'.revoked))
  <2>1. core \in Cores
    BY <1>w DEF TypeOK
  <2>2. UNCHANGED <<core, store, author, custody, space>> \/ SealStops
    BY DEF OpFails
  <2>3. SealStops => store'.revoked /\ core' = IF core.stopped THEN core ELSE CutOff(core)
    BY <1>w DEF TypeOK, Stores, SealStops
  <2>4. LET d == CutOff(core)
        IN  /\ d \in Cores /\ d.epoch \in Nat /\ core.epoch \in Nat /\ d.epoch > core.epoch
            /\ d.stopped /\ d.denied = core.denied /\ d.closing = core.closing
    BY <2>1, CoreStopped
  <2> QED BY <2>1, <2>2, <2>3, <2>4
<1>f. DeliveryTypeOK' /\ ResumedOnce' /\ DeliveryIsEarned'
  BY Frames DEF OpFails, OpAt, Saved, Answered, SealStops, RevokedSpace, owner
<1>t. TypeOK'
  <2>save. save' \in Commits \cup {NoSave}
    BY <1>w, <1>o, ContinuityAssumption
       DEF OpFails, OpAt, Saved, Answered, SealStops, RevokedSpace, owner, TypeOK, NoSave, Commits,
           States, Phases, Types, Papers, Terminal, Resumable, Cores
  <2>store. store' \in Stores
    BY <1>w DEF OpFails, OpAt, Saved, Answered, SealStops, RevokedSpace, owner, TypeOK, Stores
  <2>core. core' \in Cores
    BY <1>ep
  <2>space. space' \in {"none", "open", "revoked"}
    BY <1>w DEF OpFails, SealStops, RevokedSpace, TypeOK
  <2> QED BY <1>w, <1>o, <1>b0, <2>save, <2>store, <2>core, <2>space
             DEF OpFails, OpAt, Saved, Answered, SealStops, RevokedSpace, owner, TypeOK, Stages,
                 Names
<1>d. PausedIsDrained'
  BY <1>j, <1>o, <1>h, <1>i, <1>ep
     DEF OpFails, OpAt, Saved, Answered, SealStops, RevokedSpace, owner, NoSave, PausedIsDrained
<1>b. BudgetKept'
  BY <1>j, <1>o, <1>h, <1>i, <1>ep, ContinuityAssumption
     DEF OpFails, OpAt, Saved, Answered, SealStops, RevokedSpace, owner, Heard, Live, Alive,
         Pending, Idle, NoSave, NoJob, Terminal, Resumable, Tracked, BudgetKept, TypeOK,
         CountsStand, InStep, SavesStand, ModesStand, Commits, States, Cores, Stores
<1>s. SavesStand'
  BY <1>j, <1>o, <1>h, <1>i, <1>ep
     DEF OpFails, OpAt, Saved, Answered, SealStops, RevokedSpace, owner, Heard, Live, Alive,
         Pending, Idle, NoSave, NoJob, Terminal, Resumable, Tracked, TypeOK, SavesStand,
         WhatIsSaved, Begun, Concluded, Recorded, Waits, ModesStand, ControlsStand, StagesStand,
         StageUnderWay, Unsaved, Commits, States, AtRest, Stages, Turns, Cores, Stores
<1>g1. QueueStands'
  BY <1>j, <1>o, <1>h, <1>i, <1>ep, QueueKept
     DEF OpFails, OpAt, Saved, Answered, SealStops, RevokedSpace, owner, StagesStand, TypeOK, Cores
<1>g. StagesStand'
  BY <1>j, <1>o, <1>h, <1>i, <1>ep, <1>g1
     DEF OpFails, OpAt, Saved, Answered, SealStops, RevokedSpace, owner, NoSave, StagesStand,
         StageUnderWay, Resumable
<1>m. ModesStand'
  BY <1>j, <1>o, <1>h, <1>i, <1>ep
     DEF OpFails, OpAt, Saved, Answered, SealStops, RevokedSpace, owner, Heard, Live, Alive,
         Pending, Idle, NoSave, NoJob, Terminal, Resumable, Tracked, TypeOK, ModesStand, SavesStand,
         Waits, AtRest, StagesStand, StageUnderWay, ControlsStand, Commits, States, Cores, Stores
<1>k1. TurnsStand'
  BY <1>j, <1>o, <1>h, <1>i, <1>ep, TurnsKept
     DEF OpFails, OpAt, Saved, Answered, SealStops, RevokedSpace, owner, ControlsStand, ModesStand,
         AtRest
<1>k. ControlsStand'
  BY <1>j, <1>o, <1>h, <1>i, <1>ep, <1>k1
     DEF OpFails, OpAt, Saved, Answered, SealStops, RevokedSpace, owner, NoSave, ControlsStand
<1>n. CountsStand'
  BY <1>j, <1>o, <1>h, <1>i, <1>ep, ContinuityAssumption
     DEF OpFails, OpAt, Saved, Answered, SealStops, RevokedSpace, owner, NoSave, CountsStand,
         InStep, Unsaved, Terminal, Resumable
<1>p. PausesStand'
  BY <1>j, <1>o, <1>h, <1>i, <1>ep
     DEF OpFails, OpAt, Saved, Answered, SealStops, RevokedSpace, owner, NoSave, PausesStand,
         Unsaved, Resumable
<1>e. EndStands'
  BY <1>j, <1>o, <1>h, <1>i, <1>ep
     DEF OpFails, OpAt, Saved, Answered, SealStops, RevokedSpace, owner, Heard, Live, Alive,
         Pending, Idle, NoSave, NoJob, Terminal, Resumable, Tracked, TypeOK, EndStands, CountsStand,
         InStep, ModesStand, AtRest, StagesStand, StageUnderWay, SavesStand, Waits, WhatIsSaved,
         Begun, Concluded, Recorded, Unsaved, Commits, States, Stages, QueueStands, Cores, Stores
<1>y. JobStands'
  BY <1>j, <1>o, <1>h, <1>i, <1>ep
     DEF OpFails, OpAt, Saved, Answered, SealStops, RevokedSpace, owner, NoSave, JobStands, Unsaved
<1> QED BY <1>f, <1>t, <1>d, <1>b, <1>s, <1>g, <1>m, <1>k, <1>n, <1>p, <1>e, <1>y

(* An actor ends while its stage is under way. *)
LEMMA ActorEndsStands ==
  ASSUME Inv, ActorEnds, UNCHANGED deliveryVars
  PROVE  Inv'
<1> USE DEF Inv, deliveryVars, SameQueues
<1>j. SameOnDisk
  BY JournalStays DEF ActorEnds, owner, disk
<1>h. SameQueues /\ (\A who : Waits(who)' <=> Waits(who))
  BY DEF Op, Turn, Waits, Tracked, StageUnderWay, ActorEnds, owner, disk
<1>i. StageUnderWay => ops # <<>> /\ Tracked # {} /\ ~Idle
  BY UnderWay
<1>w. TypeOK /\ DeliveryTypeOK
  BY DEF DeliveryIsEarned
<1>f. DeliveryTypeOK' /\ BudgetKept' /\ ResumedOnce' /\ SavesStand' /\ QueueStands' /\
        StagesStand' /\ TurnsStand' /\ ControlsStand' /\ CountsStand' /\ PausesStand' /\
        EndStands' /\ JobStands' /\ DeliveryIsEarned'
  BY Frames DEF ActorEnds, owner, disk
<1>t. TypeOK'
  <2>actor. actor' \in {"none", "running", "completed", "failed"}
    BY <1>w DEF ActorEnds, owner, disk, TypeOK
  <2> QED BY <1>w, <2>actor DEF ActorEnds, owner, disk, TypeOK
<1>d. PausedIsDrained'
  BY <1>j, <1>h, <1>i DEF SameOnDisk, DeliveryStands, ActorEnds, owner, disk, Owned, PausedIsDrained
<1>m. ModesStand'
  BY <1>j, <1>h, <1>i
     DEF SameOnDisk, DeliveryStands, ActorEnds, owner, disk, Owned, ModesStand, AtRest, Resumable
<1> QED BY <1>f, <1>t, <1>d, <1>m DEF DeliveryStands

(* The last record of a stage is asked for in the phase that its first record has left. *)
LEMMA OpConcludesStands ==
  ASSUME Inv, OpConcludes, UNCHANGED deliveryVars
  PROVE  Inv'
<1> USE DEF Inv, DeliveryStands, SameOnDisk, deliveryVars, Owned
<1>j. SameOnDisk
  BY JournalStays DEF OpConcludes, OpAt, Commit, Outcomes, Corrected, owner
<1>h. controls' = controls /\ Turn' = Turn
  BY
     DEF Op, Turn, Waits, Tracked, StageUnderWay, OpConcludes, OpAt, Commit, Outcomes, Corrected,
         owner
<1>b0. author' \in BOOLEAN
  BY DEF TypeOK, OpConcludes, OpAt, Commit, Outcomes, Corrected, owner
<1>i. StageUnderWay => ops # <<>> /\ Tracked # {} /\ ~Idle
  BY UnderWay
<1>w. TypeOK /\ DeliveryTypeOK
  BY DEF DeliveryIsEarned
<1>x. /\ ops # <<>> /\ Op.at = "acting" /\ Live(Op.epoch) /\ actor' = "none"
      /\ \/ author' /\ Done /\ save' = save
         \/ To("concluding") /\ author' = author /\ \E end \in Outcomes : Commit("op", end[1],
              end[2], state.attempts, Op.epoch)
      /\ UNCHANGED <<mode, permitted, checkpoint, controls, stopping, qualifying, core, space,
           custody, state, journal, store, faults>> /\ UNCHANGED deliveryVars
  BY <1>w, <1>b0 DEF OpConcludes, OpAt, TypeOK, owner
<1>o0. Op = ops[1] /\ 1 \in DOMAIN ops /\ Op \in Stages
  BY <1>w, <1>x DEF TypeOK, Op
<1>z. /\ mode = "active" /\ ~core.stopped /\ Owned /\ stopping.at = "no" /\ ~stopping.failed /\
           job = NoJob
      /\ save = NoSave /\ save.at = "none" /\ (controls # <<>> => Turn.at = "queued") /\
           core.epoch = Op.epoch /\ core.epoch \in Nat
      /\ (\A n \in DOMAIN controls : controls[n].kind # "pause") /\ ~OpenPause
      /\ state.revision = Len(journal) /\ Spent = state.attempts /\ state \in States
      /\ state.phase \in {"AUTHORING", "REVIEWING"} /\ ~OnDisk("STOPPED") /\ copy = "none" /\
           Op.epoch \in Nat
  <2>l. Op.at \notin {"launched", "saving", "concluding"} /\ Live(Op.epoch)
    BY <1>x
  <2>m. /\ mode = "active" /\ ~core.stopped /\ Owned /\ stopping.at = "no" /\ ~stopping.failed /\
             job = NoJob
        /\ save.at = "none" /\ (controls # <<>> => Turn.at = "queued") /\ core.epoch = Op.epoch
        /\ state.revision = Len(journal) /\ Spent = state.attempts /\ (OnDisk("STOPPED") =>
             state.phase = "STOPPED")
    BY <1>x, <2>l, StageGoesOn, LivesInStep DEF Live
  <2>n. /\ save = NoSave /\ (\A n \in DOMAIN controls : controls[n].kind # "pause") /\ ~OpenPause
        /\ core.epoch \in Nat /\ state \in States
    BY <1>w, <2>m DEF TypeOK, Commits, Cores, ControlsStand, TurnsStand, ResumedOnce
  <2>1. state.phase \in {"AUTHORING", "REVIEWING"}
    BY <1>x DEF StagesStand, StageUnderWay
  <2>2. ~OnDisk("STOPPED") /\ copy = "none" /\ Op.epoch \in Nat
    BY <1>o0, <2>1, <2>m DEF Stages, JobStands
  <2> QED BY <2>m, <2>n, <2>1, <2>2
<1>o. /\ ops' \in Seq(Stages) /\ QueueStands'
      /\ \/ (ops' # <<>> => Op'.at \in {"launched", "queued"}) /\ save' = save
         \/ ops' # <<>> /\ Op'.at = "concluding" /\ Op'.epoch = Op.epoch
              /\ \E end \in Outcomes : Commit("op", end[1], end[2], state.attempts, Op.epoch)
  <2>1. QueueStands
    BY DEF StagesStand
  <2>2. CASE To("concluding") /\ \E end \in Outcomes : Commit("op", end[1], end[2], state.attempts,
          Op.epoch)
    <3>1. ops' \in Seq(Stages) /\ ops' # <<>> /\ Op'.at = "concluding" /\ Op'.epoch = Op.epoch
      BY <1>w, <1>x, <2>2, ToMeans DEF Stages
    <3>2. QueueStands'
      BY <1>w, <1>x, <1>z, <2>1, <2>2, QueueKept
    <3> QED BY <2>2, <3>1, <3>2
  <2>3. CASE Done /\ save' = save
    <3>1. ops' \in Seq(Stages) /\ ~StageUnderWay'
      BY <1>w, <1>x, <2>1, <2>3, DoneMeans
    <3>2. QueueStands'
      BY <1>w, <1>x, <1>z, <2>1, <2>3, QueueKept
    <3> QED BY <2>3, <3>1, <3>2 DEF StageUnderWay
  <2> QED BY <1>x, <2>2, <2>3
<1>s0. \/ save' = NoSave /\ (ops' # <<>> => Op'.at \in {"launched", "queued"})
       \/ /\ ops' # <<>> /\ Op'.at = "concluding" /\ Op'.epoch = Op.epoch
          /\ save' \in Commits /\ save'.at = "asked" /\ save'.for = "op" /\ save'.epoch = Op.epoch
          /\ save'.next.attempts = state.attempts /\ save'.next.attempts = state.attempts + 0
          /\ save'.next.revision = state.revision + 1
          /\ <<save'.type, save'.next.phase>> \in Concluded /\ save'.type \in {"result", "ready",
               "STOPPED"}
  <2>1. SUFFICES ASSUME NEW end \in Outcomes, Commit("op", end[1], end[2], state.attempts, Op.epoch)
                 PROVE  /\ save' \in Commits /\ save'.at = "asked" /\ save'.for = "op" /\
                             save'.epoch = Op.epoch
                        /\ save'.next.attempts = state.attempts /\
                             save'.next.attempts = state.attempts + 0
                        /\ save'.next.revision = state.revision + 1
                        /\ <<save'.type, save'.next.phase>> \in Concluded /\
                             save'.type \in {"result", "ready", "STOPPED"}
    BY <1>o, <1>z
  <2>2. end \in Concluded
    BY <2>1 DEF Outcomes, Corrected, Concluded
  <2>3. /\ save' = [at |-> "asked", for |-> "op", type |-> end[1], epoch |-> Op.epoch,
             next |-> save'.next]
        /\ save'.at = "asked" /\ save'.for = "op" /\ save'.type = end[1] /\ save'.epoch = Op.epoch
        /\ save'.next = [phase |-> end[2], attempts |-> state.attempts,
             revision |-> state.revision + 1]
    BY <2>1 DEF Commit
  <2>4. state.attempts \in 0 .. Budget /\ state.attempts + 0 = state.attempts /\
          state.revision + 1 \in Nat
    BY <1>z, ContinuityAssumption DEF States
  <2>5. end = <<end[1], end[2]>> /\ end[1] \in {"result", "ready", "STOPPED"} /\ end[2] \in Phases
    BY <2>2 DEF Concluded, Phases, Terminal, Resumable
  <2>6. save'.next \in States
    BY <2>3, <2>4, <2>5 DEF States
  <2>7. save' \in Commits
    BY <1>z, <2>3, <2>5, <2>6 DEF Commits, Types
  <2> QED BY <2>2, <2>3, <2>4, <2>5, <2>7
<1>f. DeliveryTypeOK' /\ ResumedOnce' /\ DeliveryIsEarned'
  BY Frames, <1>x, <1>z, <1>o, <1>s0 DEF OpConcludes, OpAt, Commit, Outcomes, Corrected, owner
<1>t. TypeOK'
  <2>save. save' \in Commits \cup {NoSave}
    BY <1>w, <1>x, <1>z, <1>o, <1>s0, <1>o, ContinuityAssumption
       DEF NoSave, TypeOK, Commits, States, Phases, Types, Papers, Terminal, Resumable, Cores,
           SavesStand, StagesStand, StageUnderWay, Stages, Heard
  <2>actor. actor' \in {"none", "running", "completed", "failed"}
    BY <1>w, <1>x, <1>z, <1>o, <1>s0 DEF NoSave, TypeOK
  <2> QED BY <1>w, <1>o, <1>b0, <1>x, <1>z, <1>o, <1>s0, <2>save, <2>actor DEF TypeOK, Stages, Names
<1>d. PausedIsDrained'
  BY <1>j, <1>h, <1>i, <1>x, <1>z, <1>o, <1>s0 DEF NoSave, PausedIsDrained
<1>b. BudgetKept'
  BY <1>j, <1>h, <1>i, <1>x, <1>z, <1>o, <1>s0, ContinuityAssumption DEF NoSave, BudgetKept
<1>s. SavesStand'
  <2>1. \A who \in {"op", "control", "stop", "delivery"} : Waits(who)' <=> save'.at # "none" /\
          save'.for = who
    BY <1>j, <1>h, <1>i, <1>x, <1>z, <1>o, <1>s0
       DEF NoSave, SavesStand, Waits, WhatIsSaved, Begun, Concluded, Recorded
  <2>2. save'.at # "none" => WhatIsSaved'
    BY <1>j, <1>h, <1>i, <1>x, <1>z, <1>o, <1>s0
       DEF NoSave, SavesStand, Waits, WhatIsSaved, Begun, Concluded, Recorded
  <2>3. save'.at # "none" => save'.epoch <= core'.epoch /\ (save'.epoch = core'.epoch /\
          save'.for \in {"op", "delivery"} => mode' = "active")
    BY <1>j, <1>h, <1>i, <1>x, <1>z, <1>o, <1>s0
       DEF NoSave, SavesStand, Waits, WhatIsSaved, Begun, Concluded, Recorded
  <2>4. save'.at \in {"written", "ok"} => journal' # <<>> /\ Len(journal') = save'.next.revision /\
          Last' = save'.type
    BY <1>j, <1>h, <1>i, <1>x, <1>z, <1>o, <1>s0
       DEF NoSave, SavesStand, Waits, WhatIsSaved, Begun, Concluded, Recorded
  <2>5. save'.at = "ok" => state' = save'.next
    BY <1>j, <1>h, <1>i, <1>x, <1>z, <1>o, <1>s0
       DEF NoSave, SavesStand, Waits, WhatIsSaved, Begun, Concluded, Recorded
  <2>6. save'.at \notin {"none", "ok"} =>
            /\ save'.next.revision = state'.revision + 1
            /\ save'.next.attempts = state'.attempts + (IF save'.type = "attempt" THEN 1 ELSE 0)
    BY <1>j, <1>h, <1>i, <1>x, <1>z, <1>o, <1>s0
       DEF NoSave, SavesStand, Waits, WhatIsSaved, Begun, Concluded, Recorded
  <2> QED BY <2>1, <2>2, <2>3, <2>4, <2>5, <2>6 DEF SavesStand
<1>g1. QueueStands'
  BY <1>o
<1>g. StagesStand'
  <2>1. StageUnderWay' => ~core'.stopped /\ copy' = "none" /\ stopping'.at \in {"no", "called",
          "stages"}
    BY <1>j, <1>h, <1>i, <1>x, <1>z, <1>o, <1>s0, <1>g1
       DEF NoSave, StagesStand, StageUnderWay, Resumable
  <2>2. StageUnderWay' /\ Op'.at = "closing" => Op'.name = "author" /\ state'.phase \in Resumable /\
          state'.attempts < Budget
    BY <1>j, <1>h, <1>i, <1>x, <1>z, <1>o, <1>s0, <1>g1
       DEF NoSave, StagesStand, StageUnderWay, Resumable
  <2>3. StageUnderWay' /\ Op'.at = "saving" /\ save'.at # "ok" =>
            CASE Op'.name = "author" -> state'.phase \in Resumable
              [] Op'.name = "seal" -> state'.phase = "AUTHORING"
              [] Op'.name = "judge" -> state'.phase = "FROZEN"
    BY <1>j, <1>h, <1>i, <1>x, <1>z, <1>o, <1>s0, <1>g1
       DEF NoSave, StagesStand, StageUnderWay, Resumable
  <2>4. StageUnderWay' /\ (Op'.at = "acting" \/ (Op'.at = "concluding" /\ save'.at # "ok")) =>
            state'.phase \in {"AUTHORING", "REVIEWING"}
    BY <1>j, <1>h, <1>i, <1>x, <1>z, <1>o, <1>s0, <1>g1
       DEF NoSave, StagesStand, StageUnderWay, Resumable
  <2> QED BY <2>1, <2>2, <2>3, <2>4, <1>g1 DEF StagesStand
<1>m. ModesStand'
  BY <1>j, <1>h, <1>i, <1>x, <1>z, <1>o, <1>s0 DEF NoSave, ModesStand, AtRest, Resumable
<1>k1. TurnsStand'
  BY <1>j, <1>h, <1>i, <1>x, <1>z, <1>o, <1>s0, TurnsKept DEF NoSave, OpConcludes, ControlsStand
<1>k. ControlsStand'
  BY <1>j, <1>h, <1>i, <1>x, <1>z, <1>o, <1>s0, <1>k1 DEF NoSave, ControlsStand
<1>n. CountsStand'
  <2>1. Unsaved' /\ save'.type = "attempt" => save'.next.attempts = Spent' + 1
    BY <1>j, <1>h, <1>i, <1>x, <1>z, <1>o, <1>s0, ContinuityAssumption
       DEF NoSave, CountsStand, InStep, Unsaved, Terminal, Resumable
  <2>2. save'.at = "written" /\ save'.type = "attempt" => save'.next.attempts = Spent'
    BY <1>j, <1>h, <1>i, <1>x, <1>z, <1>o, <1>s0, ContinuityAssumption
       DEF NoSave, CountsStand, InStep, Unsaved, Terminal, Resumable
  <2>3. InStep' => save'.at # "failed" /\ (save'.at # "none" => save'.epoch = core'.epoch)
    BY <1>j, <1>h, <1>i, <1>x, <1>z, <1>o, <1>s0, ContinuityAssumption
       DEF NoSave, CountsStand, InStep, Unsaved, Terminal, Resumable
  <2>4. InStep' => (save'.at = "written" => Spent' = save'.next.attempts)
    BY <1>j, <1>h, <1>i, <1>x, <1>z, <1>o, <1>s0, ContinuityAssumption
       DEF NoSave, CountsStand, InStep, Unsaved, Terminal, Resumable
  <2>5. InStep' => (save'.at # "written" => state'.revision = Len(journal') /\
          Spent' = state'.attempts)
    BY <1>j, <1>h, <1>i, <1>x, <1>z, <1>o, <1>s0, ContinuityAssumption
       DEF NoSave, CountsStand, InStep, Unsaved, Terminal, Resumable
  <2>6. state'.phase \in Terminal =>
            state'.revision = Len(journal') /\ save'.at \notin {"asked", "appending", "written"}
    BY <1>j, <1>h, <1>i, <1>x, <1>z, <1>o, <1>s0, ContinuityAssumption
       DEF NoSave, CountsStand, InStep, Unsaved, Terminal, Resumable
  <2> QED BY <2>1, <2>2, <2>3, <2>4, <2>5, <2>6 DEF CountsStand
<1>p. PausesStand'
  <2>1. OpenPause' =>
            \/ mode' \in {"paused", "resuming", "blocked", "stopped"}
            \/ mode' = "pausing" /\ controls' # <<>> /\ Turn'.kind = "pause" /\
                 Turn'.at \in {"saving", "after"}
    BY <1>j, <1>h, <1>i, <1>x, <1>z, <1>o, <1>s0 DEF NoSave, PausesStand, Unsaved, Resumable
  <2>2. Unsaved' /\ save'.type = "pause" => ~OpenPause'
    BY <1>j, <1>h, <1>i, <1>x, <1>z, <1>o, <1>s0 DEF NoSave, PausesStand, Unsaved, Resumable
  <2>3. Unsaved' /\ save'.type = "resume" => journal' # <<>> /\ Last' = "pause"
    BY <1>j, <1>h, <1>i, <1>x, <1>z, <1>o, <1>s0 DEF NoSave, PausesStand, Unsaved, Resumable
  <2>4. journal' # <<>> /\ Last' = "resume" =>
            /\ state'.phase \in Resumable
            /\ (Unsaved' => save'.type \in {"attempt", "pause", "STOPPED"})
    BY <1>j, <1>h, <1>i, <1>x, <1>z, <1>o, <1>s0 DEF NoSave, PausesStand, Unsaved, Resumable
  <2> QED BY <2>1, <2>2, <2>3, <2>4 DEF PausesStand
<1>e. EndStands'
  <2>1. save'.at # "none" /\ save'.type # "STOPPED" => ~OnDisk("STOPPED")'
    BY <1>j, <1>h, <1>i, <1>x, <1>z, <1>o, <1>s0 DEF NoSave, EndStands, Terminal, QueueStands
  <2>2. OnDisk("STOPPED")' /\ state'.phase # "STOPPED" =>
            \/ save'.at = "written" \/ stopping'.failed
            \/ ~core'.stopped /\ state'.phase \notin Terminal /\ state'.revision # Len(journal')
    BY <1>j, <1>h, <1>i, <1>x, <1>z, <1>o, <1>s0 DEF NoSave, EndStands, Terminal, QueueStands
  <2> QED BY <2>1, <2>2 DEF EndStands
<1>y. JobStands'
  BY <1>j, <1>h, <1>i, <1>x, <1>z, <1>o, <1>s0 DEF NoSave, JobStands, Unsaved
<1> QED BY <1>f, <1>t, <1>d, <1>b, <1>s, <1>g, <1>m, <1>k, <1>n, <1>p, <1>e, <1>y

(* A stage whose epoch has ended leaves no record. *)
LEMMA OpOutdatedStands ==
  ASSUME Inv, OpOutdated, UNCHANGED deliveryVars
  PROVE  Inv'
<1> USE DEF Inv, DeliveryStands, SameOnDisk, deliveryVars, Owned
<1>j. SameOnDisk
  BY JournalStays DEF OpOutdated, OpAt, owner, disk
<1>o. /\ ~StageUnderWay' /\ ops # <<>>
         /\ ops' \in Seq(Stages) /\ Op \in Stages /\ Op = ops[1] /\ 1 \in DOMAIN ops
         /\ \A n \in DOMAIN ops' : n + 1 \in DOMAIN ops /\ n + 1 > 1 /\ ops'[n] = ops[n + 1]
         /\ (ops' # <<>> => Op' = ops[2] /\ 2 \in DOMAIN ops)
  BY DoneMeans DEF StagesStand, OpOutdated, OpAt, owner, disk
<1>h. controls' = controls /\ Turn' = Turn
  BY DEF Op, Turn, Waits, Tracked, StageUnderWay, OpOutdated, OpAt, owner, disk
<1>i. StageUnderWay => ops # <<>> /\ Tracked # {} /\ ~Idle
  BY UnderWay
<1>w. TypeOK /\ DeliveryTypeOK
  BY DEF DeliveryIsEarned
<1>x. /\ Op.at = "acting" /\ actor' = "none"
      /\ UNCHANGED <<mode, permitted, checkpoint, controls, stopping, qualifying, core, author,
           space, custody, state, save, journal, store, faults>> /\ UNCHANGED deliveryVars
  BY DEF OpOutdated, OpAt, owner, disk
<1>z. /\ save.at = "none" /\ job = NoJob /\ (controls # <<>> => Turn.at = "queued") /\
           copy = "none" /\ ~core.stopped
      /\ stopping.at \notin {"controls", "closing", "saving"} /\ mode \in {"active", "stopped"}
  BY <1>x, <1>o, StageGoesOn DEF StagesStand, StageUnderWay
<1>f. DeliveryTypeOK' /\ BudgetKept' /\ ResumedOnce' /\ CountsStand' /\ PausesStand' /\
        EndStands' /\ JobStands' /\ DeliveryIsEarned'
  BY Frames, <1>x, <1>z DEF OpOutdated, OpAt, owner, disk
<1>t. TypeOK'
  <2>actor. actor' \in {"none", "running", "completed", "failed"}
    BY <1>w, <1>x, <1>z DEF TypeOK
  <2> QED BY <1>w, <1>o, <1>x, <1>z, <2>actor DEF TypeOK, Stages, Names
<1>d. PausedIsDrained'
  BY <1>j, <1>o, <1>h, <1>i, <1>x, <1>z DEF PausedIsDrained
<1>s. SavesStand'
  <2>1. \A who \in {"op", "control", "stop", "delivery"} : Waits(who)' <=> save'.at # "none" /\
          save'.for = who
    BY <1>j, <1>o, <1>h, <1>i, <1>x, <1>z
       DEF TypeOK, SavesStand, WhatIsSaved, Begun, Concluded, Recorded, Waits, ModesStand,
           ControlsStand, StagesStand, StageUnderWay, Unsaved, Commits, States, AtRest, Stages,
           Turns
  <2>2. save'.at # "none" => WhatIsSaved'
    BY <1>j, <1>o, <1>h, <1>i, <1>x, <1>z
       DEF TypeOK, SavesStand, WhatIsSaved, Begun, Concluded, Recorded, Waits, ModesStand,
           ControlsStand, StagesStand, StageUnderWay, Unsaved, Commits, States, AtRest, Stages,
           Turns
  <2>3. save'.at # "none" => save'.epoch <= core'.epoch /\ (save'.epoch = core'.epoch /\
          save'.for \in {"op", "delivery"} => mode' = "active")
    BY <1>j, <1>o, <1>h, <1>i, <1>x, <1>z
       DEF TypeOK, SavesStand, WhatIsSaved, Begun, Concluded, Recorded, Waits, ModesStand,
           ControlsStand, StagesStand, StageUnderWay, Unsaved, Commits, States, AtRest, Stages,
           Turns
  <2>4. save'.at \in {"written", "ok"} => journal' # <<>> /\ Len(journal') = save'.next.revision /\
          Last' = save'.type
    BY <1>j, <1>o, <1>h, <1>i, <1>x, <1>z
       DEF TypeOK, SavesStand, WhatIsSaved, Begun, Concluded, Recorded, Waits, ModesStand,
           ControlsStand, StagesStand, StageUnderWay, Unsaved, Commits, States, AtRest, Stages,
           Turns
  <2>5. save'.at = "ok" => state' = save'.next
    BY <1>j, <1>o, <1>h, <1>i, <1>x, <1>z
       DEF TypeOK, SavesStand, WhatIsSaved, Begun, Concluded, Recorded, Waits, ModesStand,
           ControlsStand, StagesStand, StageUnderWay, Unsaved, Commits, States, AtRest, Stages,
           Turns
  <2>6. save'.at \notin {"none", "ok"} =>
            /\ save'.next.revision = state'.revision + 1
            /\ save'.next.attempts = state'.attempts + (IF save'.type = "attempt" THEN 1 ELSE 0)
    BY <1>j, <1>o, <1>h, <1>i, <1>x, <1>z
       DEF TypeOK, SavesStand, WhatIsSaved, Begun, Concluded, Recorded, Waits, ModesStand,
           ControlsStand, StagesStand, StageUnderWay, Unsaved, Commits, States, AtRest, Stages,
           Turns
  <2> QED BY <2>1, <2>2, <2>3, <2>4, <2>5, <2>6 DEF SavesStand
<1>g1. QueueStands'
  BY <1>j, <1>o, <1>h, <1>i, <1>x, <1>z, QueueKept DEF OpOutdated, StagesStand, TypeOK, Cores
<1>g. StagesStand'
  BY <1>j, <1>o, <1>h, <1>i, <1>x, <1>z, <1>g1 DEF StagesStand, StageUnderWay, Resumable
<1>m. ModesStand'
  BY <1>j, <1>o, <1>h, <1>i, <1>x, <1>z DEF ModesStand, AtRest, Resumable
<1>k1. TurnsStand'
  BY <1>j, <1>o, <1>h, <1>i, <1>x, <1>z, TurnsKept DEF OpOutdated, ControlsStand
<1>k. ControlsStand'
  BY <1>j, <1>o, <1>h, <1>i, <1>x, <1>z, <1>k1 DEF ControlsStand
<1> QED BY <1>f, <1>t, <1>d, <1>s, <1>g, <1>m, <1>k

(* A stage that has heard of its last record ends. *)
LEMMA OpEndsStands ==
  ASSUME Inv, OpEnds, UNCHANGED deliveryVars
  PROVE  Inv'
<1> USE DEF Inv, DeliveryStands, SameOnDisk, deliveryVars, Owned
<1>j. SameOnDisk
  BY JournalStays DEF OpEnds, OpAt, Answered, RevokedSpace, owner
<1>o. /\ ~StageUnderWay' /\ ops # <<>>
         /\ ops' \in Seq(Stages) /\ Op \in Stages /\ Op = ops[1] /\ 1 \in DOMAIN ops
         /\ \A n \in DOMAIN ops' : n + 1 \in DOMAIN ops /\ n + 1 > 1 /\ ops'[n] = ops[n + 1]
         /\ (ops' # <<>> => Op' = ops[2] /\ 2 \in DOMAIN ops)
  BY DoneMeans DEF StagesStand, OpEnds, OpAt, Answered, RevokedSpace, owner
<1>h. controls' = controls /\ Turn' = Turn
  BY DEF Op, Turn, Waits, Tracked, StageUnderWay, OpEnds, OpAt, Answered, RevokedSpace, owner
<1>b0. custody' \in BOOLEAN
  BY DEF TypeOK, OpEnds, OpAt, Answered, RevokedSpace, owner
<1>i. StageUnderWay => ops # <<>> /\ Tracked # {} /\ ~Idle
  BY UnderWay
<1>w. TypeOK /\ DeliveryTypeOK
  BY DEF DeliveryIsEarned
<1>f. DeliveryTypeOK' /\ ResumedOnce' /\ DeliveryIsEarned'
  BY Frames DEF OpEnds, OpAt, Answered, RevokedSpace, owner
<1>t. TypeOK'
  <2>save. save' \in Commits \cup {NoSave}
    BY <1>w, <1>o, ContinuityAssumption
       DEF OpEnds, OpAt, Answered, RevokedSpace, owner, TypeOK, NoSave, Commits, States, Phases,
           Types, Papers, Terminal, Resumable, Cores
  <2>space. space' \in {"none", "open", "revoked"}
    BY <1>w DEF OpEnds, RevokedSpace, TypeOK
  <2> QED BY <1>w, <1>o, <1>b0, <2>save, <2>space
             DEF OpEnds, OpAt, Answered, RevokedSpace, owner, TypeOK, Stages, Names
<1>d. PausedIsDrained'
  BY <1>j, <1>o, <1>h, <1>i DEF OpEnds, OpAt, Answered, RevokedSpace, owner, NoSave, PausedIsDrained
<1>b. BudgetKept'
  BY <1>j, <1>o, <1>h, <1>i, ContinuityAssumption
     DEF OpEnds, OpAt, Answered, RevokedSpace, owner, Heard, Live, Alive, Pending, Idle, NoSave,
         NoJob, Terminal, Resumable, Tracked, BudgetKept, TypeOK, CountsStand, InStep, SavesStand,
         ModesStand, Commits, States
<1>s. SavesStand'
  BY <1>j, <1>o, <1>h, <1>i
     DEF OpEnds, OpAt, Answered, RevokedSpace, owner, Heard, Live, Alive, Pending, Idle, NoSave,
         NoJob, Terminal, Resumable, Tracked, TypeOK, SavesStand, WhatIsSaved, Begun, Concluded,
         Recorded, Waits, ModesStand, ControlsStand, StagesStand, StageUnderWay, Unsaved, Commits,
         States, AtRest, Stages, Turns
<1>g1. QueueStands'
  BY <1>j, <1>o, <1>h, <1>i, QueueKept
     DEF OpEnds, OpAt, Answered, RevokedSpace, owner, StagesStand, TypeOK, Cores
<1>g. StagesStand'
  BY <1>j, <1>o, <1>h, <1>i, <1>g1
     DEF OpEnds, OpAt, Answered, RevokedSpace, owner, NoSave, StagesStand, StageUnderWay, Resumable
<1>m. ModesStand'
  BY <1>j, <1>o, <1>h, <1>i
     DEF OpEnds, OpAt, Answered, RevokedSpace, owner, Heard, Live, Alive, Pending, Idle, NoSave,
         NoJob, Terminal, Resumable, Tracked, TypeOK, ModesStand, SavesStand, Waits, AtRest,
         StagesStand, StageUnderWay, ControlsStand, Commits, States
<1>k1. TurnsStand'
  BY <1>j, <1>o, <1>h, <1>i, TurnsKept
     DEF OpEnds, OpAt, Answered, RevokedSpace, owner, ControlsStand
<1>k. ControlsStand'
  BY <1>j, <1>o, <1>h, <1>i, <1>k1
     DEF OpEnds, OpAt, Answered, RevokedSpace, owner, NoSave, ControlsStand
<1>n. CountsStand'
  BY <1>j, <1>o, <1>h, <1>i, ContinuityAssumption
     DEF OpEnds, OpAt, Answered, RevokedSpace, owner, NoSave, CountsStand, InStep, Unsaved,
         Terminal, Resumable
<1>p. PausesStand'
  BY <1>j, <1>o, <1>h, <1>i
     DEF OpEnds, OpAt, Answered, RevokedSpace, owner, NoSave, PausesStand, Unsaved, Resumable
<1>e. EndStands'
  BY <1>j, <1>o, <1>h, <1>i
     DEF OpEnds, OpAt, Answered, RevokedSpace, owner, NoSave, EndStands, Terminal, QueueStands
<1>y. JobStands'
  BY <1>j, <1>o, <1>h, <1>i
     DEF OpEnds, OpAt, Answered, RevokedSpace, owner, NoSave, JobStands, Unsaved
<1> QED BY <1>f, <1>t, <1>d, <1>b, <1>s, <1>g, <1>m, <1>k, <1>n, <1>p, <1>e, <1>y

(* A pause finds nothing under way, and is the only one. *)
LEMMA PauseStands ==
  ASSUME Inv, Pause, UNCHANGED deliveryVars
  PROVE  Inv'
<1> USE DEF Inv, DeliveryStands, SameOnDisk, deliveryVars, Owned, SameStages
<1>j. SameOnDisk
  BY JournalStays DEF Pause, Eligible, Control, Fenced, RevokedSpace, disk
<1>c. LET c == Control("pause", core.epoch + 1)
      IN /\ controls' \in Seq(Turns) /\ controls' # <<>> /\ c \in Turns /\ c.at = "queued" /\
              c.kind = "pause" /\ c.id = core.epoch + 1
         /\ Turn' = IF controls = <<>> THEN c ELSE Turn
         /\ Len(controls') \in DOMAIN controls' /\ controls'[Len(controls')] = c
         /\ (Len(controls') = 1 <=> controls = <<>>) /\ (controls # <<>> => Turn = controls[1] /\
               1 \in DOMAIN controls)
         /\ \A i \in DOMAIN controls : i \in DOMAIN controls' /\ controls'[i] = controls[i] /\
              i # Len(controls')
         /\ \A i \in DOMAIN controls' : i # Len(controls') => i \in DOMAIN controls
  <2>1. core.epoch \in Nat
    BY DEF TypeOK, Cores
  <2>2. Control("pause", core.epoch + 1) \in Turns
    BY <2>1 DEF Control, Turns
  <2> QED BY <2>2, WaitsMeans DEF Control, Pause
<1>h. SameStages
  BY
     DEF Op, Turn, Waits, Tracked, StageUnderWay, Pause, Eligible, Control, Fenced, RevokedSpace,
         disk
<1>i. StageUnderWay => ops # <<>> /\ Tracked # {} /\ ~Idle
  BY UnderWay
<1>w. TypeOK /\ DeliveryTypeOK
  BY DEF DeliveryIsEarned
<1>ep. /\ core' \in Cores /\ core.epoch \in Nat /\ core'.epoch \in Nat /\ core'.epoch >= core.epoch
          /\ core'.epoch > core.epoch /\ core'.closing = core.closing /\ core'.denied /\
               core'.stopped = core.stopped
  <2>1. core \in Cores /\ core' = Fenced(core)
    BY <1>w DEF TypeOK, Pause
  <2> QED BY <2>1, CoreFenced
<1>x. /\ mode' = "pausing" /\ space' = RevokedSpace
      /\ UNCHANGED <<permitted, checkpoint, stopping, qualifying, ops, actor, author, custody,
           state, save, journal, store, faults>> /\ UNCHANGED deliveryVars
  BY DEF Pause, owner, stages, disk
<1>z. /\ mode = "active" /\ ops = <<>> /\ actor = "none" /\ ~author /\ job = NoJob /\
           ~core.stopped /\ Owned
      /\ save = NoSave /\ save.at = "none" /\ core.closing = "no" /\ state.phase \in Resumable /\
           stopping.at = "no"
      /\ (controls # <<>> => Turn.at = "queued") /\ ~OpenPause /\ ~OnDisk("STOPPED") /\ Tracked = {}
      /\ (\A n \in DOMAIN controls : controls[n].kind # "pause")
  <2>1. mode = "active" /\ ops = <<>> /\ Idle /\ Heard /\ Owned /\ ~qualifying /\
          state.phase \in Resumable
    BY DEF Pause, Eligible
  <2>2. /\ ~core.stopped /\ job = NoJob /\ stopping.at = "no" /\ ~OpenPause
        /\ (controls # <<>> => Turn.at = "queued")
        /\ (\A n \in DOMAIN controls : controls[n].kind # "pause")
    BY <2>1 DEF ModesStand, ControlsStand, TurnsStand, ResumedOnce
  <2>3. save = NoSave /\ save.at = "none"
    BY <2>1, <2>2, NobodyWaits DEF NoJob
  <2>4. ~OnDisk("STOPPED")
    BY <2>1, <2>2, <2>3, HeardInStep DEF Resumable
  <2> QED BY <2>1, <2>2, <2>3, <2>4 DEF Idle, Pending
<1>f. DeliveryTypeOK' /\ JobStands' /\ DeliveryIsEarned'
  BY Frames, <1>x, <1>z DEF Pause, Eligible, Control, RevokedSpace, disk
<1>t. TypeOK'
  <2>core. core' \in Cores
    BY <1>ep
  <2>space. space' \in {"none", "open", "revoked"}
    BY <1>w, <1>x, <1>z DEF Pause, RevokedSpace, TypeOK
  <2> QED BY <1>w, <1>c, <1>x, <1>z, <2>core, <2>space DEF TypeOK, Turns
<1>d. PausedIsDrained'
  BY <1>j, <1>c, <1>h, <1>i, <1>ep, <1>x, <1>z DEF PausedIsDrained
<1>b. BudgetKept'
  BY <1>j, <1>c, <1>h, <1>i, <1>ep, <1>x, <1>z, ContinuityAssumption DEF BudgetKept
<1>r. ResumedOnce'
  BY <1>j, <1>c, <1>h, <1>i, <1>ep, <1>x, <1>z DEF ResumedOnce
<1>s. SavesStand'
  BY <1>j, <1>c, <1>h, <1>i, <1>ep, <1>x, <1>z
     DEF SavesStand, Waits, WhatIsSaved, Begun, Concluded, Recorded
<1>g1. QueueStands'
  BY <1>j, <1>c, <1>h, <1>i, <1>ep, <1>x, <1>z, QueueKept
     DEF Pause, StagesStand, TypeOK, Cores, ModesStand, AtRest
<1>g. StagesStand'
  BY <1>j, <1>c, <1>h, <1>i, <1>ep, <1>x, <1>z, <1>g1 DEF StagesStand, StageUnderWay, Resumable
<1>m. ModesStand'
  <2>1. stopping'.at # "no" <=> mode' = "stopped"
    BY <1>j, <1>c, <1>h, <1>i, <1>ep, <1>x, <1>z DEF ModesStand, AtRest, Resumable
  <2>2. core'.closing # "no" \/ store'.revoked \/ mode' = "blocked" => core'.stopped
    BY <1>j, <1>c, <1>h, <1>i, <1>ep, <1>x, <1>z DEF ModesStand, AtRest, Resumable
  <2>3. core'.stopped => store'.revoked \/ mode' = "stopped"
    BY <1>j, <1>c, <1>h, <1>i, <1>ep, <1>x, <1>z DEF ModesStand, AtRest, Resumable
  <2>4. core'.closing = "closed" => store'.closed
    BY <1>j, <1>c, <1>h, <1>i, <1>ep, <1>x, <1>z DEF ModesStand, AtRest, Resumable
  <2>5. core'.closing \in {"closed", "failed"} => save'.at = "none"
    BY <1>j, <1>c, <1>h, <1>i, <1>ep, <1>x, <1>z DEF ModesStand, AtRest, Resumable
  <2>6. mode' \in AtRest \cup {"blocked"} =>
            ops' = <<>> /\ actor' = "none" /\ ~author' /\ job' = NoJob /\ ~OnDisk("STOPPED")'
    BY <1>j, <1>c, <1>h, <1>i, <1>ep, <1>x, <1>z DEF ModesStand, AtRest, Resumable
  <2>7. mode' \in AtRest => ~core'.stopped /\ core'.denied /\ state'.phase \in Resumable
    BY <1>j, <1>c, <1>h, <1>i, <1>ep, <1>x, <1>z DEF ModesStand, AtRest, Resumable
  <2>8. qualifying' <=> job' # NoJob
    BY <1>j, <1>c, <1>h, <1>i, <1>ep, <1>x, <1>z DEF ModesStand, AtRest, Resumable
  <2>9. job' # NoJob =>
            /\ ops' = <<>> /\ mode' \in {"active", "stopped"} /\ stopping'.at \in {"no", "called"}
            /\ ~OnDisk("STOPPED")' /\ state'.phase = "DIAGNOSTIC_READY"
    BY <1>j, <1>c, <1>h, <1>i, <1>ep, <1>x, <1>z DEF ModesStand, AtRest, Resumable
  <2>10. stopping'.at = "controls" => ops' = <<>>
    BY <1>j, <1>c, <1>h, <1>i, <1>ep, <1>x, <1>z DEF ModesStand, AtRest, Resumable
  <2>11. stopping'.at \in {"closing", "saving"} => Tracked' = {}
    BY <1>j, <1>c, <1>h, <1>i, <1>ep, <1>x, <1>z DEF ModesStand, AtRest, Resumable
  <2>12. stopping'.at = "saving" => ~core'.stopped
    BY <1>j, <1>c, <1>h, <1>i, <1>ep, <1>x, <1>z DEF ModesStand, AtRest, Resumable
  <2>13. stopping'.at = "stopped" => ~stopping'.failed /\ core'.closing = "closed"
    BY <1>j, <1>c, <1>h, <1>i, <1>ep, <1>x, <1>z DEF ModesStand, AtRest, Resumable
  <2>14. stopping'.failed => stopping'.at \in {"core", "failed"}
    BY <1>j, <1>c, <1>h, <1>i, <1>ep, <1>x, <1>z DEF ModesStand, AtRest, Resumable
  <2> QED BY <2>1, <2>2, <2>3, <2>4, <2>5, <2>6, <2>7, <2>8, <2>9, <2>10, <2>11, <2>12, <2>13, <2>14
             DEF ModesStand
<1>k1. TurnsStand'
  <2>1. core'.epoch = core.epoch + 1
    BY <1>w, CoreFenced DEF Pause, TypeOK
  <2>2. \A n \in DOMAIN controls' : n = Len(controls') \/ (n \in DOMAIN controls /\
          controls'[n] = controls[n])
    BY <1>c
  <2>3. /\ \A n \in DOMAIN controls' : controls'[n].kind = "pause" => n = Len(controls') /\
             controls'[n].id = core'.epoch
        /\ \A n \in DOMAIN controls' : n > 1 => controls'[n].at = "queued"
    BY <1>c, <1>z, <2>1, <2>2 DEF ControlsStand, TurnsStand
  <2> QED BY <1>h, <1>x, <1>z, <2>3 DEF TurnsStand
<1>k. ControlsStand'
  BY <1>j, <1>c, <1>h, <1>i, <1>ep, <1>x, <1>z, <1>k1 DEF ControlsStand
<1>n. CountsStand'
  BY <1>j, <1>c, <1>h, <1>i, <1>ep, <1>x, <1>z, ContinuityAssumption
     DEF CountsStand, InStep, Unsaved, Terminal, Resumable
<1>p. PausesStand'
  BY <1>j, <1>c, <1>h, <1>i, <1>ep, <1>x, <1>z DEF PausesStand, Unsaved, Resumable
<1>e. EndStands'
  BY <1>j, <1>c, <1>h, <1>i, <1>ep, <1>x, <1>z DEF EndStands, Terminal
<1> QED BY <1>f, <1>t, <1>d, <1>b, <1>r, <1>s, <1>g, <1>m, <1>k, <1>n, <1>p, <1>e

(* A resume waits for its turn. *)
LEMMA ResumeStands ==
  ASSUME Inv, NEW id \in 1 .. core.epoch, Resume(id), UNCHANGED deliveryVars
  PROVE  Inv'
<1> USE DEF Inv, DeliveryStands, SameOnDisk, deliveryVars, SameStages
<1>j. SameOnDisk
  BY JournalStays DEF Resume, Control, stages, disk
<1>c. LET c == Control("resume", id)
      IN /\ controls' \in Seq(Turns) /\ controls' # <<>> /\ c \in Turns /\ c.at = "queued" /\
              c.kind = "resume" /\ c.id = id
         /\ Turn' = IF controls = <<>> THEN c ELSE Turn
         /\ Len(controls') \in DOMAIN controls' /\ controls'[Len(controls')] = c
         /\ (Len(controls') = 1 <=> controls = <<>>) /\ (controls # <<>> => Turn = controls[1] /\
               1 \in DOMAIN controls)
         /\ \A i \in DOMAIN controls : i \in DOMAIN controls' /\ controls'[i] = controls[i] /\
              i # Len(controls')
         /\ \A i \in DOMAIN controls' : i # Len(controls') => i \in DOMAIN controls
  <2>1. core.epoch \in Nat
    BY DEF TypeOK, Cores
  <2>2. Control("resume", id) \in Turns
    BY <2>1 DEF Control, Turns
  <2> QED BY <2>2, WaitsMeans DEF Control, Resume
<1>h. SameStages
  BY DEF Op, Turn, Waits, Tracked, StageUnderWay, Resume, Control, stages, disk
<1>i. StageUnderWay => ops # <<>> /\ Tracked # {} /\ ~Idle
  BY UnderWay
<1>w. TypeOK /\ DeliveryTypeOK
  BY DEF DeliveryIsEarned
<1>f. DeliveryTypeOK' /\ PausedIsDrained' /\ BudgetKept' /\ ResumedOnce' /\ QueueStands' /\
        StagesStand' /\ ModesStand' /\ CountsStand' /\ EndStands' /\ JobStands' /\ DeliveryIsEarned'
  BY Frames DEF Resume, Control, stages, disk
<1>t. TypeOK'
  <2> QED BY <1>w, <1>c DEF Resume, Control, stages, disk, TypeOK, Turns
<1>s. SavesStand'
  BY <1>j, <1>c, <1>h, <1>i
     DEF Resume, Control, stages, disk, Owned, SavesStand, Waits, WhatIsSaved, Begun, Concluded,
         Recorded
<1>k1. TurnsStand'
  <2>1. \A n \in DOMAIN controls' :
          (n \in DOMAIN controls /\ controls'[n] = controls[n]) \/ (controls'[n].kind = "resume" /\
             controls'[n].at = "queued")
    BY <1>c
  <2>2. TurnsStand /\ UNCHANGED <<mode, core, ops, job>>
    BY DEF ControlsStand, Resume, stages
  <2>3. \A n \in DOMAIN controls : n \in DOMAIN controls' /\ controls'[n] = controls[n]
    BY <1>c
  <2> QED BY <2>1, <2>2, <2>3 DEF TurnsStand
<1>k. ControlsStand'
  BY <1>j, <1>c, <1>h, <1>i, <1>k1 DEF Resume, Control, stages, disk, Owned, ControlsStand
<1>p. PausesStand'
  BY <1>j, <1>c, <1>h, <1>i
     DEF Resume, Control, stages, disk, Owned, PausesStand, Unsaved, Resumable
<1> QED BY <1>f, <1>t, <1>s, <1>k, <1>p

(* A pause takes its turn. *)
LEMMA PauseDrainsStands ==
  ASSUME Inv, PauseDrains, UNCHANGED deliveryVars
  PROVE  Inv'
<1> USE DEF Inv, DeliveryStands, SameOnDisk, deliveryVars, Owned, SameStages
<1>j. SameOnDisk
  BY JournalStays DEF PauseDrains, TurnAt, Clean, disk
<1>h. SameStages
  BY DEF Op, Turn, Waits, Tracked, StageUnderWay, PauseDrains, TurnAt, Clean, disk
<1>b0. custody' \in BOOLEAN
  BY DEF TypeOK, PauseDrains, TurnAt, Clean, disk
<1>i. StageUnderWay => ops # <<>> /\ Tracked # {} /\ ~Idle
  BY UnderWay
<1>w. TypeOK /\ DeliveryTypeOK
  BY DEF DeliveryIsEarned
<1>x. /\ controls # <<>> /\ Turn.kind = "pause" /\ Turn.at = "queued" /\ Alive /\ Idle
      /\ space' \in {"none", "revoked"} /\ (custody' = custody \/ ~custody')
      /\ ((space' = "none" /\ ~custody' /\ Goes("before")) \/ Goes("closing"))
      /\ UNCHANGED <<mode, permitted, checkpoint, stopping, qualifying, core, ops, actor, author,
           state, save, journal, store, faults>> /\ UNCHANGED deliveryVars
  BY <1>w, <1>b0 DEF PauseDrains, TurnAt, Clean, stages, disk
<1>z. mode \in {"pausing", "stopped"} /\ ops = <<>> /\ (job = NoJob)
  <2>1. Turn = controls[1] /\ 1 \in DOMAIN controls
    BY <1>w, <1>x DEF Turn, TypeOK
  <2>2. mode \in {"pausing", "blocked", "stopped"} /\ ops = <<>> /\ job = NoJob
    BY <1>x, <2>1 DEF ControlsStand, TurnsStand
  <2>3. mode # "blocked"
    BY <1>x DEF ModesStand, Alive, Live
  <2> QED BY <2>2, <2>3
<1>c. /\ controls' \in Seq(Turns) /\ controls' # <<>> /\ Turn'.kind = "pause" /\
           Turn'.at \in {"closing", "before"}
      /\ TurnsStand'
  <2>1. controls' \in Seq(Turns) /\ controls' # <<>> /\ Turn'.kind = "pause" /\
          Turn'.at \in {"closing", "before"}
    BY <1>w, <1>x, GoesMeans DEF Turns
  <2>2. TurnsStand'
    BY <1>w, <1>x, <1>z, TurnsKept DEF ControlsStand
  <2> QED BY <2>1, <2>2
<1>f. DeliveryTypeOK' /\ BudgetKept' /\ ResumedOnce' /\ QueueStands' /\ StagesStand' /\
        ModesStand' /\ CountsStand' /\ EndStands' /\ JobStands' /\ DeliveryIsEarned'
  BY Frames, <1>x, <1>z, <1>c DEF PauseDrains, TurnAt, Clean, disk
<1>t. TypeOK'
  <2>space. space' \in {"none", "open", "revoked"}
    BY <1>w, <1>x, <1>z, <1>c DEF PauseDrains, TypeOK
  <2> QED BY <1>w, <1>c, <1>b0, <1>x, <1>z, <1>c, <2>space DEF TypeOK, Turns
<1>d. PausedIsDrained'
  BY <1>j, <1>h, <1>i, <1>x, <1>z, <1>c DEF PausedIsDrained
<1>s. SavesStand'
  <2>1. \A who \in {"op", "control", "stop", "delivery"} : Waits(who)' <=> save'.at # "none" /\
          save'.for = who
    BY <1>j, <1>h, <1>i, <1>x, <1>z, <1>c
       DEF SavesStand, Waits, WhatIsSaved, Begun, Concluded, Recorded
  <2>2. save'.at # "none" => WhatIsSaved'
    BY <1>j, <1>h, <1>i, <1>x, <1>z, <1>c
       DEF SavesStand, Waits, WhatIsSaved, Begun, Concluded, Recorded
  <2>3. save'.at # "none" => save'.epoch <= core'.epoch /\ (save'.epoch = core'.epoch /\
          save'.for \in {"op", "delivery"} => mode' = "active")
    BY <1>j, <1>h, <1>i, <1>x, <1>z, <1>c
       DEF SavesStand, Waits, WhatIsSaved, Begun, Concluded, Recorded
  <2>4. save'.at \in {"written", "ok"} => journal' # <<>> /\ Len(journal') = save'.next.revision /\
          Last' = save'.type
    BY <1>j, <1>h, <1>i, <1>x, <1>z, <1>c
       DEF SavesStand, Waits, WhatIsSaved, Begun, Concluded, Recorded
  <2>5. save'.at = "ok" => state' = save'.next
    BY <1>j, <1>h, <1>i, <1>x, <1>z, <1>c
       DEF SavesStand, Waits, WhatIsSaved, Begun, Concluded, Recorded
  <2>6. save'.at \notin {"none", "ok"} =>
            /\ save'.next.revision = state'.revision + 1
            /\ save'.next.attempts = state'.attempts + (IF save'.type = "attempt" THEN 1 ELSE 0)
    BY <1>j, <1>h, <1>i, <1>x, <1>z, <1>c
       DEF SavesStand, Waits, WhatIsSaved, Begun, Concluded, Recorded
  <2> QED BY <2>1, <2>2, <2>3, <2>4, <2>5, <2>6 DEF SavesStand
<1>k1. TurnsStand'
  BY <1>j, <1>h, <1>i, <1>x, <1>z, <1>c, TurnsKept DEF PauseDrains, ControlsStand
<1>k. ControlsStand'
  <2>1. controls' # <<>> /\ Turn'.at # "queued" =>
            /\ ops' = <<>> /\ job' = NoJob
            /\ <<Turn'.kind, Turn'.at>> \in
                 {<<kind, "cleaning">> : kind \in {"pause", "resume"}}
                   \cup {<<"pause", at>> : at \in {"closing", "before", "saving", "after"}}
                   \cup {<<"resume", at>> : at \in {"before", "consumed", "saving", "after"}}
    BY <1>j, <1>h, <1>i, <1>x, <1>z, <1>c, <1>k1 DEF ControlsStand
  <2>2. controls' # <<>> /\ Turn'.at # "queued" =>
            mode' \in {"stopped", IF Turn'.at = "cleaning" THEN "blocked"
                                  ELSE IF Turn'.kind = "pause" THEN "pausing"
                                  ELSE IF Turn'.at = "before" THEN "paused" ELSE "resuming"}
    BY <1>j, <1>h, <1>i, <1>x, <1>z, <1>c, <1>k1 DEF ControlsStand
  <2>3. controls' # <<>> /\ mode' # "stopped" =>
            /\ (Turn'.kind = "pause" /\ Turn'.at \in {"saving", "after"} => space' = "none" /\
                  ~custody')
            /\ (Turn'.at = "after" => journal' # <<>> /\ Last' = Turn'.kind)
            /\ (Turn'.at = "consumed" => journal' # <<>> /\ Last' = "pause")
    BY <1>j, <1>h, <1>i, <1>x, <1>z, <1>c, <1>k1 DEF ControlsStand
  <2> QED BY <2>1, <2>2, <2>3, <1>k1 DEF ControlsStand
<1>p. PausesStand'
  BY <1>j, <1>h, <1>i, <1>x, <1>z, <1>c DEF PausesStand, Unsaved, Resumable
<1> QED BY <1>f, <1>t, <1>d, <1>s, <1>k, <1>p

(* The workspace of a pause has closed. *)
LEMMA PauseDrainedStands ==
  ASSUME Inv, PauseDrained, UNCHANGED deliveryVars
  PROVE  Inv'
<1> USE DEF Inv, DeliveryStands, SameOnDisk, deliveryVars, Owned, SameStages
<1>j. SameOnDisk
  BY JournalStays DEF PauseDrained, TurnAt, disk
<1>c. /\ controls # <<>> /\ controls' \in Seq(Turns) /\ controls' # <<>> /\
           DOMAIN controls' = DOMAIN controls
         /\ Turn' = [Turn EXCEPT !.at = "before"] /\ Turn \in Turns
         /\ Turn = controls[1] /\ Turn' = controls'[1] /\ 1 \in DOMAIN controls
         /\ \A n \in DOMAIN controls' : n > 1 => controls'[n] = controls[n]
  BY GoesMeans DEF PauseDrained, TurnAt, disk
<1>h. SameStages
  BY DEF Op, Turn, Waits, Tracked, StageUnderWay, PauseDrained, TurnAt, disk
<1>b0. custody' \in BOOLEAN
  BY DEF TypeOK, PauseDrained, TurnAt, disk
<1>i. StageUnderWay => ops # <<>> /\ Tracked # {} /\ ~Idle
  BY UnderWay
<1>w. TypeOK /\ DeliveryTypeOK
  BY DEF DeliveryIsEarned
<1>f. DeliveryTypeOK' /\ BudgetKept' /\ ResumedOnce' /\ QueueStands' /\ StagesStand' /\
        ModesStand' /\ CountsStand' /\ EndStands' /\ JobStands' /\ DeliveryIsEarned'
  BY Frames DEF PauseDrained, TurnAt, disk
<1>t. TypeOK'
  <2>space. space' \in {"none", "open", "revoked"}
    BY <1>w DEF PauseDrained, TypeOK
  <2> QED BY <1>w, <1>c, <1>b0, <2>space DEF PauseDrained, TurnAt, disk, TypeOK, Turns
<1>d. PausedIsDrained'
  BY <1>j, <1>c, <1>h, <1>i DEF PauseDrained, TurnAt, disk, PausedIsDrained
<1>s. SavesStand'
  BY <1>j, <1>c, <1>h, <1>i
     DEF PauseDrained, TurnAt, disk, SavesStand, Waits, WhatIsSaved, Begun, Concluded, Recorded
<1>k1. TurnsStand'
  BY <1>j, <1>c, <1>h, <1>i, TurnsKept DEF PauseDrained, TurnAt, disk, ControlsStand
<1>k. ControlsStand'
  BY <1>j, <1>c, <1>h, <1>i, <1>k1 DEF PauseDrained, TurnAt, disk, ControlsStand
<1>p. PausesStand'
  BY <1>j, <1>c, <1>h, <1>i DEF PauseDrained, TurnAt, disk, PausesStand, Unsaved, Resumable
<1> QED BY <1>f, <1>t, <1>d, <1>s, <1>k, <1>p

(* The record of a pause is asked for when nothing is under way or held. *)
LEMMA PauseRecordsStands ==
  ASSUME Inv, PauseRecords, UNCHANGED deliveryVars
  PROVE  Inv'
<1> USE DEF Inv, DeliveryStands, SameOnDisk, deliveryVars, Owned, SameStages
<1>j. SameOnDisk
  BY JournalStays DEF PauseRecords, TurnAt, Clean, Commit, stages
<1>c. /\ controls # <<>> /\ controls' \in Seq(Turns) /\ controls' # <<>> /\
           DOMAIN controls' = DOMAIN controls
         /\ Turn' = [Turn EXCEPT !.at = "saving"] /\ Turn \in Turns
         /\ Turn = controls[1] /\ Turn' = controls'[1] /\ 1 \in DOMAIN controls
         /\ \A n \in DOMAIN controls' : n > 1 => controls'[n] = controls[n]
  BY GoesMeans DEF PauseRecords, TurnAt, Clean, Commit, stages
<1>h. SameStages
  BY DEF Op, Turn, Waits, Tracked, StageUnderWay, PauseRecords, TurnAt, Clean, Commit, stages
<1>i. StageUnderWay => ops # <<>> /\ Tracked # {} /\ ~Idle
  BY UnderWay
<1>w. TypeOK /\ DeliveryTypeOK
  BY DEF DeliveryIsEarned
<1>f. DeliveryTypeOK' /\ ResumedOnce' /\ QueueStands' /\ DeliveryIsEarned'
  BY Frames DEF PauseRecords, TurnAt, Clean, Commit, stages
<1>t. TypeOK'
  <2>save. save' \in Commits \cup {NoSave}
    <3>1. state.phase \in Phases /\ core.epoch \in Nat
      BY <1>w DEF TypeOK, States, Cores
    <3>2. Commit("control", "pause", state.phase, state.attempts, core.epoch)
      BY DEF PauseRecords
    <3> QED BY <1>w, <3>1, <3>2, CommitMeans DEF Types
  <2> QED BY <1>w, <1>c, <2>save DEF PauseRecords, TurnAt, Commit, stages, TypeOK, Turns
<1>d. PausedIsDrained'
  BY <1>j, <1>c, <1>h, <1>i DEF PauseRecords, TurnAt, Clean, Commit, stages, NoSave, PausedIsDrained
<1>b. BudgetKept'
  BY <1>j, <1>c, <1>h, <1>i, ContinuityAssumption
     DEF PauseRecords, TurnAt, Clean, Commit, stages, NoSave, BudgetKept
<1>s. SavesStand'
  <2>1. \A who \in {"op", "control", "stop", "delivery"} : Waits(who)' <=> save'.at # "none" /\
          save'.for = who
    BY <1>j, <1>c, <1>h, <1>i
       DEF PauseRecords, TurnAt, Clean, Commit, stages, Heard, Live, Alive, Pending, Idle, NoSave,
           NoJob, Terminal, Resumable, Tracked, TypeOK, SavesStand, WhatIsSaved, Begun, Concluded,
           Recorded, Waits, ModesStand, ControlsStand, StagesStand, StageUnderWay, Unsaved, Commits,
           States, AtRest, Stages, Turns, Cores
  <2>2. save'.at # "none" => WhatIsSaved'
    BY <1>j, <1>c, <1>h, <1>i
       DEF PauseRecords, TurnAt, Clean, Commit, stages, Heard, Live, Alive, Pending, Idle, NoSave,
           NoJob, Terminal, Resumable, Tracked, TypeOK, SavesStand, WhatIsSaved, Begun, Concluded,
           Recorded, Waits, ModesStand, ControlsStand, StagesStand, StageUnderWay, Unsaved, Commits,
           States, AtRest, Stages, Turns, Cores
  <2>3. save'.at # "none" => save'.epoch <= core'.epoch /\ (save'.epoch = core'.epoch /\
          save'.for \in {"op", "delivery"} => mode' = "active")
    BY <1>j, <1>c, <1>h, <1>i
       DEF PauseRecords, TurnAt, Clean, Commit, stages, Heard, Live, Alive, Pending, Idle, NoSave,
           NoJob, Terminal, Resumable, Tracked, TypeOK, SavesStand, WhatIsSaved, Begun, Concluded,
           Recorded, Waits, ModesStand, ControlsStand, StagesStand, StageUnderWay, Unsaved, Commits,
           States, AtRest, Stages, Turns, Cores
  <2>4. save'.at \in {"written", "ok"} => journal' # <<>> /\ Len(journal') = save'.next.revision /\
          Last' = save'.type
    BY <1>j, <1>c, <1>h, <1>i
       DEF PauseRecords, TurnAt, Clean, Commit, stages, Heard, Live, Alive, Pending, Idle, NoSave,
           NoJob, Terminal, Resumable, Tracked, TypeOK, SavesStand, WhatIsSaved, Begun, Concluded,
           Recorded, Waits, ModesStand, ControlsStand, StagesStand, StageUnderWay, Unsaved, Commits,
           States, AtRest, Stages, Turns, Cores
  <2>5. save'.at = "ok" => state' = save'.next
    BY <1>j, <1>c, <1>h, <1>i
       DEF PauseRecords, TurnAt, Clean, Commit, stages, Heard, Live, Alive, Pending, Idle, NoSave,
           NoJob, Terminal, Resumable, Tracked, TypeOK, SavesStand, WhatIsSaved, Begun, Concluded,
           Recorded, Waits, ModesStand, ControlsStand, StagesStand, StageUnderWay, Unsaved, Commits,
           States, AtRest, Stages, Turns, Cores
  <2>6. save'.at \notin {"none", "ok"} =>
            /\ save'.next.revision = state'.revision + 1
            /\ save'.next.attempts = state'.attempts + (IF save'.type = "attempt" THEN 1 ELSE 0)
    BY <1>j, <1>c, <1>h, <1>i
       DEF PauseRecords, TurnAt, Clean, Commit, stages, Heard, Live, Alive, Pending, Idle, NoSave,
           NoJob, Terminal, Resumable, Tracked, TypeOK, SavesStand, WhatIsSaved, Begun, Concluded,
           Recorded, Waits, ModesStand, ControlsStand, StagesStand, StageUnderWay, Unsaved, Commits,
           States, AtRest, Stages, Turns, Cores
  <2> QED BY <2>1, <2>2, <2>3, <2>4, <2>5, <2>6 DEF SavesStand
<1>g. StagesStand'
  BY <1>j, <1>c, <1>h, <1>i, <1>f
     DEF PauseRecords, TurnAt, Clean, Commit, stages, NoSave, StagesStand, StageUnderWay, Resumable
<1>m. ModesStand'
  BY <1>j, <1>c, <1>h, <1>i
     DEF PauseRecords, TurnAt, Clean, Commit, stages, NoSave, ModesStand, AtRest, Resumable
<1>k1. TurnsStand'
  BY <1>j, <1>c, <1>h, <1>i, TurnsKept
     DEF PauseRecords, TurnAt, Clean, Commit, stages, ControlsStand
<1>k. ControlsStand'
  BY <1>j, <1>c, <1>h, <1>i, <1>k1
     DEF PauseRecords, TurnAt, Clean, Commit, stages, NoSave, ControlsStand
<1>n. CountsStand'
  BY <1>j, <1>c, <1>h, <1>i, ContinuityAssumption
     DEF PauseRecords, TurnAt, Clean, Commit, stages, Heard, Live, Alive, Pending, Idle, NoSave,
         NoJob, Terminal, Resumable, Tracked, TypeOK, CountsStand, InStep, SavesStand, Waits,
         WhatIsSaved, Begun, Concluded, Recorded, ModesStand, StagesStand, StageUnderWay, AtRest,
         Unsaved, Commits, States, Phases, Stages, ControlsStand
<1>p. PausesStand'
  BY <1>j, <1>c, <1>h, <1>i
     DEF PauseRecords, TurnAt, Clean, Commit, stages, NoSave, PausesStand, Unsaved, Resumable
<1>e. EndStands'
  BY <1>j, <1>c, <1>h, <1>i
     DEF PauseRecords, TurnAt, Clean, Commit, stages, Heard, Live, Alive, Pending, Idle, NoSave,
         NoJob, Terminal, Resumable, Tracked, TypeOK, EndStands, CountsStand, InStep, ModesStand,
         AtRest, StagesStand, StageUnderWay, SavesStand, Waits, WhatIsSaved, Begun, Concluded,
         Recorded, Unsaved, Commits, States, Stages
<1>y. JobStands'
  BY <1>j, <1>c, <1>h, <1>i
     DEF PauseRecords, TurnAt, Clean, Commit, stages, Heard, Live, Alive, Pending, Idle, NoSave,
         NoJob, Terminal, Resumable, Tracked, TypeOK, DeliveryIsEarned, DeliveryTypeOK, JobStands,
         SavesStand, Waits, WhatIsSaved, Begun, Concluded, Recorded, Unsaved, ModesStand, Commits,
         Kinds, InOrder
<1> QED BY <1>f, <1>t, <1>d, <1>b, <1>s, <1>g, <1>m, <1>k, <1>n, <1>p, <1>e, <1>y

(* The record of a control is on disk, and the last one. *)
LEMMA ControlSavedStands ==
  ASSUME Inv, ControlSaved, UNCHANGED deliveryVars
  PROVE  Inv'
<1> USE DEF Inv, DeliveryStands, SameOnDisk, deliveryVars, Owned, SameStages
<1>j. SameOnDisk
  BY JournalStays DEF ControlSaved, Saved, stages
<1>c. /\ controls # <<>> /\ controls' \in Seq(Turns) /\ controls' # <<>> /\
           DOMAIN controls' = DOMAIN controls
         /\ Turn' = [Turn EXCEPT !.at = "after"] /\ Turn \in Turns
         /\ Turn = controls[1] /\ Turn' = controls'[1] /\ 1 \in DOMAIN controls
         /\ \A n \in DOMAIN controls' : n > 1 => controls'[n] = controls[n]
  BY GoesMeans DEF ControlSaved, Saved, stages
<1>h. SameStages
  BY DEF Op, Turn, Waits, Tracked, StageUnderWay, ControlSaved, Saved, stages
<1>i. StageUnderWay => ops # <<>> /\ Tracked # {} /\ ~Idle
  BY UnderWay
<1>w. TypeOK /\ DeliveryTypeOK
  BY DEF DeliveryIsEarned
<1>x. /\ controls # <<>> /\ Turn.at = "saving" /\ save.at = "ok" /\ save.for = "control" /\
           save' = NoSave
      /\ UNCHANGED <<mode, permitted, checkpoint, stopping, qualifying, core, ops, actor, author,
           space, custody, state, journal, store, faults>> /\ UNCHANGED deliveryVars
  BY DEF ControlSaved, Saved, stages
<1>z. /\ ops = <<>> /\ job = NoJob /\ stopping.at # "saving" /\ mode \in {"stopped", "pausing",
           "resuming"}
      /\ state = save.next /\ journal # <<>> /\ Last = Turn.kind /\ state.revision = Len(journal)
  <2>1. save.at # "none"
    BY <1>x
  <2>2. /\ ops = <<>> /\ job = NoJob /\ stopping.at # "saving" /\ mode \in {"stopped", "pausing",
             "resuming"}
        /\ Last = Turn.kind /\ save.next.revision = Len(journal)
    BY <1>x, <2>1, WhoWaits, WhatTheySave
  <2>3. state = save.next /\ journal # <<>>
    BY <1>x DEF SavesStand
  <2> QED BY <2>2, <2>3
<1>f. DeliveryTypeOK' /\ ResumedOnce' /\ QueueStands' /\ DeliveryIsEarned'
  BY Frames, <1>x, <1>z DEF ControlSaved, Saved, stages
<1>t. TypeOK'
  <2>save. save' \in Commits \cup {NoSave}
    BY <1>w, <1>x, <1>z, ContinuityAssumption
       DEF NoSave, TypeOK, Commits, States, Phases, Types, Papers, Terminal, Resumable, Cores
  <2> QED BY <1>w, <1>c, <1>x, <1>z, <2>save DEF TypeOK, Turns
<1>d. PausedIsDrained'
  BY <1>j, <1>c, <1>h, <1>i, <1>x, <1>z DEF NoSave, PausedIsDrained
<1>b. BudgetKept'
  BY <1>j, <1>c, <1>h, <1>i, <1>x, <1>z, ContinuityAssumption DEF NoSave, BudgetKept
<1>s. SavesStand'
  <2>1. \A who \in {"op", "control", "stop", "delivery"} : Waits(who)' <=> save'.at # "none" /\
          save'.for = who
    BY <1>j, <1>c, <1>h, <1>i, <1>x, <1>z
       DEF NoSave, SavesStand, Waits, WhatIsSaved, Begun, Concluded, Recorded
  <2>2. save'.at # "none" => WhatIsSaved'
    BY <1>j, <1>c, <1>h, <1>i, <1>x, <1>z
       DEF NoSave, SavesStand, Waits, WhatIsSaved, Begun, Concluded, Recorded
  <2>3. save'.at # "none" => save'.epoch <= core'.epoch /\ (save'.epoch = core'.epoch /\
          save'.for \in {"op", "delivery"} => mode' = "active")
    BY <1>j, <1>c, <1>h, <1>i, <1>x, <1>z
       DEF NoSave, SavesStand, Waits, WhatIsSaved, Begun, Concluded, Recorded
  <2>4. save'.at \in {"written", "ok"} => journal' # <<>> /\ Len(journal') = save'.next.revision /\
          Last' = save'.type
    BY <1>j, <1>c, <1>h, <1>i, <1>x, <1>z
       DEF NoSave, SavesStand, Waits, WhatIsSaved, Begun, Concluded, Recorded
  <2>5. save'.at = "ok" => state' = save'.next
    BY <1>j, <1>c, <1>h, <1>i, <1>x, <1>z
       DEF NoSave, SavesStand, Waits, WhatIsSaved, Begun, Concluded, Recorded
  <2>6. save'.at \notin {"none", "ok"} =>
            /\ save'.next.revision = state'.revision + 1
            /\ save'.next.attempts = state'.attempts + (IF save'.type = "attempt" THEN 1 ELSE 0)
    BY <1>j, <1>c, <1>h, <1>i, <1>x, <1>z
       DEF NoSave, SavesStand, Waits, WhatIsSaved, Begun, Concluded, Recorded
  <2> QED BY <2>1, <2>2, <2>3, <2>4, <2>5, <2>6 DEF SavesStand
<1>g. StagesStand'
  BY <1>j, <1>c, <1>h, <1>i, <1>x, <1>z, <1>f DEF NoSave, StagesStand, StageUnderWay, Resumable
<1>m. ModesStand'
  BY <1>j, <1>c, <1>h, <1>i, <1>x, <1>z DEF NoSave, ModesStand, AtRest, Resumable
<1>k1. TurnsStand'
  BY <1>j, <1>c, <1>h, <1>i, <1>x, <1>z, TurnsKept DEF NoSave, ControlSaved, ControlsStand
<1>k. ControlsStand'
  <2>1. controls' # <<>> /\ Turn'.at # "queued" =>
            /\ ops' = <<>> /\ job' = NoJob
            /\ <<Turn'.kind, Turn'.at>> \in
                 {<<kind, "cleaning">> : kind \in {"pause", "resume"}}
                   \cup {<<"pause", at>> : at \in {"closing", "before", "saving", "after"}}
                   \cup {<<"resume", at>> : at \in {"before", "consumed", "saving", "after"}}
    BY <1>j, <1>c, <1>h, <1>i, <1>x, <1>z, <1>k1 DEF NoSave, ControlsStand
  <2>2. controls' # <<>> /\ Turn'.at # "queued" =>
            mode' \in {"stopped", IF Turn'.at = "cleaning" THEN "blocked"
                                  ELSE IF Turn'.kind = "pause" THEN "pausing"
                                  ELSE IF Turn'.at = "before" THEN "paused" ELSE "resuming"}
    BY <1>j, <1>c, <1>h, <1>i, <1>x, <1>z, <1>k1 DEF NoSave, ControlsStand
  <2>3. controls' # <<>> /\ mode' # "stopped" =>
            /\ (Turn'.kind = "pause" /\ Turn'.at \in {"saving", "after"} => space' = "none" /\
                  ~custody')
            /\ (Turn'.at = "after" => journal' # <<>> /\ Last' = Turn'.kind)
            /\ (Turn'.at = "consumed" => journal' # <<>> /\ Last' = "pause")
    BY <1>j, <1>c, <1>h, <1>i, <1>x, <1>z, <1>k1 DEF NoSave, ControlsStand
  <2> QED BY <2>1, <2>2, <2>3, <1>k1 DEF ControlsStand
<1>n. CountsStand'
  BY <1>j, <1>c, <1>h, <1>i, <1>x, <1>z, ContinuityAssumption
     DEF NoSave, CountsStand, InStep, Unsaved, Terminal, Resumable
<1>p. PausesStand'
  BY <1>j, <1>c, <1>h, <1>i, <1>x, <1>z DEF NoSave, PausesStand, Unsaved, Resumable
<1>e. EndStands'
  BY <1>j, <1>c, <1>h, <1>i, <1>x, <1>z DEF NoSave, EndStands, Terminal
<1>y. JobStands'
  BY <1>j, <1>c, <1>h, <1>i, <1>x, <1>z DEF NoSave, JobStands, Unsaved
<1> QED BY <1>f, <1>t, <1>d, <1>b, <1>s, <1>g, <1>m, <1>k, <1>n, <1>p, <1>e, <1>y

(* The checkpoint names the head of the journal, which is the record of the pause. *)
LEMMA PausedStands ==
  ASSUME Inv, Paused, UNCHANGED deliveryVars
  PROVE  Inv'
<1> USE DEF Inv, DeliveryStands, SameOnDisk, deliveryVars, Owned, SameStages
<1>j. SameOnDisk
  BY JournalStays DEF Paused, TurnAt, stages, disk
<1>c. /\ controls # <<>> /\ (controls' # <<>> => Turn'.at = "queued")
         /\ controls' \in Seq(Turns) /\ Turn \in Turns /\ Turn = controls[1] /\
              1 \in DOMAIN controls
         /\ \A n \in DOMAIN controls' : n + 1 \in DOMAIN controls /\ n + 1 > 1 /\
              controls'[n] = controls[n + 1]
         /\ (controls' # <<>> => Turn' = controls[2] /\ 2 \in DOMAIN controls)
  BY OverMeans DEF ControlsStand, Paused, TurnAt, stages, disk
<1>h. SameStages
  BY DEF Op, Turn, Waits, Tracked, StageUnderWay, Paused, TurnAt, stages, disk
<1>i. StageUnderWay => ops # <<>> /\ Tracked # {} /\ ~Idle
  BY UnderWay
<1>w. TypeOK /\ DeliveryTypeOK
  BY DEF DeliveryIsEarned
<1>x. /\ Turn.kind = "pause" /\ Turn.at = "after" /\ Owned /\ mode = "pausing" /\ mode' = "paused"
      /\ checkpoint' = [id |-> Turn.id, head |-> Len(journal)]
      /\ UNCHANGED <<permitted, stopping, qualifying, core, ops, actor, author, space, custody,
           state, save, journal, store, faults>> /\ UNCHANGED deliveryVars
  BY DEF Paused, TurnAt, stages, disk
<1>z. /\ ops = <<>> /\ job = NoJob /\ actor = "none" /\ ~author /\ space = "none" /\ ~custody
      /\ journal # <<>> /\ Last = "pause" /\ ~core.stopped /\ core.denied /\ stopping.at = "no"
      /\ Turn.id = core.epoch /\ save = NoSave /\ save.at = "none" /\ state.revision = Len(journal)
      /\ state.phase \in Resumable /\ ~OnDisk("STOPPED")
  <2>1. /\ ops = <<>> /\ job = NoJob /\ actor = "none" /\ ~author /\ ~core.stopped /\ core.denied /\
             stopping.at = "no"
        /\ state.phase \in Resumable /\ ~OnDisk("STOPPED")
    BY <1>x DEF ModesStand, AtRest
  <2>2. space = "none" /\ ~custody /\ journal # <<>> /\ Last = "pause"
    BY <1>x, <1>c DEF ControlsStand
  <2>3. Turn.id = core.epoch
    BY <1>x, <1>c DEF ControlsStand, TurnsStand
  <2>4. save = NoSave /\ save.at = "none"
    BY <1>x, <2>1, NobodyWaits DEF NoJob
  <2>5. state.revision = Len(journal)
    BY <1>x, <2>1, <2>4, HeardInStep
  <2> QED BY <2>1, <2>2, <2>3, <2>4, <2>5
<1>f. DeliveryTypeOK' /\ EndStands' /\ JobStands' /\ DeliveryIsEarned'
  BY Frames, <1>x, <1>z DEF Paused, TurnAt, stages, disk
<1>t. TypeOK'
  <2>checkpoint. checkpoint' \in [id : Nat, head : Nat]
    BY <1>w, <1>x, <1>z, <1>c DEF NoSave, TypeOK, NoCheckpoint, Turns
  <2> QED BY <1>w, <1>c, <1>x, <1>z, <2>checkpoint DEF TypeOK, Turns
<1>d. PausedIsDrained'
  BY <1>j, <1>c, <1>h, <1>i, <1>x, <1>z
     DEF NoSave, TypeOK, PausedIsDrained, ModesStand, ControlsStand, TurnsStand, CountsStand,
         InStep, SavesStand, Waits, Turns, Stages, Commits, Last
<1>b. BudgetKept'
  BY <1>j, <1>c, <1>h, <1>i, <1>x, <1>z, ContinuityAssumption DEF NoSave, BudgetKept
<1>r. ResumedOnce'
  BY <1>j, <1>c, <1>h, <1>i, <1>x, <1>z DEF NoSave, ResumedOnce
<1>s. SavesStand'
  BY <1>j, <1>c, <1>h, <1>i, <1>x, <1>z
     DEF NoSave, SavesStand, Waits, WhatIsSaved, Begun, Concluded, Recorded
<1>g1. QueueStands'
  BY <1>j, <1>c, <1>h, <1>i, <1>x, <1>z, QueueKept
     DEF NoSave, Paused, StagesStand, TypeOK, Cores, ModesStand, AtRest
<1>g. StagesStand'
  BY <1>j, <1>c, <1>h, <1>i, <1>x, <1>z, <1>g1 DEF NoSave, StagesStand, StageUnderWay, Resumable
<1>m. ModesStand'
  <2>1. stopping'.at # "no" <=> mode' = "stopped"
    BY <1>j, <1>c, <1>h, <1>i, <1>x, <1>z DEF NoSave, ModesStand, AtRest, Resumable
  <2>2. core'.closing # "no" \/ store'.revoked \/ mode' = "blocked" => core'.stopped
    BY <1>j, <1>c, <1>h, <1>i, <1>x, <1>z DEF NoSave, ModesStand, AtRest, Resumable
  <2>3. core'.stopped => store'.revoked \/ mode' = "stopped"
    BY <1>j, <1>c, <1>h, <1>i, <1>x, <1>z DEF NoSave, ModesStand, AtRest, Resumable
  <2>4. core'.closing = "closed" => store'.closed
    BY <1>j, <1>c, <1>h, <1>i, <1>x, <1>z DEF NoSave, ModesStand, AtRest, Resumable
  <2>5. core'.closing \in {"closed", "failed"} => save'.at = "none"
    BY <1>j, <1>c, <1>h, <1>i, <1>x, <1>z DEF NoSave, ModesStand, AtRest, Resumable
  <2>6. mode' \in AtRest \cup {"blocked"} =>
            ops' = <<>> /\ actor' = "none" /\ ~author' /\ job' = NoJob /\ ~OnDisk("STOPPED")'
    BY <1>j, <1>c, <1>h, <1>i, <1>x, <1>z DEF NoSave, ModesStand, AtRest, Resumable
  <2>7. mode' \in AtRest => ~core'.stopped /\ core'.denied /\ state'.phase \in Resumable
    BY <1>j, <1>c, <1>h, <1>i, <1>x, <1>z DEF NoSave, ModesStand, AtRest, Resumable
  <2>8. qualifying' <=> job' # NoJob
    BY <1>j, <1>c, <1>h, <1>i, <1>x, <1>z DEF NoSave, ModesStand, AtRest, Resumable
  <2>9. job' # NoJob =>
            /\ ops' = <<>> /\ mode' \in {"active", "stopped"} /\ stopping'.at \in {"no", "called"}
            /\ ~OnDisk("STOPPED")' /\ state'.phase = "DIAGNOSTIC_READY"
    BY <1>j, <1>c, <1>h, <1>i, <1>x, <1>z DEF NoSave, ModesStand, AtRest, Resumable
  <2>10. stopping'.at = "controls" => ops' = <<>>
    BY <1>j, <1>c, <1>h, <1>i, <1>x, <1>z DEF NoSave, ModesStand, AtRest, Resumable
  <2>11. stopping'.at \in {"closing", "saving"} => Tracked' = {}
    BY <1>j, <1>c, <1>h, <1>i, <1>x, <1>z DEF NoSave, ModesStand, AtRest, Resumable
  <2>12. stopping'.at = "saving" => ~core'.stopped
    BY <1>j, <1>c, <1>h, <1>i, <1>x, <1>z DEF NoSave, ModesStand, AtRest, Resumable
  <2>13. stopping'.at = "stopped" => ~stopping'.failed /\ core'.closing = "closed"
    BY <1>j, <1>c, <1>h, <1>i, <1>x, <1>z DEF NoSave, ModesStand, AtRest, Resumable
  <2>14. stopping'.failed => stopping'.at \in {"core", "failed"}
    BY <1>j, <1>c, <1>h, <1>i, <1>x, <1>z DEF NoSave, ModesStand, AtRest, Resumable
  <2> QED BY <2>1, <2>2, <2>3, <2>4, <2>5, <2>6, <2>7, <2>8, <2>9, <2>10, <2>11, <2>12, <2>13, <2>14
             DEF ModesStand
<1>k1. TurnsStand'
  BY <1>c, <1>x, <1>w, PauseTaken DEF ControlsStand, Paused
<1>k. ControlsStand'
  <2>1. controls' # <<>> /\ Turn'.at # "queued" =>
            /\ ops' = <<>> /\ job' = NoJob
            /\ <<Turn'.kind, Turn'.at>> \in
                 {<<kind, "cleaning">> : kind \in {"pause", "resume"}}
                   \cup {<<"pause", at>> : at \in {"closing", "before", "saving", "after"}}
                   \cup {<<"resume", at>> : at \in {"before", "consumed", "saving", "after"}}
    BY <1>j, <1>c, <1>h, <1>i, <1>x, <1>z, <1>k1 DEF NoSave, ControlsStand
  <2>2. controls' # <<>> /\ Turn'.at # "queued" =>
            mode' \in {"stopped", IF Turn'.at = "cleaning" THEN "blocked"
                                  ELSE IF Turn'.kind = "pause" THEN "pausing"
                                  ELSE IF Turn'.at = "before" THEN "paused" ELSE "resuming"}
    BY <1>j, <1>c, <1>h, <1>i, <1>x, <1>z, <1>k1 DEF NoSave, ControlsStand
  <2>3. controls' # <<>> /\ mode' # "stopped" =>
            /\ (Turn'.kind = "pause" /\ Turn'.at \in {"saving", "after"} => space' = "none" /\
                  ~custody')
            /\ (Turn'.at = "after" => journal' # <<>> /\ Last' = Turn'.kind)
            /\ (Turn'.at = "consumed" => journal' # <<>> /\ Last' = "pause")
    BY <1>j, <1>c, <1>h, <1>i, <1>x, <1>z, <1>k1 DEF NoSave, ControlsStand
  <2> QED BY <2>1, <2>2, <2>3, <1>k1 DEF ControlsStand
<1>n. CountsStand'
  BY <1>j, <1>c, <1>h, <1>i, <1>x, <1>z, ContinuityAssumption
     DEF NoSave, CountsStand, InStep, Unsaved, Terminal, Resumable
<1>p. PausesStand'
  BY <1>j, <1>c, <1>h, <1>i, <1>x, <1>z DEF NoSave, PausesStand, Unsaved, Resumable
<1> QED BY <1>f, <1>t, <1>d, <1>b, <1>r, <1>s, <1>g, <1>m, <1>k, <1>n, <1>p

(* A resume that is refused leaves all the rest. *)
LEMMA ResumeRefusedStands ==
  ASSUME Inv, ResumeRefused, UNCHANGED deliveryVars
  PROVE  Inv'
<1> USE DEF Inv, DeliveryStands, SameOnDisk, deliveryVars, SameStages
<1>j. SameOnDisk
  BY JournalStays DEF ResumeRefused, TurnAt, Current, stages, disk
<1>c. /\ controls # <<>> /\ (controls' # <<>> => Turn'.at = "queued")
         /\ controls' \in Seq(Turns) /\ Turn \in Turns /\ Turn = controls[1] /\
              1 \in DOMAIN controls
         /\ \A n \in DOMAIN controls' : n + 1 \in DOMAIN controls /\ n + 1 > 1 /\
              controls'[n] = controls[n + 1]
         /\ (controls' # <<>> => Turn' = controls[2] /\ 2 \in DOMAIN controls)
  BY OverMeans DEF ControlsStand, ResumeRefused, TurnAt, Current, stages, disk
<1>h. SameStages
  BY DEF Op, Turn, Waits, Tracked, StageUnderWay, ResumeRefused, TurnAt, Current, stages, disk
<1>i. StageUnderWay => ops # <<>> /\ Tracked # {} /\ ~Idle
  BY UnderWay
<1>w. TypeOK /\ DeliveryTypeOK
  BY DEF DeliveryIsEarned
<1>f. DeliveryTypeOK' /\ PausedIsDrained' /\ BudgetKept' /\ ResumedOnce' /\ QueueStands' /\
        StagesStand' /\ ModesStand' /\ CountsStand' /\ EndStands' /\ JobStands' /\ DeliveryIsEarned'
  BY Frames DEF ResumeRefused, TurnAt, Current, stages, disk
<1>t. TypeOK'
  <2> QED BY <1>w, <1>c DEF ResumeRefused, TurnAt, stages, disk, TypeOK, Turns
<1>s. SavesStand'
  BY <1>j, <1>c, <1>h, <1>i
     DEF ResumeRefused, TurnAt, Current, stages, disk, Owned, SavesStand, Waits, WhatIsSaved, Begun,
         Concluded, Recorded
<1>k1. TurnsStand'
  BY <1>j, <1>c, <1>h, <1>i, TurnsKept
     DEF ResumeRefused, TurnAt, Current, stages, disk, ControlsStand
<1>k. ControlsStand'
  BY <1>j, <1>c, <1>h, <1>i, <1>k1
     DEF ResumeRefused, TurnAt, Current, stages, disk, Owned, ControlsStand
<1>p. PausesStand'
  BY <1>j, <1>c, <1>h, <1>i
     DEF ResumeRefused, TurnAt, Current, stages, disk, Owned, PausesStand, Unsaved, Resumable
<1> QED BY <1>f, <1>t, <1>s, <1>k, <1>p

(* A resume takes its turn on the checkpoint it names. *)
LEMMA ResumeStartsStands ==
  ASSUME Inv, ResumeStarts, UNCHANGED deliveryVars
  PROVE  Inv'
<1> USE DEF Inv, DeliveryStands, SameOnDisk, deliveryVars, SameStages
<1>j. SameOnDisk
  BY JournalStays DEF ResumeStarts, TurnAt, Current, stages, disk
<1>c. /\ controls # <<>> /\ controls' \in Seq(Turns) /\ controls' # <<>> /\
           DOMAIN controls' = DOMAIN controls
         /\ Turn' = [Turn EXCEPT !.at = "before"] /\ Turn \in Turns
         /\ Turn = controls[1] /\ Turn' = controls'[1] /\ 1 \in DOMAIN controls
         /\ \A n \in DOMAIN controls' : n > 1 => controls'[n] = controls[n]
  BY GoesMeans DEF ResumeStarts, TurnAt, Current, stages, disk
<1>h. SameStages
  BY DEF Op, Turn, Waits, Tracked, StageUnderWay, ResumeStarts, TurnAt, Current, stages, disk
<1>i. StageUnderWay => ops # <<>> /\ Tracked # {} /\ ~Idle
  BY UnderWay
<1>w. TypeOK /\ DeliveryTypeOK
  BY DEF DeliveryIsEarned
<1>f. DeliveryTypeOK' /\ PausedIsDrained' /\ BudgetKept' /\ ResumedOnce' /\ QueueStands' /\
        StagesStand' /\ ModesStand' /\ CountsStand' /\ EndStands' /\ JobStands' /\ DeliveryIsEarned'
  BY Frames DEF ResumeStarts, TurnAt, Current, stages, disk
<1>t. TypeOK'
  <2> QED BY <1>w, <1>c DEF ResumeStarts, TurnAt, stages, disk, TypeOK, Turns
<1>s. SavesStand'
  BY <1>j, <1>c, <1>h, <1>i
     DEF ResumeStarts, TurnAt, Current, stages, disk, Owned, SavesStand, Waits, WhatIsSaved, Begun,
         Concluded, Recorded
<1>k1. TurnsStand'
  BY <1>j, <1>c, <1>h, <1>i, TurnsKept
     DEF ResumeStarts, TurnAt, Current, stages, disk, ControlsStand
<1>k. ControlsStand'
  BY <1>j, <1>c, <1>h, <1>i, <1>k1
     DEF ResumeStarts, TurnAt, Current, stages, disk, Heard, Owned, Live, Alive, Pending, Idle,
         NoSave, NoJob, Terminal, Resumable, Tracked, TypeOK, ControlsStand, SavesStand, Waits,
         WhatIsSaved, ModesStand, AtRest, Commits, Turns, PausesStand, PausedIsDrained, CountsStand,
         InStep, Stages
<1>p. PausesStand'
  BY <1>j, <1>c, <1>h, <1>i
     DEF ResumeStarts, TurnAt, Current, stages, disk, Owned, PausesStand, Unsaved, Resumable
<1> QED BY <1>f, <1>t, <1>s, <1>k, <1>p

(* A resume that consumes its checkpoint still finds the pause at the head of the journal. *)
LEMMA ResumeConsumesStands ==
  ASSUME Inv, ResumeConsumes, UNCHANGED deliveryVars
  PROVE  Inv'
<1> USE DEF Inv, DeliveryStands, SameOnDisk, deliveryVars, Owned, SameStages
<1>j. SameOnDisk
  BY JournalStays DEF ResumeConsumes, TurnAt, StillCurrent, Current, stages, disk
<1>c. /\ controls # <<>> /\ controls' \in Seq(Turns) /\ controls' # <<>> /\
           DOMAIN controls' = DOMAIN controls
         /\ Turn' = [Turn EXCEPT !.at = "consumed"] /\ Turn \in Turns
         /\ Turn = controls[1] /\ Turn' = controls'[1] /\ 1 \in DOMAIN controls
         /\ \A n \in DOMAIN controls' : n > 1 => controls'[n] = controls[n]
  BY GoesMeans DEF ResumeConsumes, TurnAt, StillCurrent, Current, stages, disk
<1>h. SameStages
  BY
     DEF Op, Turn, Waits, Tracked, StageUnderWay, ResumeConsumes, TurnAt, StillCurrent, Current,
         stages, disk
<1>i. StageUnderWay => ops # <<>> /\ Tracked # {} /\ ~Idle
  BY UnderWay
<1>w. TypeOK /\ DeliveryTypeOK
  BY DEF DeliveryIsEarned
<1>x. /\ Turn.kind = "resume" /\ Turn.at = "before" /\ Owned /\ mode = "paused" /\
           mode' = "resuming"
      /\ checkpoint' = NoCheckpoint
      /\ UNCHANGED <<permitted, stopping, qualifying, core, ops, actor, author, space, custody,
           state, save, journal, store, faults>> /\ UNCHANGED deliveryVars
  BY DEF ResumeConsumes, TurnAt, StillCurrent, Current, stages, disk
<1>z. /\ ops = <<>> /\ job = NoJob /\ actor = "none" /\ ~author /\ space = "none" /\ ~custody
      /\ journal # <<>> /\ Last = "pause" /\ ~core.stopped /\ core.denied /\ stopping.at = "no"
      /\ save = NoSave /\ save.at = "none" /\ state.revision = Len(journal)
      /\ state.phase \in Resumable /\ ~OnDisk("STOPPED")
  BY <1>x DEF ModesStand, AtRest, PausedIsDrained, NoSave, Last
<1>f. DeliveryTypeOK' /\ EndStands' /\ JobStands' /\ DeliveryIsEarned'
  BY Frames, <1>x, <1>z DEF ResumeConsumes, TurnAt, StillCurrent, Current, stages, disk
<1>t. TypeOK'
  <2>checkpoint. checkpoint' \in [id : Nat, head : Nat]
    BY <1>w, <1>x, <1>z, <1>c DEF NoSave, TypeOK, NoCheckpoint, Turns
  <2> QED BY <1>w, <1>c, <1>x, <1>z, <2>checkpoint DEF TypeOK, Turns
<1>d. PausedIsDrained'
  BY <1>j, <1>c, <1>h, <1>i, <1>x, <1>z DEF NoSave, PausedIsDrained
<1>b. BudgetKept'
  BY <1>j, <1>c, <1>h, <1>i, <1>x, <1>z, ContinuityAssumption DEF NoSave, BudgetKept
<1>r. ResumedOnce'
  BY <1>j, <1>c, <1>h, <1>i, <1>x, <1>z DEF NoSave, ResumedOnce
<1>s. SavesStand'
  BY <1>j, <1>c, <1>h, <1>i, <1>x, <1>z
     DEF NoSave, SavesStand, Waits, WhatIsSaved, Begun, Concluded, Recorded
<1>g1. QueueStands'
  BY <1>j, <1>c, <1>h, <1>i, <1>x, <1>z, QueueKept
     DEF NoSave, ResumeConsumes, StagesStand, TypeOK, Cores, ModesStand, AtRest
<1>g. StagesStand'
  BY <1>j, <1>c, <1>h, <1>i, <1>x, <1>z, <1>g1 DEF NoSave, StagesStand, StageUnderWay, Resumable
<1>m. ModesStand'
  BY <1>j, <1>c, <1>h, <1>i, <1>x, <1>z DEF NoSave, ModesStand, AtRest, Resumable
<1>k1. TurnsStand'
  BY <1>j, <1>c, <1>h, <1>i, <1>x, <1>z, TurnsKept
     DEF NoSave, ResumeConsumes, ControlsStand, ModesStand, AtRest
<1>k. ControlsStand'
  <2>1. controls' # <<>> /\ Turn'.at # "queued" =>
            /\ ops' = <<>> /\ job' = NoJob
            /\ <<Turn'.kind, Turn'.at>> \in
                 {<<kind, "cleaning">> : kind \in {"pause", "resume"}}
                   \cup {<<"pause", at>> : at \in {"closing", "before", "saving", "after"}}
                   \cup {<<"resume", at>> : at \in {"before", "consumed", "saving", "after"}}
    BY <1>j, <1>c, <1>h, <1>i, <1>x, <1>z, <1>k1 DEF NoSave, ControlsStand
  <2>2. controls' # <<>> /\ Turn'.at # "queued" =>
            mode' \in {"stopped", IF Turn'.at = "cleaning" THEN "blocked"
                                  ELSE IF Turn'.kind = "pause" THEN "pausing"
                                  ELSE IF Turn'.at = "before" THEN "paused" ELSE "resuming"}
    BY <1>j, <1>c, <1>h, <1>i, <1>x, <1>z, <1>k1 DEF NoSave, ControlsStand
  <2>3. controls' # <<>> /\ mode' # "stopped" =>
            /\ (Turn'.kind = "pause" /\ Turn'.at \in {"saving", "after"} => space' = "none" /\
                  ~custody')
            /\ (Turn'.at = "after" => journal' # <<>> /\ Last' = Turn'.kind)
            /\ (Turn'.at = "consumed" => journal' # <<>> /\ Last' = "pause")
    BY <1>j, <1>c, <1>h, <1>i, <1>x, <1>z, <1>k1 DEF NoSave, ControlsStand
  <2> QED BY <2>1, <2>2, <2>3, <1>k1 DEF ControlsStand
<1>n. CountsStand'
  BY <1>j, <1>c, <1>h, <1>i, <1>x, <1>z, ContinuityAssumption
     DEF NoSave, CountsStand, InStep, Unsaved, Terminal, Resumable
<1>p. PausesStand'
  BY <1>j, <1>c, <1>h, <1>i, <1>x, <1>z DEF NoSave, PausesStand, Unsaved, Resumable
<1> QED BY <1>f, <1>t, <1>d, <1>b, <1>r, <1>s, <1>g, <1>m, <1>k, <1>n, <1>p

(* The record of a resume follows that of the pause. *)
LEMMA ResumeRecordsStands ==
  ASSUME Inv, ResumeRecords, UNCHANGED deliveryVars
  PROVE  Inv'
<1> USE DEF Inv, DeliveryStands, SameOnDisk, deliveryVars, Owned, SameStages
<1>j. SameOnDisk
  BY JournalStays DEF ResumeRecords, TurnAt, Clean, Commit, stages
<1>c. /\ controls # <<>> /\ controls' \in Seq(Turns) /\ controls' # <<>> /\
           DOMAIN controls' = DOMAIN controls
         /\ Turn' = [Turn EXCEPT !.at = "saving"] /\ Turn \in Turns
         /\ Turn = controls[1] /\ Turn' = controls'[1] /\ 1 \in DOMAIN controls
         /\ \A n \in DOMAIN controls' : n > 1 => controls'[n] = controls[n]
  BY GoesMeans DEF ResumeRecords, TurnAt, Clean, Commit, stages
<1>h. SameStages
  BY DEF Op, Turn, Waits, Tracked, StageUnderWay, ResumeRecords, TurnAt, Clean, Commit, stages
<1>i. StageUnderWay => ops # <<>> /\ Tracked # {} /\ ~Idle
  BY UnderWay
<1>w. TypeOK /\ DeliveryTypeOK
  BY DEF DeliveryIsEarned
<1>f. DeliveryTypeOK' /\ ResumedOnce' /\ QueueStands' /\ DeliveryIsEarned'
  BY Frames DEF ResumeRecords, TurnAt, Clean, Commit, stages
<1>t. TypeOK'
  <2>save. save' \in Commits \cup {NoSave}
    <3>1. state.phase \in Phases /\ core.epoch \in Nat
      BY <1>w DEF TypeOK, States, Cores
    <3>2. Commit("control", "resume", state.phase, state.attempts, core.epoch)
      BY DEF ResumeRecords
    <3> QED BY <1>w, <3>1, <3>2, CommitMeans DEF Types
  <2> QED BY <1>w, <1>c, <2>save DEF ResumeRecords, TurnAt, Commit, stages, TypeOK, Turns
<1>d. PausedIsDrained'
  BY <1>j, <1>c, <1>h, <1>i
     DEF ResumeRecords, TurnAt, Clean, Commit, stages, NoSave, PausedIsDrained
<1>b. BudgetKept'
  BY <1>j, <1>c, <1>h, <1>i, ContinuityAssumption
     DEF ResumeRecords, TurnAt, Clean, Commit, stages, NoSave, BudgetKept
<1>s. SavesStand'
  <2>1. \A who \in {"op", "control", "stop", "delivery"} : Waits(who)' <=> save'.at # "none" /\
          save'.for = who
    BY <1>j, <1>c, <1>h, <1>i
       DEF ResumeRecords, TurnAt, Clean, Commit, stages, Heard, Live, Alive, Pending, Idle, NoSave,
           NoJob, Terminal, Resumable, Tracked, TypeOK, SavesStand, WhatIsSaved, Begun, Concluded,
           Recorded, Waits, ModesStand, ControlsStand, StagesStand, StageUnderWay, Unsaved, Commits,
           States, AtRest, Stages, Turns, Cores
  <2>2. save'.at # "none" => WhatIsSaved'
    BY <1>j, <1>c, <1>h, <1>i
       DEF ResumeRecords, TurnAt, Clean, Commit, stages, Heard, Live, Alive, Pending, Idle, NoSave,
           NoJob, Terminal, Resumable, Tracked, TypeOK, SavesStand, WhatIsSaved, Begun, Concluded,
           Recorded, Waits, ModesStand, ControlsStand, StagesStand, StageUnderWay, Unsaved, Commits,
           States, AtRest, Stages, Turns, Cores
  <2>3. save'.at # "none" => save'.epoch <= core'.epoch /\ (save'.epoch = core'.epoch /\
          save'.for \in {"op", "delivery"} => mode' = "active")
    BY <1>j, <1>c, <1>h, <1>i
       DEF ResumeRecords, TurnAt, Clean, Commit, stages, Heard, Live, Alive, Pending, Idle, NoSave,
           NoJob, Terminal, Resumable, Tracked, TypeOK, SavesStand, WhatIsSaved, Begun, Concluded,
           Recorded, Waits, ModesStand, ControlsStand, StagesStand, StageUnderWay, Unsaved, Commits,
           States, AtRest, Stages, Turns, Cores
  <2>4. save'.at \in {"written", "ok"} => journal' # <<>> /\ Len(journal') = save'.next.revision /\
          Last' = save'.type
    BY <1>j, <1>c, <1>h, <1>i
       DEF ResumeRecords, TurnAt, Clean, Commit, stages, Heard, Live, Alive, Pending, Idle, NoSave,
           NoJob, Terminal, Resumable, Tracked, TypeOK, SavesStand, WhatIsSaved, Begun, Concluded,
           Recorded, Waits, ModesStand, ControlsStand, StagesStand, StageUnderWay, Unsaved, Commits,
           States, AtRest, Stages, Turns, Cores
  <2>5. save'.at = "ok" => state' = save'.next
    BY <1>j, <1>c, <1>h, <1>i
       DEF ResumeRecords, TurnAt, Clean, Commit, stages, Heard, Live, Alive, Pending, Idle, NoSave,
           NoJob, Terminal, Resumable, Tracked, TypeOK, SavesStand, WhatIsSaved, Begun, Concluded,
           Recorded, Waits, ModesStand, ControlsStand, StagesStand, StageUnderWay, Unsaved, Commits,
           States, AtRest, Stages, Turns, Cores
  <2>6. save'.at \notin {"none", "ok"} =>
            /\ save'.next.revision = state'.revision + 1
            /\ save'.next.attempts = state'.attempts + (IF save'.type = "attempt" THEN 1 ELSE 0)
    BY <1>j, <1>c, <1>h, <1>i
       DEF ResumeRecords, TurnAt, Clean, Commit, stages, Heard, Live, Alive, Pending, Idle, NoSave,
           NoJob, Terminal, Resumable, Tracked, TypeOK, SavesStand, WhatIsSaved, Begun, Concluded,
           Recorded, Waits, ModesStand, ControlsStand, StagesStand, StageUnderWay, Unsaved, Commits,
           States, AtRest, Stages, Turns, Cores
  <2> QED BY <2>1, <2>2, <2>3, <2>4, <2>5, <2>6 DEF SavesStand
<1>g. StagesStand'
  BY <1>j, <1>c, <1>h, <1>i, <1>f
     DEF ResumeRecords, TurnAt, Clean, Commit, stages, NoSave, StagesStand, StageUnderWay, Resumable
<1>m. ModesStand'
  BY <1>j, <1>c, <1>h, <1>i
     DEF ResumeRecords, TurnAt, Clean, Commit, stages, NoSave, ModesStand, AtRest, Resumable
<1>k1. TurnsStand'
  BY <1>j, <1>c, <1>h, <1>i, TurnsKept
     DEF ResumeRecords, TurnAt, Clean, Commit, stages, ControlsStand
<1>k. ControlsStand'
  BY <1>j, <1>c, <1>h, <1>i, <1>k1
     DEF ResumeRecords, TurnAt, Clean, Commit, stages, NoSave, ControlsStand
<1>n. CountsStand'
  BY <1>j, <1>c, <1>h, <1>i, ContinuityAssumption
     DEF ResumeRecords, TurnAt, Clean, Commit, stages, Heard, Live, Alive, Pending, Idle, NoSave,
         NoJob, Terminal, Resumable, Tracked, TypeOK, CountsStand, InStep, SavesStand, Waits,
         WhatIsSaved, Begun, Concluded, Recorded, ModesStand, StagesStand, StageUnderWay, AtRest,
         Unsaved, Commits, States, Phases, Stages, ControlsStand
<1>p. PausesStand'
  BY <1>j, <1>c, <1>h, <1>i
     DEF ResumeRecords, TurnAt, Clean, Commit, stages, Heard, Live, Alive, Pending, Idle, NoSave,
         NoJob, Terminal, Resumable, Tracked, TypeOK, PausesStand, ModesStand, ControlsStand,
         AtRest, StagesStand, StageUnderWay, SavesStand, WhatIsSaved, Begun, Concluded, Recorded,
         Waits, Unsaved, Commits, States, Turns, Stages
<1>e. EndStands'
  BY <1>j, <1>c, <1>h, <1>i
     DEF ResumeRecords, TurnAt, Clean, Commit, stages, Heard, Live, Alive, Pending, Idle, NoSave,
         NoJob, Terminal, Resumable, Tracked, TypeOK, EndStands, CountsStand, InStep, ModesStand,
         AtRest, StagesStand, StageUnderWay, SavesStand, Waits, WhatIsSaved, Begun, Concluded,
         Recorded, Unsaved, Commits, States, Stages
<1>y. JobStands'
  BY <1>j, <1>c, <1>h, <1>i
     DEF ResumeRecords, TurnAt, Clean, Commit, stages, Heard, Live, Alive, Pending, Idle, NoSave,
         NoJob, Terminal, Resumable, Tracked, TypeOK, DeliveryIsEarned, DeliveryTypeOK, JobStands,
         SavesStand, Waits, WhatIsSaved, Begun, Concluded, Recorded, Unsaved, ModesStand, Commits,
         Kinds, InOrder
<1> QED BY <1>f, <1>t, <1>d, <1>b, <1>s, <1>g, <1>m, <1>k, <1>n, <1>p, <1>e, <1>y

(* The owner is active again, and no pause is open. *)
LEMMA ResumedStands ==
  ASSUME Inv, Resumed, UNCHANGED deliveryVars
  PROVE  Inv'
<1> USE DEF Inv, DeliveryStands, SameOnDisk, deliveryVars, Owned, SameStages
<1>j. SameOnDisk
  BY JournalStays DEF Resumed, TurnAt, stages, disk
<1>c. /\ controls # <<>> /\ (controls' # <<>> => Turn'.at = "queued")
         /\ controls' \in Seq(Turns) /\ Turn \in Turns /\ Turn = controls[1] /\
              1 \in DOMAIN controls
         /\ \A n \in DOMAIN controls' : n + 1 \in DOMAIN controls /\ n + 1 > 1 /\
              controls'[n] = controls[n + 1]
         /\ (controls' # <<>> => Turn' = controls[2] /\ 2 \in DOMAIN controls)
  BY OverMeans DEF ControlsStand, Resumed, TurnAt, stages, disk
<1>h. SameStages
  BY DEF Op, Turn, Waits, Tracked, StageUnderWay, Resumed, TurnAt, stages, disk
<1>i. StageUnderWay => ops # <<>> /\ Tracked # {} /\ ~Idle
  BY UnderWay
<1>w. TypeOK /\ DeliveryTypeOK
  BY DEF DeliveryIsEarned
<1>ep. /\ core' \in Cores /\ core.epoch \in Nat /\ core'.epoch \in Nat /\
            core'.epoch >= core.epoch /\ core'.epoch = core.epoch
          /\ core'.stopped = core.stopped /\ core'.closing = core.closing
  <2>1. core \in Cores /\ core' = [core EXCEPT !.denied = FALSE]
    BY <1>w DEF TypeOK, Resumed
  <2>2. core' \in Cores /\ core'.epoch = core.epoch /\ core'.closing = core.closing /\
          core.epoch \in Nat
    BY <2>1 DEF Cores
  <2>3. core'.stopped = core.stopped
    BY <2>1 DEF Cores
  <2> QED BY <2>2, <2>3
<1>x. /\ Turn.kind = "resume" /\ Turn.at = "after" /\ Alive /\ mode = "resuming" /\ mode' = "active"
      /\ permitted' = "author" /\ ~core'.denied
      /\ UNCHANGED <<checkpoint, stopping, qualifying, ops, actor, author, space, custody, state,
           save, journal, store, faults>> /\ UNCHANGED deliveryVars
  BY <1>w DEF Resumed, TurnAt, stages, disk, TypeOK, Cores
<1>z. /\ ops = <<>> /\ job = NoJob /\ actor = "none" /\ ~author /\ stopping.at = "no" /\
           ~core.stopped /\ Owned
      /\ journal # <<>> /\ Last = "resume" /\ ~OpenPause /\ save = NoSave /\ save.at = "none"
      /\ state.revision = Len(journal) /\ Spent = state.attempts /\ state.phase \in Resumable /\
           ~OnDisk("STOPPED")
  <2>1. /\ ops = <<>> /\ job = NoJob /\ actor = "none" /\ ~author /\ ~core.stopped /\
             stopping.at = "no" /\ Owned
        /\ state.phase \in Resumable /\ ~OnDisk("STOPPED")
    BY <1>x DEF ModesStand, AtRest, Alive, Live
  <2>2. journal # <<>> /\ Last = "resume"
    BY <1>x, <1>c DEF ControlsStand
  <2>3. ~OpenPause
    <3>1. Len(journal) \in DOMAIN journal /\ \A i \in DOMAIN journal : i # Len(journal) =>
            Len(journal) > i
      BY <1>w, <2>2 DEF TypeOK
    <3> QED BY <2>2, <3>1 DEF Last, OpenPause
  <2>4. save = NoSave /\ save.at = "none"
    BY <1>x, <2>1, NobodyWaits DEF NoJob
  <2>5. state.revision = Len(journal) /\ Spent = state.attempts
    BY <1>x, <2>1, <2>4, HeardInStep
  <2> QED BY <2>1, <2>2, <2>3, <2>4, <2>5
<1>f. DeliveryTypeOK' /\ JobStands' /\ DeliveryIsEarned'
  BY Frames, <1>x, <1>z DEF Resumed, TurnAt, stages, disk
<1>t. TypeOK'
  <2>core. core' \in Cores
    BY <1>ep
  <2> QED BY <1>w, <1>c, <1>x, <1>z, <2>core DEF TypeOK, Turns
<1>d. PausedIsDrained'
  BY <1>j, <1>c, <1>h, <1>i, <1>ep, <1>x, <1>z DEF NoSave, PausedIsDrained
<1>b. BudgetKept'
  BY <1>j, <1>c, <1>h, <1>i, <1>ep, <1>x, <1>z, ContinuityAssumption DEF NoSave, BudgetKept
<1>r. ResumedOnce'
  BY <1>j, <1>c, <1>h, <1>i, <1>ep, <1>x, <1>z DEF NoSave, ResumedOnce
<1>s. SavesStand'
  BY <1>j, <1>c, <1>h, <1>i, <1>ep, <1>x, <1>z
     DEF NoSave, SavesStand, Waits, WhatIsSaved, Begun, Concluded, Recorded
<1>g1. QueueStands'
  BY <1>j, <1>c, <1>h, <1>i, <1>ep, <1>x, <1>z, QueueKept
     DEF NoSave, Resumed, StagesStand, TypeOK, Cores, ModesStand, AtRest
<1>g. StagesStand'
  BY <1>j, <1>c, <1>h, <1>i, <1>ep, <1>x, <1>z, <1>g1
     DEF NoSave, StagesStand, StageUnderWay, Resumable
<1>m. ModesStand'
  <2>1. stopping'.at # "no" <=> mode' = "stopped"
    BY <1>j, <1>c, <1>h, <1>i, <1>ep, <1>x, <1>z DEF NoSave, ModesStand, AtRest, Resumable
  <2>2. core'.closing # "no" \/ store'.revoked \/ mode' = "blocked" => core'.stopped
    BY <1>j, <1>c, <1>h, <1>i, <1>ep, <1>x, <1>z DEF NoSave, ModesStand, AtRest, Resumable
  <2>3. core'.stopped => store'.revoked \/ mode' = "stopped"
    BY <1>j, <1>c, <1>h, <1>i, <1>ep, <1>x, <1>z DEF NoSave, ModesStand, AtRest, Resumable
  <2>4. core'.closing = "closed" => store'.closed
    BY <1>j, <1>c, <1>h, <1>i, <1>ep, <1>x, <1>z DEF NoSave, ModesStand, AtRest, Resumable
  <2>5. core'.closing \in {"closed", "failed"} => save'.at = "none"
    BY <1>j, <1>c, <1>h, <1>i, <1>ep, <1>x, <1>z DEF NoSave, ModesStand, AtRest, Resumable
  <2>6. mode' \in AtRest \cup {"blocked"} =>
            ops' = <<>> /\ actor' = "none" /\ ~author' /\ job' = NoJob /\ ~OnDisk("STOPPED")'
    BY <1>j, <1>c, <1>h, <1>i, <1>ep, <1>x, <1>z DEF NoSave, ModesStand, AtRest, Resumable
  <2>7. mode' \in AtRest => ~core'.stopped /\ core'.denied /\ state'.phase \in Resumable
    BY <1>j, <1>c, <1>h, <1>i, <1>ep, <1>x, <1>z DEF NoSave, ModesStand, AtRest, Resumable
  <2>8. qualifying' <=> job' # NoJob
    BY <1>j, <1>c, <1>h, <1>i, <1>ep, <1>x, <1>z DEF NoSave, ModesStand, AtRest, Resumable
  <2>9. job' # NoJob =>
            /\ ops' = <<>> /\ mode' \in {"active", "stopped"} /\ stopping'.at \in {"no", "called"}
            /\ ~OnDisk("STOPPED")' /\ state'.phase = "DIAGNOSTIC_READY"
    BY <1>j, <1>c, <1>h, <1>i, <1>ep, <1>x, <1>z DEF NoSave, ModesStand, AtRest, Resumable
  <2>10. stopping'.at = "controls" => ops' = <<>>
    BY <1>j, <1>c, <1>h, <1>i, <1>ep, <1>x, <1>z DEF NoSave, ModesStand, AtRest, Resumable
  <2>11. stopping'.at \in {"closing", "saving"} => Tracked' = {}
    BY <1>j, <1>c, <1>h, <1>i, <1>ep, <1>x, <1>z DEF NoSave, ModesStand, AtRest, Resumable
  <2>12. stopping'.at = "saving" => ~core'.stopped
    BY <1>j, <1>c, <1>h, <1>i, <1>ep, <1>x, <1>z DEF NoSave, ModesStand, AtRest, Resumable
  <2>13. stopping'.at = "stopped" => ~stopping'.failed /\ core'.closing = "closed"
    BY <1>j, <1>c, <1>h, <1>i, <1>ep, <1>x, <1>z DEF NoSave, ModesStand, AtRest, Resumable
  <2>14. stopping'.failed => stopping'.at \in {"core", "failed"}
    BY <1>j, <1>c, <1>h, <1>i, <1>ep, <1>x, <1>z DEF NoSave, ModesStand, AtRest, Resumable
  <2> QED BY <2>1, <2>2, <2>3, <2>4, <2>5, <2>6, <2>7, <2>8, <2>9, <2>10, <2>11, <2>12, <2>13, <2>14
             DEF ModesStand
<1>k1. TurnsStand'
  BY <1>j, <1>c, <1>h, <1>i, <1>ep, <1>x, <1>z, TurnsKept
     DEF NoSave, Resumed, ControlsStand, ModesStand, AtRest
<1>k. ControlsStand'
  <2>1. controls' # <<>> /\ Turn'.at # "queued" =>
            /\ ops' = <<>> /\ job' = NoJob
            /\ <<Turn'.kind, Turn'.at>> \in
                 {<<kind, "cleaning">> : kind \in {"pause", "resume"}}
                   \cup {<<"pause", at>> : at \in {"closing", "before", "saving", "after"}}
                   \cup {<<"resume", at>> : at \in {"before", "consumed", "saving", "after"}}
    BY <1>j, <1>c, <1>h, <1>i, <1>ep, <1>x, <1>z, <1>k1 DEF NoSave, ControlsStand
  <2>2. controls' # <<>> /\ Turn'.at # "queued" =>
            mode' \in {"stopped", IF Turn'.at = "cleaning" THEN "blocked"
                                  ELSE IF Turn'.kind = "pause" THEN "pausing"
                                  ELSE IF Turn'.at = "before" THEN "paused" ELSE "resuming"}
    BY <1>j, <1>c, <1>h, <1>i, <1>ep, <1>x, <1>z, <1>k1 DEF NoSave, ControlsStand
  <2>3. controls' # <<>> /\ mode' # "stopped" =>
            /\ (Turn'.kind = "pause" /\ Turn'.at \in {"saving", "after"} => space' = "none" /\
                  ~custody')
            /\ (Turn'.at = "after" => journal' # <<>> /\ Last' = Turn'.kind)
            /\ (Turn'.at = "consumed" => journal' # <<>> /\ Last' = "pause")
    BY <1>j, <1>c, <1>h, <1>i, <1>ep, <1>x, <1>z, <1>k1 DEF NoSave, ControlsStand
  <2> QED BY <2>1, <2>2, <2>3, <1>k1 DEF ControlsStand
<1>n. CountsStand'
  BY <1>j, <1>c, <1>h, <1>i, <1>ep, <1>x, <1>z, ContinuityAssumption
     DEF NoSave, CountsStand, InStep, Unsaved, Terminal, Resumable
<1>p. PausesStand'
  <2>1. OpenPause' =>
            \/ mode' \in {"paused", "resuming", "blocked", "stopped"}
            \/ mode' = "pausing" /\ controls' # <<>> /\ Turn'.kind = "pause" /\
                 Turn'.at \in {"saving", "after"}
    BY <1>j, <1>c, <1>h, <1>i, <1>ep, <1>x, <1>z DEF NoSave, PausesStand, Unsaved, Resumable
  <2>2. Unsaved' /\ save'.type = "pause" => ~OpenPause'
    BY <1>j, <1>c, <1>h, <1>i, <1>ep, <1>x, <1>z DEF NoSave, PausesStand, Unsaved, Resumable
  <2>3. Unsaved' /\ save'.type = "resume" => journal' # <<>> /\ Last' = "pause"
    BY <1>j, <1>c, <1>h, <1>i, <1>ep, <1>x, <1>z DEF NoSave, PausesStand, Unsaved, Resumable
  <2>4. journal' # <<>> /\ Last' = "resume" =>
            /\ state'.phase \in Resumable
            /\ (Unsaved' => save'.type \in {"attempt", "pause", "STOPPED"})
    BY <1>j, <1>c, <1>h, <1>i, <1>ep, <1>x, <1>z DEF NoSave, PausesStand, Unsaved, Resumable
  <2> QED BY <2>1, <2>2, <2>3, <2>4 DEF PausesStand
<1>e. EndStands'
  BY <1>j, <1>c, <1>h, <1>i, <1>ep, <1>x, <1>z DEF NoSave, EndStands, Terminal
<1> QED BY <1>f, <1>t, <1>d, <1>b, <1>r, <1>s, <1>g, <1>m, <1>k, <1>n, <1>p, <1>e

(* A control that fails blocks the owner, unless it was stopped; nothing else was under way. *)
LEMMA ControlFailsStands ==
  ASSUME Inv, ControlFails, UNCHANGED deliveryVars
  PROVE  Inv'
<1> USE DEF Inv, DeliveryStands, SameOnDisk, deliveryVars, Owned, SameStages
<1>j. SameOnDisk
  BY JournalStays
     DEF ControlFails, TurnAt, Answered, Saved, MayContinue, Closing, Fenced, RevokedSpace, Clean,
         StillCurrent, Current
<1>h. SameStages
  BY
     DEF Op, Turn, Waits, Tracked, StageUnderWay, ControlFails, TurnAt, Answered, Saved,
         MayContinue, Closing, Fenced, RevokedSpace, Clean, StillCurrent, Current
<1>i. StageUnderWay => ops # <<>> /\ Tracked # {} /\ ~Idle
  BY UnderWay
<1>w. TypeOK /\ DeliveryTypeOK
  BY DEF DeliveryIsEarned
<1>ep. /\ core' \in Cores /\ core.epoch \in Nat /\ core'.epoch \in Nat /\ core'.epoch >= core.epoch
          /\ (mode = "stopped" => core' = core)
          /\ (mode # "stopped" => core'.stopped /\ core'.denied /\ core'.epoch > core.epoch)
          /\ (core.closing # "no" => core'.closing = core.closing)
          /\ (core.closing = "no" /\ mode # "stopped" => core'.closing = "waiting")
  <2>1. core \in Cores /\ (core.closing # "no" => core.stopped)
    BY <1>w DEF TypeOK, ModesStand
  <2>2. IF mode = "stopped" THEN core' = core ELSE core' = Closing(Fenced(core))
    BY DEF ControlFails
  <2>3. /\ Fenced(core) \in Cores /\ Fenced(core).epoch \in Nat /\ core.epoch \in Nat /\
             Fenced(core).epoch > core.epoch
        /\ Fenced(core).denied /\ Fenced(core).stopped = core.stopped /\
             Fenced(core).closing = core.closing
    BY <2>1, CoreFenced
  <2>f. PICK f \in Cores : f = Fenced(core)
    BY <2>3
  <2> DEFINE d == Closing(f)
  <2>4. /\ d \in Cores /\ d.epoch \in Nat /\ d.epoch >= f.epoch
        /\ d.denied = f.denied /\ d.closing # "no"
        /\ (f.closing = "no" => d.stopped /\ d.closing = "waiting")
        /\ (f.closing # "no" => d = f)
    BY CoreClosed
  <2> QED BY <2>1, <2>2, <2>3, <2>f, <2>4
<1>x. /\ controls # <<>> /\ checkpoint' = NoCheckpoint /\ space' = RevokedSpace
      /\ (mode = "stopped" => mode' = mode /\ store' = store /\ Over)
      /\ (mode # "stopped" => mode' = "blocked" /\ store'.revoked /\ Goes("cleaning"))
      /\ store' \in Stores /\ store'.poisoned = store.poisoned /\ store'.closed = store.closed /\
           faults' \in {faults, faults + 1}
      /\ UNCHANGED <<permitted, stopping, qualifying, ops, actor, author, custody, state,
           journal>> /\ UNCHANGED deliveryVars
  BY <1>w DEF ControlFails, TypeOK, Stores
<1>c. /\ controls' \in Seq(Turns) /\ Turn \in Turns /\ Turn.kind \in {"pause", "resume"} /\
           TurnsStand'
      /\ (mode = "stopped" => (controls' # <<>> => Turn'.at = "queued"))
      /\ (mode # "stopped" => controls' # <<>> /\ Turn'.at = "cleaning" /\ Turn'.kind = Turn.kind)
  <2>1. TurnsStand
    BY DEF ControlsStand
  <2>2. TurnsStand'
    BY <1>x, <1>w, <2>1, TurnsKept
  <2>3. mode = "stopped" => controls' \in Seq(Turns) /\ Turn \in Turns /\ (controls' # <<>> =>
          Turn'.at = "queued")
    BY <1>x, <1>w, <2>1, OverMeans
  <2>4. mode # "stopped" => /\ controls' \in Seq(Turns) /\ Turn \in Turns
                            /\ controls' # <<>> /\ Turn'.at = "cleaning" /\ Turn'.kind = Turn.kind
    BY <1>x, <1>w, GoesMeans DEF Turns
  <2> QED BY <2>2, <2>3, <2>4 DEF Turns
<1>z. /\ ops = <<>> /\ job = NoJob
      /\ \/ save' = save /\ mode = "stopped" /\ (save.at # "none" => save.for = "stop")
         \/ save' = NoSave /\ save.at \in {"none", "ok", "failed"} /\ (save.at # "none" =>
              save.for = "control")
      /\ (mode # "stopped" => actor = "none" /\ ~author /\ ~OnDisk("STOPPED") /\ stopping.at = "no")
  <2>1. Turn.at # "queued" \/ Turn.kind = "pause"
    <3>1. SUFFICES ASSUME Turn.at = "queued", Turn.kind # "pause"
                   PROVE  FALSE
      OBVIOUS
    <3>2. MayContinue
      BY <3>1 DEF MayContinue
    <3> QED BY <3>1, <3>2 DEF ControlFails
  <2>2. Turn = controls[1] /\ 1 \in DOMAIN controls
    BY <1>w, <1>x DEF Turn, TypeOK
  <2>3. ops = <<>> /\ job = NoJob
    BY <1>x, <2>1, <2>2 DEF ControlsStand, TurnsStand
  <2>4. /\ mode # "stopped" => mode \in AtRest \cup {"blocked"}
        /\ Turn.at = "queued" => Turn.at # "saving"
    BY <1>x, <2>1, <2>2 DEF ControlsStand, TurnsStand, AtRest
  <2>5. mode # "stopped" => actor = "none" /\ ~author /\ ~OnDisk("STOPPED") /\ stopping.at = "no"
    BY <1>w, <2>4 DEF ModesStand
  <2>6. ASSUME save.at # "none"
        PROVE  /\ save.for \in {"control", "stop"} /\ (save.for = "stop" => mode = "stopped")
               /\ (save.for = "control" => Turn.at = "saving")
    BY <2>3, <2>6, WhoWaits
  <2>7. save.at # "none" /\ save.for = "control" => Answered("control")
    BY <2>6 DEF ControlFails, Answered
  <2>8. save' = IF Answered("control") THEN NoSave ELSE save
    BY DEF ControlFails
  <2>9. save = NoSave \/ save.at # "none"
    BY <1>w DEF TypeOK, Commits
  <2> QED BY <2>3, <2>5, <2>6, <2>7, <2>8, <2>9 DEF Answered, NoSave
<1>f. DeliveryTypeOK' /\ DeliveryIsEarned'
  BY Frames, <1>x, <1>c, <1>z
     DEF ControlFails, TurnAt, Answered, Saved, MayContinue, RevokedSpace, Clean, StillCurrent,
         Current
<1>t. TypeOK'
  <2>save. save' \in Commits \cup {NoSave}
    BY <1>w, <1>x, <1>c, <1>z, ContinuityAssumption
       DEF NoSave, TypeOK, Commits, States, Phases, Types, Papers, Terminal, Resumable, Cores,
           SavesStand, StagesStand, StageUnderWay, Stages, Heard
  <2>store. store' \in Stores
    BY <1>w, <1>x, <1>c, <1>z
       DEF ControlFails, TurnAt, Answered, Saved, RevokedSpace, TypeOK, Stores
  <2>core. core' \in Cores
    BY <1>ep
  <2>checkpoint. checkpoint' \in [id : Nat, head : Nat]
    BY <1>w, <1>x, <1>c, <1>z, <1>c DEF NoSave, TypeOK, NoCheckpoint, Turns
  <2>faults. faults' \in 0 .. MaxFaults
    BY <1>w, <1>x, <1>c, <1>z, ContinuityAssumption
       DEF ControlFails, TurnAt, Answered, Saved, RevokedSpace, TypeOK, Stores
  <2>space. space' \in {"none", "open", "revoked"}
    BY <1>w, <1>x, <1>c, <1>z DEF ControlFails, RevokedSpace, TypeOK
  <2> QED BY <1>w, <1>c, <1>x, <1>c, <1>z, <2>save, <2>store, <2>core, <2>checkpoint, <2>faults,
             <2>space
             DEF TypeOK, Turns
<1>d. PausedIsDrained'
  BY <1>j, <1>h, <1>i, <1>ep, <1>x, <1>c, <1>z DEF NoSave, PausedIsDrained
<1>b. BudgetKept'
  BY <1>j, <1>h, <1>i, <1>ep, <1>x, <1>c, <1>z, ContinuityAssumption DEF NoSave, BudgetKept
<1>r. ResumedOnce'
  BY <1>j, <1>h, <1>i, <1>ep, <1>x, <1>c, <1>z DEF NoSave, ResumedOnce
<1>s. SavesStand'
  <2>1. \A who \in {"op", "control", "stop", "delivery"} : Waits(who)' <=> save'.at # "none" /\
          save'.for = who
    BY <1>j, <1>h, <1>i, <1>ep, <1>x, <1>c, <1>z
       DEF NoSave, SavesStand, Waits, WhatIsSaved, Begun, Concluded, Recorded
  <2>2. save'.at # "none" => WhatIsSaved'
    BY <1>j, <1>h, <1>i, <1>ep, <1>x, <1>c, <1>z
       DEF NoSave, SavesStand, Waits, WhatIsSaved, Begun, Concluded, Recorded
  <2>3. save'.at # "none" => save'.epoch <= core'.epoch /\ (save'.epoch = core'.epoch /\
          save'.for \in {"op", "delivery"} => mode' = "active")
    BY <1>w, <1>j, <1>h, <1>i, <1>ep, <1>x, <1>c, <1>z
       DEF NoSave, SavesStand, Waits, WhatIsSaved, Begun, Concluded, Recorded, TypeOK, Commits
  <2>4. save'.at \in {"written", "ok"} => journal' # <<>> /\ Len(journal') = save'.next.revision /\
          Last' = save'.type
    BY <1>j, <1>h, <1>i, <1>ep, <1>x, <1>c, <1>z
       DEF NoSave, SavesStand, Waits, WhatIsSaved, Begun, Concluded, Recorded
  <2>5. save'.at = "ok" => state' = save'.next
    BY <1>j, <1>h, <1>i, <1>ep, <1>x, <1>c, <1>z
       DEF NoSave, SavesStand, Waits, WhatIsSaved, Begun, Concluded, Recorded
  <2>6. save'.at \notin {"none", "ok"} =>
            /\ save'.next.revision = state'.revision + 1
            /\ save'.next.attempts = state'.attempts + (IF save'.type = "attempt" THEN 1 ELSE 0)
    BY <1>j, <1>h, <1>i, <1>ep, <1>x, <1>c, <1>z
       DEF NoSave, SavesStand, Waits, WhatIsSaved, Begun, Concluded, Recorded
  <2> QED BY <2>1, <2>2, <2>3, <2>4, <2>5, <2>6 DEF SavesStand
<1>g1. QueueStands'
  BY <1>j, <1>h, <1>i, <1>ep, <1>x, <1>c, <1>z, QueueKept
     DEF NoSave, ControlFails, StagesStand, TypeOK, Cores, ModesStand, AtRest
<1>g. StagesStand'
  <2>1. StageUnderWay' => ~core'.stopped /\ copy' = "none" /\ stopping'.at \in {"no", "called",
          "stages"}
    BY <1>j, <1>h, <1>i, <1>ep, <1>x, <1>c, <1>z, <1>g1
       DEF NoSave, StagesStand, StageUnderWay, Resumable
  <2>2. StageUnderWay' /\ Op'.at = "closing" => Op'.name = "author" /\ state'.phase \in Resumable /\
          state'.attempts < Budget
    BY <1>j, <1>h, <1>i, <1>ep, <1>x, <1>c, <1>z, <1>g1
       DEF NoSave, StagesStand, StageUnderWay, Resumable
  <2>3. StageUnderWay' /\ Op'.at = "saving" /\ save'.at # "ok" =>
            CASE Op'.name = "author" -> state'.phase \in Resumable
              [] Op'.name = "seal" -> state'.phase = "AUTHORING"
              [] Op'.name = "judge" -> state'.phase = "FROZEN"
    BY <1>j, <1>h, <1>i, <1>ep, <1>x, <1>c, <1>z, <1>g1
       DEF NoSave, StagesStand, StageUnderWay, Resumable
  <2>4. StageUnderWay' /\ (Op'.at = "acting" \/ (Op'.at = "concluding" /\ save'.at # "ok")) =>
            state'.phase \in {"AUTHORING", "REVIEWING"}
    BY <1>j, <1>h, <1>i, <1>ep, <1>x, <1>c, <1>z, <1>g1
       DEF NoSave, StagesStand, StageUnderWay, Resumable
  <2> QED BY <2>1, <2>2, <2>3, <2>4, <1>g1 DEF StagesStand
<1>m. ModesStand'
  <2>1. stopping'.at # "no" <=> mode' = "stopped"
    BY <1>j, <1>h, <1>i, <1>ep, <1>x, <1>c, <1>z DEF NoSave, ModesStand, AtRest, Resumable
  <2>2. core'.closing # "no" \/ store'.revoked \/ mode' = "blocked" => core'.stopped
    BY <1>j, <1>h, <1>i, <1>ep, <1>x, <1>c, <1>z DEF NoSave, ModesStand, AtRest, Resumable
  <2>3. core'.stopped => store'.revoked \/ mode' = "stopped"
    BY <1>j, <1>h, <1>i, <1>ep, <1>x, <1>c, <1>z DEF NoSave, ModesStand, AtRest, Resumable
  <2>4. core'.closing = "closed" => store'.closed
    BY <1>j, <1>h, <1>i, <1>ep, <1>x, <1>c, <1>z DEF NoSave, ModesStand, AtRest, Resumable
  <2>5. core'.closing \in {"closed", "failed"} => save'.at = "none"
    BY <1>j, <1>h, <1>i, <1>ep, <1>x, <1>c, <1>z DEF NoSave, ModesStand, AtRest, Resumable
  <2>6. mode' \in AtRest \cup {"blocked"} =>
            ops' = <<>> /\ actor' = "none" /\ ~author' /\ job' = NoJob /\ ~OnDisk("STOPPED")'
    BY <1>j, <1>h, <1>i, <1>ep, <1>x, <1>c, <1>z DEF NoSave, ModesStand, AtRest, Resumable
  <2>7. mode' \in AtRest => ~core'.stopped /\ core'.denied /\ state'.phase \in Resumable
    BY <1>j, <1>h, <1>i, <1>ep, <1>x, <1>c, <1>z DEF NoSave, ModesStand, AtRest, Resumable
  <2>8. qualifying' <=> job' # NoJob
    BY <1>j, <1>h, <1>i, <1>ep, <1>x, <1>c, <1>z DEF NoSave, ModesStand, AtRest, Resumable
  <2>9. job' # NoJob =>
            /\ ops' = <<>> /\ mode' \in {"active", "stopped"} /\ stopping'.at \in {"no", "called"}
            /\ ~OnDisk("STOPPED")' /\ state'.phase = "DIAGNOSTIC_READY"
    BY <1>j, <1>h, <1>i, <1>ep, <1>x, <1>c, <1>z DEF NoSave, ModesStand, AtRest, Resumable
  <2>10. stopping'.at = "controls" => ops' = <<>>
    BY <1>j, <1>h, <1>i, <1>ep, <1>x, <1>c, <1>z DEF NoSave, ModesStand, AtRest, Resumable
  <2>11. stopping'.at \in {"closing", "saving"} => Tracked' = {}
    BY <1>j, <1>h, <1>i, <1>ep, <1>x, <1>c, <1>z DEF NoSave, ModesStand, AtRest, Resumable
  <2>12. stopping'.at = "saving" => ~core'.stopped
    BY <1>j, <1>h, <1>i, <1>ep, <1>x, <1>c, <1>z DEF NoSave, ModesStand, AtRest, Resumable
  <2>13. stopping'.at = "stopped" => ~stopping'.failed /\ core'.closing = "closed"
    BY <1>j, <1>h, <1>i, <1>ep, <1>x, <1>c, <1>z DEF NoSave, ModesStand, AtRest, Resumable
  <2>14. stopping'.failed => stopping'.at \in {"core", "failed"}
    BY <1>j, <1>h, <1>i, <1>ep, <1>x, <1>c, <1>z DEF NoSave, ModesStand, AtRest, Resumable
  <2> QED BY <2>1, <2>2, <2>3, <2>4, <2>5, <2>6, <2>7, <2>8, <2>9, <2>10, <2>11, <2>12, <2>13, <2>14
             DEF ModesStand
<1>k1. TurnsStand'
  BY <1>j, <1>h, <1>i, <1>ep, <1>x, <1>c, <1>z, TurnsKept
     DEF NoSave, ControlFails, ControlsStand, ModesStand, AtRest
<1>k. ControlsStand'
  <2>1. controls' # <<>> /\ Turn'.at # "queued" =>
            /\ ops' = <<>> /\ job' = NoJob
            /\ <<Turn'.kind, Turn'.at>> \in
                 {<<kind, "cleaning">> : kind \in {"pause", "resume"}}
                   \cup {<<"pause", at>> : at \in {"closing", "before", "saving", "after"}}
                   \cup {<<"resume", at>> : at \in {"before", "consumed", "saving", "after"}}
    BY <1>j, <1>h, <1>i, <1>ep, <1>x, <1>c, <1>z, <1>k1 DEF NoSave, ControlsStand
  <2>2. controls' # <<>> /\ Turn'.at # "queued" =>
            mode' \in {"stopped", IF Turn'.at = "cleaning" THEN "blocked"
                                  ELSE IF Turn'.kind = "pause" THEN "pausing"
                                  ELSE IF Turn'.at = "before" THEN "paused" ELSE "resuming"}
    BY <1>j, <1>h, <1>i, <1>ep, <1>x, <1>c, <1>z, <1>k1 DEF NoSave, ControlsStand
  <2>3. controls' # <<>> /\ mode' # "stopped" =>
            /\ (Turn'.kind = "pause" /\ Turn'.at \in {"saving", "after"} => space' = "none" /\
                  ~custody')
            /\ (Turn'.at = "after" => journal' # <<>> /\ Last' = Turn'.kind)
            /\ (Turn'.at = "consumed" => journal' # <<>> /\ Last' = "pause")
    BY <1>j, <1>h, <1>i, <1>ep, <1>x, <1>c, <1>z, <1>k1 DEF NoSave, ControlsStand
  <2> QED BY <2>1, <2>2, <2>3, <1>k1 DEF ControlsStand
<1>n. CountsStand'
  <2>1. Unsaved' /\ save'.type = "attempt" => save'.next.attempts = Spent' + 1
    BY <1>j, <1>h, <1>i, <1>ep, <1>x, <1>c, <1>z, ContinuityAssumption
       DEF NoSave, CountsStand, InStep, Unsaved, Terminal, Resumable
  <2>2. save'.at = "written" /\ save'.type = "attempt" => save'.next.attempts = Spent'
    BY <1>j, <1>h, <1>i, <1>ep, <1>x, <1>c, <1>z, ContinuityAssumption
       DEF NoSave, CountsStand, InStep, Unsaved, Terminal, Resumable
  <2>3. InStep' => save'.at # "failed" /\ (save'.at # "none" => save'.epoch = core'.epoch)
    BY <1>j, <1>h, <1>i, <1>ep, <1>x, <1>c, <1>z, ContinuityAssumption
       DEF NoSave, CountsStand, InStep, Unsaved, Terminal, Resumable
  <2>4. InStep' => (save'.at = "written" => Spent' = save'.next.attempts)
    BY <1>j, <1>h, <1>i, <1>ep, <1>x, <1>c, <1>z, ContinuityAssumption
       DEF NoSave, CountsStand, InStep, Unsaved, Terminal, Resumable
  <2>5. InStep' => (save'.at # "written" => state'.revision = Len(journal') /\
          Spent' = state'.attempts)
    BY <1>j, <1>h, <1>i, <1>ep, <1>x, <1>c, <1>z, ContinuityAssumption
       DEF NoSave, CountsStand, InStep, Unsaved, Terminal, Resumable
  <2>6. state'.phase \in Terminal =>
            state'.revision = Len(journal') /\ save'.at \notin {"asked", "appending", "written"}
    BY <1>j, <1>h, <1>i, <1>ep, <1>x, <1>c, <1>z, ContinuityAssumption
       DEF NoSave, CountsStand, InStep, Unsaved, Terminal, Resumable
  <2> QED BY <2>1, <2>2, <2>3, <2>4, <2>5, <2>6 DEF CountsStand
<1>p. PausesStand'
  <2>1. OpenPause' =>
            \/ mode' \in {"paused", "resuming", "blocked", "stopped"}
            \/ mode' = "pausing" /\ controls' # <<>> /\ Turn'.kind = "pause" /\
                 Turn'.at \in {"saving", "after"}
    BY <1>j, <1>h, <1>i, <1>ep, <1>x, <1>c, <1>z DEF NoSave, PausesStand, Unsaved, Resumable
  <2>2. Unsaved' /\ save'.type = "pause" => ~OpenPause'
    BY <1>j, <1>h, <1>i, <1>ep, <1>x, <1>c, <1>z DEF NoSave, PausesStand, Unsaved, Resumable
  <2>3. Unsaved' /\ save'.type = "resume" => journal' # <<>> /\ Last' = "pause"
    BY <1>j, <1>h, <1>i, <1>ep, <1>x, <1>c, <1>z DEF NoSave, PausesStand, Unsaved, Resumable
  <2>4. journal' # <<>> /\ Last' = "resume" =>
            /\ state'.phase \in Resumable
            /\ (Unsaved' => save'.type \in {"attempt", "pause", "STOPPED"})
    BY <1>j, <1>h, <1>i, <1>ep, <1>x, <1>c, <1>z DEF NoSave, PausesStand, Unsaved, Resumable
  <2> QED BY <2>1, <2>2, <2>3, <2>4 DEF PausesStand
<1>e. EndStands'
  <2>1. save'.at # "none" /\ save'.type # "STOPPED" => ~OnDisk("STOPPED")'
    BY <1>j, <1>h, <1>i, <1>ep, <1>x, <1>c, <1>z DEF NoSave, EndStands, Terminal
  <2>2. OnDisk("STOPPED")' /\ state'.phase # "STOPPED" =>
            \/ save'.at = "written" \/ stopping'.failed
            \/ ~core'.stopped /\ state'.phase \notin Terminal /\ state'.revision # Len(journal')
    BY <1>j, <1>h, <1>i, <1>ep, <1>x, <1>c, <1>z DEF NoSave, EndStands, Terminal
  <2> QED BY <2>1, <2>2 DEF EndStands
<1>y. JobStands'
  BY <1>j, <1>h, <1>i, <1>ep, <1>x, <1>c, <1>z DEF NoSave, JobStands, Unsaved
<1> QED BY <1>f, <1>t, <1>d, <1>b, <1>r, <1>s, <1>g, <1>m, <1>k, <1>n, <1>p, <1>e, <1>y

(* A control that failed is over once the core has closed. *)
LEMMA ControlCleanedStands ==
  ASSUME Inv, ControlCleaned, UNCHANGED deliveryVars
  PROVE  Inv'
<1> USE DEF Inv, DeliveryStands, SameOnDisk, deliveryVars, SameStages
<1>j. SameOnDisk
  BY JournalStays DEF ControlCleaned, stages, disk
<1>c. /\ controls # <<>> /\ (controls' # <<>> => Turn'.at = "queued")
         /\ controls' \in Seq(Turns) /\ Turn \in Turns /\ Turn = controls[1] /\
              1 \in DOMAIN controls
         /\ \A n \in DOMAIN controls' : n + 1 \in DOMAIN controls /\ n + 1 > 1 /\
              controls'[n] = controls[n + 1]
         /\ (controls' # <<>> => Turn' = controls[2] /\ 2 \in DOMAIN controls)
  BY OverMeans DEF ControlsStand, ControlCleaned, stages, disk
<1>h. SameStages
  BY DEF Op, Turn, Waits, Tracked, StageUnderWay, ControlCleaned, stages, disk
<1>i. StageUnderWay => ops # <<>> /\ Tracked # {} /\ ~Idle
  BY UnderWay
<1>w. TypeOK /\ DeliveryTypeOK
  BY DEF DeliveryIsEarned
<1>f. DeliveryTypeOK' /\ PausedIsDrained' /\ BudgetKept' /\ ResumedOnce' /\ QueueStands' /\
        StagesStand' /\ ModesStand' /\ CountsStand' /\ EndStands' /\ JobStands' /\ DeliveryIsEarned'
  BY Frames DEF ControlCleaned, stages, disk
<1>t. TypeOK'
  <2> QED BY <1>w, <1>c DEF ControlCleaned, stages, disk, TypeOK, Turns
<1>s. SavesStand'
  BY <1>j, <1>c, <1>h, <1>i
     DEF ControlCleaned, stages, disk, Owned, SavesStand, Waits, WhatIsSaved, Begun, Concluded,
         Recorded
<1>k1. TurnsStand'
  BY <1>j, <1>c, <1>h, <1>i, TurnsKept DEF ControlCleaned, stages, disk, ControlsStand
<1>k. ControlsStand'
  BY <1>j, <1>c, <1>h, <1>i, <1>k1 DEF ControlCleaned, stages, disk, Owned, ControlsStand
<1>p. PausesStand'
  BY <1>j, <1>c, <1>h, <1>i DEF ControlCleaned, stages, disk, Owned, PausesStand, Unsaved, Resumable
<1> QED BY <1>f, <1>t, <1>s, <1>k, <1>p

(* A stop goes on when no stage is under way. *)
LEMMA StopDrainsStands ==
  ASSUME Inv, StopDrains, UNCHANGED deliveryVars
  PROVE  Inv'
<1> USE DEF Inv, DeliveryStands, SameOnDisk, deliveryVars, Owned, SameQueues
<1>j. SameOnDisk
  BY JournalStays DEF StopDrains, Quiet, StopMayGoOn, Stopping, stages, disk
<1>h. SameQueues
  BY
     DEF Op, Turn, Waits, Tracked, StageUnderWay, StopDrains, Quiet, StopMayGoOn, Stopping, stages,
         disk
<1>b0. author' \in BOOLEAN
  BY DEF TypeOK, StopDrains, Quiet, StopMayGoOn, Stopping, stages, disk
<1>i. StageUnderWay => ops # <<>> /\ Tracked # {} /\ ~Idle
  BY UnderWay
<1>w. TypeOK /\ DeliveryTypeOK
  BY DEF DeliveryIsEarned
<1>f. DeliveryTypeOK' /\ BudgetKept' /\ ResumedOnce' /\ QueueStands' /\ TurnsStand' /\
        ControlsStand' /\ CountsStand' /\ PausesStand' /\ JobStands' /\ DeliveryIsEarned'
  BY Frames DEF StopDrains, Quiet, StopMayGoOn, Stopping, stages, disk
<1>t. TypeOK'
  <2>stopping. stopping' \in Stops
    BY <1>w DEF StopDrains, Stopping, stages, disk, TypeOK, Stops
  <2> QED BY <1>w, <1>b0, <2>stopping DEF StopDrains, Stopping, stages, disk, TypeOK
<1>d. PausedIsDrained'
  BY <1>j, <1>h, <1>i DEF StopDrains, Quiet, StopMayGoOn, Stopping, stages, disk, PausedIsDrained
<1>s. SavesStand'
  BY <1>j, <1>h, <1>i
     DEF StopDrains, Quiet, StopMayGoOn, Stopping, stages, disk, SavesStand, Waits, WhatIsSaved,
         Begun, Concluded, Recorded
<1>g. StagesStand'
  BY <1>j, <1>h, <1>i, <1>f
     DEF StopDrains, Quiet, StopMayGoOn, Stopping, stages, disk, StagesStand, StageUnderWay,
         Resumable
<1>m. ModesStand'
  BY <1>j, <1>h, <1>i
     DEF StopDrains, Quiet, StopMayGoOn, Stopping, stages, disk, Heard, Live, Alive, Pending, Idle,
         NoSave, NoJob, Terminal, Resumable, Tracked, TypeOK, ModesStand, SavesStand, Waits, AtRest,
         StagesStand, StageUnderWay, ControlsStand, Commits, States, Stops
<1>e. EndStands'
  BY <1>j, <1>h, <1>i
     DEF StopDrains, Quiet, StopMayGoOn, Stopping, stages, disk, EndStands, Terminal
<1> QED BY <1>f, <1>t, <1>d, <1>s, <1>g, <1>m, <1>e

(* The end is asked for while nobody waits for a record, unless it is on disk. *)
LEMMA StopRecordsStands ==
  ASSUME Inv, StopRecords, UNCHANGED deliveryVars
  PROVE  Inv'
<1> USE DEF Inv, DeliveryStands, SameOnDisk, deliveryVars, Owned, SameQueues
<1>j. SameOnDisk
  BY JournalStays DEF StopRecords, Stopping, Closing, Commit
<1>h. SameQueues
  BY DEF Op, Turn, Waits, Tracked, StageUnderWay, StopRecords, Stopping, Closing, Commit
<1>b0. custody' \in BOOLEAN
  BY DEF TypeOK, StopRecords, Stopping, Closing, Commit
<1>i. StageUnderWay => ops # <<>> /\ Tracked # {} /\ ~Idle
  BY UnderWay
<1>w. TypeOK /\ DeliveryTypeOK
  BY DEF DeliveryIsEarned
<1>ep. /\ core' \in Cores /\ core.epoch \in Nat /\ core'.epoch \in Nat /\ core'.epoch >= core.epoch
          /\ core'.denied = core.denied
          /\ (core' = core \/ (core'.closing # "no" /\ core'.stopped /\ (core.closing = "no" =>
                core'.closing = "waiting")))
          /\ (core.closing # "no" => core' = core)
          /\ (core' = core \/ core'.epoch > core.epoch)
  <2>1. core \in Cores /\ (core.closing # "no" => core.stopped)
    BY <1>w DEF TypeOK, ModesStand
  <2>2. core' = core \/ core' = Closing(core)
    BY DEF StopRecords, Stopping, Commit
  <2> QED BY <2>1, <2>2, CoreClosed
<1>f. DeliveryTypeOK' /\ ResumedOnce' /\ DeliveryIsEarned'
  BY Frames DEF StopRecords, Stopping, Commit
<1>t. TypeOK'
  <2>save. save' \in Commits \cup {NoSave}
    <3>1. "STOPPED" \in Phases /\ core.epoch \in Nat
      BY <1>w DEF TypeOK, Phases, Terminal, Cores
    <3>2. save' = save \/ Commit("stop", "STOPPED", "STOPPED", state.attempts, core.epoch)
      BY DEF StopRecords
    <3> QED BY <1>w, <3>1, <3>2, CommitMeans DEF Types, TypeOK
  <2>core. core' \in Cores
    BY <1>ep
  <2>stopping. stopping' \in Stops
    BY <1>w DEF StopRecords, Stopping, Commit, TypeOK, Stops
  <2>space. space' \in {"none", "open", "revoked"}
    BY <1>w DEF StopRecords, TypeOK
  <2> QED BY <1>w, <1>b0, <2>save, <2>core, <2>stopping, <2>space
             DEF StopRecords, Stopping, Commit, TypeOK
<1>d. PausedIsDrained'
  BY <1>j, <1>h, <1>i, <1>ep
     DEF StopRecords, Stopping, Commit, Heard, Live, Alive, Pending, Idle, NoSave, NoJob, Terminal,
         Resumable, Tracked, TypeOK, PausedIsDrained, ModesStand, ControlsStand, TurnsStand,
         CountsStand, InStep, SavesStand, Waits, Turns, Stages, Commits, Last, Cores, Stops
<1>b. BudgetKept'
  BY <1>j, <1>h, <1>i, <1>ep, ContinuityAssumption
     DEF StopRecords, Stopping, Commit, NoSave, BudgetKept
<1>s. SavesStand'
  BY <1>j, <1>h, <1>i, <1>ep
     DEF StopRecords, Stopping, Commit, Heard, Live, Alive, Pending, Idle, NoSave, NoJob, Terminal,
         Resumable, Tracked, TypeOK, SavesStand, WhatIsSaved, Begun, Concluded, Recorded, Waits,
         ModesStand, ControlsStand, StagesStand, StageUnderWay, Unsaved, Commits, States, AtRest,
         Stages, Turns, Cores, Stops
<1>g1. QueueStands'
  BY <1>j, <1>h, <1>i, <1>ep, QueueKept
     DEF StopRecords, Stopping, Commit, StagesStand, TypeOK, Cores
<1>g. StagesStand'
  BY <1>j, <1>h, <1>i, <1>ep, <1>g1
     DEF StopRecords, Stopping, Commit, NoSave, StagesStand, StageUnderWay, Resumable
<1>m. ModesStand'
  BY <1>j, <1>h, <1>i, <1>ep
     DEF StopRecords, Stopping, Commit, Heard, Live, Alive, Pending, Idle, NoSave, NoJob, Terminal,
         Resumable, Tracked, TypeOK, ModesStand, SavesStand, Waits, AtRest, StagesStand,
         StageUnderWay, ControlsStand, Commits, States, Cores, Stops
<1>k1. TurnsStand'
  BY <1>j, <1>h, <1>i, <1>ep, TurnsKept
     DEF StopRecords, Stopping, Commit, ControlsStand, ModesStand, AtRest
<1>k. ControlsStand'
  BY <1>j, <1>h, <1>i, <1>ep, <1>k1 DEF StopRecords, Stopping, Commit, NoSave, ControlsStand
<1>n. CountsStand'
  <2>1. Unsaved' /\ save'.type = "attempt" => save'.next.attempts = Spent' + 1
    BY <1>j, <1>h, <1>i, <1>ep, ContinuityAssumption
       DEF StopRecords, Stopping, Commit, Heard, Live, Alive, Pending, Idle, NoSave, NoJob,
           Terminal, Resumable, Tracked, TypeOK, CountsStand, InStep, SavesStand, Waits,
           WhatIsSaved, Begun, Concluded, Recorded, ModesStand, StagesStand, StageUnderWay, AtRest,
           Unsaved, Commits, States, Phases, Stages, ControlsStand, Cores, Stops
  <2>2. save'.at = "written" /\ save'.type = "attempt" => save'.next.attempts = Spent'
    BY <1>j, <1>h, <1>i, <1>ep, ContinuityAssumption
       DEF StopRecords, Stopping, Commit, Heard, Live, Alive, Pending, Idle, NoSave, NoJob,
           Terminal, Resumable, Tracked, TypeOK, CountsStand, InStep, SavesStand, Waits,
           WhatIsSaved, Begun, Concluded, Recorded, ModesStand, StagesStand, StageUnderWay, AtRest,
           Unsaved, Commits, States, Phases, Stages, ControlsStand, Cores, Stops
  <2>3. InStep' => save'.at # "failed" /\ (save'.at # "none" => save'.epoch = core'.epoch)
    BY <1>j, <1>h, <1>i, <1>ep, ContinuityAssumption
       DEF StopRecords, Stopping, Commit, Heard, Live, Alive, Pending, Idle, NoSave, NoJob,
           Terminal, Resumable, Tracked, TypeOK, CountsStand, InStep, SavesStand, Waits,
           WhatIsSaved, Begun, Concluded, Recorded, ModesStand, StagesStand, StageUnderWay, AtRest,
           Unsaved, Commits, States, Phases, Stages, ControlsStand, Cores, Stops
  <2>4. InStep' => (save'.at = "written" => Spent' = save'.next.attempts)
    BY <1>j, <1>h, <1>i, <1>ep, ContinuityAssumption
       DEF StopRecords, Stopping, Commit, Heard, Live, Alive, Pending, Idle, NoSave, NoJob,
           Terminal, Resumable, Tracked, TypeOK, CountsStand, InStep, SavesStand, Waits,
           WhatIsSaved, Begun, Concluded, Recorded, ModesStand, StagesStand, StageUnderWay, AtRest,
           Unsaved, Commits, States, Phases, Stages, ControlsStand, Cores, Stops
  <2>5. InStep' => (save'.at # "written" => state'.revision = Len(journal') /\
          Spent' = state'.attempts)
    BY <1>j, <1>h, <1>i, <1>ep, ContinuityAssumption
       DEF StopRecords, Stopping, Commit, Heard, Live, Alive, Pending, Idle, NoSave, NoJob,
           Terminal, Resumable, Tracked, TypeOK, CountsStand, InStep, SavesStand, Waits,
           WhatIsSaved, Begun, Concluded, Recorded, ModesStand, StagesStand, StageUnderWay, AtRest,
           Unsaved, Commits, States, Phases, Stages, ControlsStand, Cores, Stops
  <2>6. state'.phase \in Terminal =>
            state'.revision = Len(journal') /\ save'.at \notin {"asked", "appending", "written"}
    BY <1>j, <1>h, <1>i, <1>ep, ContinuityAssumption
       DEF StopRecords, Stopping, Commit, Heard, Live, Alive, Pending, Idle, NoSave, NoJob,
           Terminal, Resumable, Tracked, TypeOK, CountsStand, InStep, SavesStand, Waits,
           WhatIsSaved, Begun, Concluded, Recorded, ModesStand, StagesStand, StageUnderWay, AtRest,
           Unsaved, Commits, States, Phases, Stages, ControlsStand, Cores, Stops
  <2> QED BY <2>1, <2>2, <2>3, <2>4, <2>5, <2>6 DEF CountsStand
<1>p. PausesStand'
  BY <1>j, <1>h, <1>i, <1>ep
     DEF StopRecords, Stopping, Commit, NoSave, PausesStand, Unsaved, Resumable
<1>e. EndStands'
  BY <1>j, <1>h, <1>i, <1>ep
     DEF StopRecords, Stopping, Commit, Heard, Live, Alive, Pending, Idle, NoSave, NoJob, Terminal,
         Resumable, Tracked, TypeOK, EndStands, CountsStand, InStep, ModesStand, AtRest,
         StagesStand, StageUnderWay, SavesStand, Waits, WhatIsSaved, Begun, Concluded, Recorded,
         Unsaved, Commits, States, Stages, Cores, Stops
<1>y. JobStands'
  BY <1>j, <1>h, <1>i, <1>ep
     DEF StopRecords, Stopping, Commit, Heard, Live, Alive, Pending, Idle, NoSave, NoJob, Terminal,
         Resumable, Tracked, TypeOK, DeliveryIsEarned, DeliveryTypeOK, JobStands, SavesStand, Waits,
         WhatIsSaved, Begun, Concluded, Recorded, Unsaved, ModesStand, Commits, Kinds, InOrder,
         Cores, Stops
<1> QED BY <1>f, <1>t, <1>d, <1>b, <1>s, <1>g, <1>m, <1>k, <1>n, <1>p, <1>e, <1>y

(* The end is on disk before the core is closed. *)
LEMMA StopSavedStands ==
  ASSUME Inv, StopSaved, UNCHANGED deliveryVars
  PROVE  Inv'
<1> USE DEF Inv, DeliveryStands, SameOnDisk, deliveryVars, Owned, SameQueues
<1>j. SameOnDisk
  BY JournalStays DEF StopSaved, Saved, Stopping, Closing, stages
<1>h. SameQueues
  BY DEF Op, Turn, Waits, Tracked, StageUnderWay, StopSaved, Saved, Stopping, Closing, stages
<1>i. StageUnderWay => ops # <<>> /\ Tracked # {} /\ ~Idle
  BY UnderWay
<1>w. TypeOK /\ DeliveryTypeOK
  BY DEF DeliveryIsEarned
<1>ep. /\ core' \in Cores /\ core.epoch \in Nat /\ core'.epoch \in Nat /\ core'.epoch >= core.epoch
          /\ core'.denied = core.denied
          /\ (core'.closing # "no" /\ core'.stopped /\ (core.closing = "no" =>
                core'.closing = "waiting"))
          /\ (core.closing # "no" => core' = core)
          /\ (core' = core \/ core'.epoch > core.epoch)
  <2>1. core \in Cores /\ (core.closing # "no" => core.stopped)
    BY <1>w DEF TypeOK, ModesStand
  <2>2. core' = Closing(core)
    BY DEF StopSaved
  <2> QED BY <2>1, <2>2, CoreClosed
<1>f. DeliveryTypeOK' /\ ResumedOnce' /\ DeliveryIsEarned'
  BY Frames DEF StopSaved, Saved, Stopping, stages
<1>t. TypeOK'
  <2>save. save' \in Commits \cup {NoSave}
    BY <1>w, ContinuityAssumption
       DEF StopSaved, Saved, Stopping, stages, TypeOK, NoSave, Commits, States, Phases, Types,
           Papers, Terminal, Resumable, Cores
  <2>core. core' \in Cores
    BY <1>ep
  <2>stopping. stopping' \in Stops
    BY <1>w DEF StopSaved, Saved, Stopping, stages, TypeOK, Stops
  <2> QED BY <1>w, <2>save, <2>core, <2>stopping DEF StopSaved, Saved, Stopping, stages, TypeOK
<1>d. PausedIsDrained'
  BY <1>j, <1>h, <1>i, <1>ep DEF StopSaved, Saved, Stopping, stages, NoSave, PausedIsDrained
<1>b. BudgetKept'
  BY <1>j, <1>h, <1>i, <1>ep, ContinuityAssumption
     DEF StopSaved, Saved, Stopping, stages, NoSave, BudgetKept
<1>s. SavesStand'
  BY <1>j, <1>h, <1>i, <1>ep
     DEF StopSaved, Saved, Stopping, stages, NoSave, SavesStand, Waits, WhatIsSaved, Begun,
         Concluded, Recorded
<1>g1. QueueStands'
  BY <1>j, <1>h, <1>i, <1>ep, QueueKept
     DEF StopSaved, Saved, Stopping, stages, StagesStand, TypeOK, Cores
<1>g. StagesStand'
  BY <1>j, <1>h, <1>i, <1>ep, <1>g1
     DEF StopSaved, Saved, Stopping, stages, NoSave, StagesStand, StageUnderWay, Resumable
<1>m. ModesStand'
  BY <1>j, <1>h, <1>i, <1>ep
     DEF StopSaved, Saved, Stopping, stages, NoSave, ModesStand, AtRest, Resumable
<1>k1. TurnsStand'
  BY <1>j, <1>h, <1>i, <1>ep, TurnsKept
     DEF StopSaved, Saved, Stopping, stages, ControlsStand, ModesStand, AtRest
<1>k. ControlsStand'
  BY <1>j, <1>h, <1>i, <1>ep, <1>k1 DEF StopSaved, Saved, Stopping, stages, NoSave, ControlsStand
<1>n. CountsStand'
  BY <1>j, <1>h, <1>i, <1>ep, ContinuityAssumption
     DEF StopSaved, Saved, Stopping, stages, NoSave, CountsStand, InStep, Unsaved, Terminal,
         Resumable
<1>p. PausesStand'
  BY <1>j, <1>h, <1>i, <1>ep
     DEF StopSaved, Saved, Stopping, stages, NoSave, PausesStand, Unsaved, Resumable
<1>e. EndStands'
  BY <1>j, <1>h, <1>i, <1>ep
     DEF StopSaved, Saved, Stopping, stages, Heard, Live, Alive, Pending, Idle, NoSave, NoJob,
         Terminal, Resumable, Tracked, TypeOK, EndStands, CountsStand, InStep, ModesStand, AtRest,
         StagesStand, StageUnderWay, SavesStand, Waits, WhatIsSaved, Begun, Concluded, Recorded,
         Unsaved, Commits, States, Stages, Cores, Stops
<1>y. JobStands'
  BY <1>j, <1>h, <1>i, <1>ep DEF StopSaved, Saved, Stopping, stages, NoSave, JobStands, Unsaved
<1> QED BY <1>f, <1>t, <1>d, <1>b, <1>s, <1>g, <1>m, <1>k, <1>n, <1>p, <1>e, <1>y

(* A stop that fails says so, and closes the core. *)
LEMMA StopFailsStands ==
  ASSUME Inv, StopFails, UNCHANGED deliveryVars
  PROVE  Inv'
<1> USE DEF Inv, DeliveryStands, SameOnDisk, deliveryVars, Owned, SameQueues
<1>j. SameOnDisk
  BY JournalStays
     DEF StopFails, Quiet, StopMayGoOn, Answered, Saved, StopFailed, Closing, RevokedSpace, stages
<1>h. SameQueues
  BY
     DEF Op, Turn, Waits, Tracked, StageUnderWay, StopFails, Quiet, StopMayGoOn, Answered, Saved,
         StopFailed, Closing, RevokedSpace, stages
<1>i. StageUnderWay => ops # <<>> /\ Tracked # {} /\ ~Idle
  BY UnderWay
<1>w. TypeOK /\ DeliveryTypeOK
  BY DEF DeliveryIsEarned
<1>ep. /\ core' \in Cores /\ core.epoch \in Nat /\ core'.epoch \in Nat /\ core'.epoch >= core.epoch
          /\ core'.denied = core.denied
          /\ (core'.closing # "no" /\ core'.stopped /\ (core.closing = "no" =>
                core'.closing = "waiting"))
          /\ (core.closing # "no" => core' = core)
          /\ (core' = core \/ core'.epoch > core.epoch)
  <2>1. core \in Cores /\ (core.closing # "no" => core.stopped)
    BY <1>w DEF TypeOK, ModesStand
  <2>2. core' = Closing(core)
    BY DEF StopFails, StopFailed
  <2> QED BY <2>1, <2>2, CoreClosed
<1>x. /\ stopping.at \in {"controls", "stages", "closing", "saving"} /\ stopping' = [at |-> "core",
           failed |-> TRUE]
      /\ space' = RevokedSpace /\ faults' \in {faults, faults + 1}
      /\ UNCHANGED <<mode, permitted, checkpoint, controls, qualifying, ops, actor, author, custody,
           state, journal, store>> /\ UNCHANGED deliveryVars
  BY DEF StopFails, StopFailed, Quiet
<1>z. /\ mode = "stopped" /\ job = NoJob
      /\ \/ save' = save /\ (save.at # "none" => save.for # "stop")
         \/ save' = NoSave /\ save.at \in {"ok", "failed"} /\ save.for = "stop"
      /\ Tracked = {} /\ ~StageUnderWay
  <2>1. mode = "stopped" /\ job = NoJob
    BY <1>x DEF ModesStand
  <2>0. Tracked = {}
    BY <1>x DEF StopFails, Quiet, ModesStand, Tracked
  <2>2. save.at # "none" => (save.for = "stop" => stopping.at = "saving")
    BY WhoWaits
  <2>3. stopping.at = "saving" => Answered("stop")
    BY DEF StopFails, Quiet
  <2>4. save' = IF Answered("stop") THEN NoSave ELSE save
    BY DEF StopFails
  <2> QED BY <1>i, <2>0, <2>1, <2>2, <2>3, <2>4 DEF Answered
<1>f. DeliveryTypeOK' /\ ResumedOnce' /\ DeliveryIsEarned'
  BY Frames, <1>x, <1>z
     DEF StopFails, Quiet, StopMayGoOn, Answered, Saved, StopFailed, RevokedSpace, stages
<1>t. TypeOK'
  <2>save. save' \in Commits \cup {NoSave}
    BY <1>w, <1>x, <1>z, ContinuityAssumption
       DEF NoSave, TypeOK, Commits, States, Phases, Types, Papers, Terminal, Resumable, Cores
  <2>core. core' \in Cores
    BY <1>ep
  <2>stopping. stopping' \in Stops
    BY <1>w, <1>x, <1>z DEF NoSave, TypeOK, Stops
  <2>faults. faults' \in 0 .. MaxFaults
    BY <1>w, <1>x, <1>z, ContinuityAssumption
       DEF StopFails, Answered, Saved, StopFailed, RevokedSpace, stages, TypeOK, Stores
  <2>space. space' \in {"none", "open", "revoked"}
    BY <1>w, <1>x, <1>z DEF StopFails, RevokedSpace, TypeOK
  <2> QED BY <1>w, <1>x, <1>z, <2>save, <2>core, <2>stopping, <2>faults, <2>space DEF TypeOK
<1>d. PausedIsDrained'
  BY <1>j, <1>h, <1>i, <1>ep, <1>x, <1>z DEF NoSave, PausedIsDrained
<1>b. BudgetKept'
  BY <1>j, <1>h, <1>i, <1>ep, <1>x, <1>z, ContinuityAssumption DEF NoSave, BudgetKept
<1>s. SavesStand'
  <2>1. \A who \in {"op", "control", "stop", "delivery"} : Waits(who)' <=> save'.at # "none" /\
          save'.for = who
    BY <1>j, <1>h, <1>i, <1>ep, <1>x, <1>z
       DEF NoSave, SavesStand, Waits, WhatIsSaved, Begun, Concluded, Recorded
  <2>2. save'.at # "none" => WhatIsSaved'
    BY <1>j, <1>h, <1>i, <1>ep, <1>x, <1>z
       DEF NoSave, SavesStand, Waits, WhatIsSaved, Begun, Concluded, Recorded
  <2>3. save'.at # "none" => save'.epoch <= core'.epoch /\ (save'.epoch = core'.epoch /\
          save'.for \in {"op", "delivery"} => mode' = "active")
    BY <1>w, <1>j, <1>h, <1>i, <1>ep, <1>x, <1>z
       DEF NoSave, SavesStand, Waits, WhatIsSaved, Begun, Concluded, Recorded, TypeOK, Commits
  <2>4. save'.at \in {"written", "ok"} => journal' # <<>> /\ Len(journal') = save'.next.revision /\
          Last' = save'.type
    BY <1>j, <1>h, <1>i, <1>ep, <1>x, <1>z
       DEF NoSave, SavesStand, Waits, WhatIsSaved, Begun, Concluded, Recorded
  <2>5. save'.at = "ok" => state' = save'.next
    BY <1>j, <1>h, <1>i, <1>ep, <1>x, <1>z
       DEF NoSave, SavesStand, Waits, WhatIsSaved, Begun, Concluded, Recorded
  <2>6. save'.at \notin {"none", "ok"} =>
            /\ save'.next.revision = state'.revision + 1
            /\ save'.next.attempts = state'.attempts + (IF save'.type = "attempt" THEN 1 ELSE 0)
    BY <1>j, <1>h, <1>i, <1>ep, <1>x, <1>z
       DEF NoSave, SavesStand, Waits, WhatIsSaved, Begun, Concluded, Recorded
  <2> QED BY <2>1, <2>2, <2>3, <2>4, <2>5, <2>6 DEF SavesStand
<1>g1. QueueStands'
  BY <1>j, <1>h, <1>i, <1>ep, <1>x, <1>z, QueueKept
     DEF NoSave, StopFails, StagesStand, TypeOK, Cores
<1>g. StagesStand'
  <2>1. StageUnderWay' => ~core'.stopped /\ copy' = "none" /\ stopping'.at \in {"no", "called",
          "stages"}
    BY <1>j, <1>h, <1>i, <1>ep, <1>x, <1>z, <1>g1 DEF NoSave, StagesStand, StageUnderWay, Resumable
  <2>2. StageUnderWay' /\ Op'.at = "closing" => Op'.name = "author" /\ state'.phase \in Resumable /\
          state'.attempts < Budget
    BY <1>j, <1>h, <1>i, <1>ep, <1>x, <1>z, <1>g1 DEF NoSave, StagesStand, StageUnderWay, Resumable
  <2>3. StageUnderWay' /\ Op'.at = "saving" /\ save'.at # "ok" =>
            CASE Op'.name = "author" -> state'.phase \in Resumable
              [] Op'.name = "seal" -> state'.phase = "AUTHORING"
              [] Op'.name = "judge" -> state'.phase = "FROZEN"
    BY <1>j, <1>h, <1>i, <1>ep, <1>x, <1>z, <1>g1 DEF NoSave, StagesStand, StageUnderWay, Resumable
  <2>4. StageUnderWay' /\ (Op'.at = "acting" \/ (Op'.at = "concluding" /\ save'.at # "ok")) =>
            state'.phase \in {"AUTHORING", "REVIEWING"}
    BY <1>j, <1>h, <1>i, <1>ep, <1>x, <1>z, <1>g1 DEF NoSave, StagesStand, StageUnderWay, Resumable
  <2> QED BY <2>1, <2>2, <2>3, <2>4, <1>g1 DEF StagesStand
<1>m. ModesStand'
  <2>1. stopping'.at # "no" <=> mode' = "stopped"
    BY <1>j, <1>h, <1>i, <1>ep, <1>x, <1>z DEF NoSave, ModesStand, AtRest, Resumable
  <2>2. core'.closing # "no" \/ store'.revoked \/ mode' = "blocked" => core'.stopped
    BY <1>j, <1>h, <1>i, <1>ep, <1>x, <1>z DEF NoSave, ModesStand, AtRest, Resumable
  <2>3. core'.stopped => store'.revoked \/ mode' = "stopped"
    BY <1>j, <1>h, <1>i, <1>ep, <1>x, <1>z DEF NoSave, ModesStand, AtRest, Resumable
  <2>4. core'.closing = "closed" => store'.closed
    BY <1>j, <1>h, <1>i, <1>ep, <1>x, <1>z DEF NoSave, ModesStand, AtRest, Resumable
  <2>5. core'.closing \in {"closed", "failed"} => save'.at = "none"
    BY <1>j, <1>h, <1>i, <1>ep, <1>x, <1>z DEF NoSave, ModesStand, AtRest, Resumable
  <2>6. mode' \in AtRest \cup {"blocked"} =>
            ops' = <<>> /\ actor' = "none" /\ ~author' /\ job' = NoJob /\ ~OnDisk("STOPPED")'
    BY <1>j, <1>h, <1>i, <1>ep, <1>x, <1>z DEF NoSave, ModesStand, AtRest, Resumable
  <2>7. mode' \in AtRest => ~core'.stopped /\ core'.denied /\ state'.phase \in Resumable
    BY <1>j, <1>h, <1>i, <1>ep, <1>x, <1>z DEF NoSave, ModesStand, AtRest, Resumable
  <2>8. qualifying' <=> job' # NoJob
    BY <1>j, <1>h, <1>i, <1>ep, <1>x, <1>z DEF NoSave, ModesStand, AtRest, Resumable
  <2>9. job' # NoJob =>
            /\ ops' = <<>> /\ mode' \in {"active", "stopped"} /\ stopping'.at \in {"no", "called"}
            /\ ~OnDisk("STOPPED")' /\ state'.phase = "DIAGNOSTIC_READY"
    BY <1>j, <1>h, <1>i, <1>ep, <1>x, <1>z DEF NoSave, ModesStand, AtRest, Resumable
  <2>10. stopping'.at = "controls" => ops' = <<>>
    BY <1>j, <1>h, <1>i, <1>ep, <1>x, <1>z DEF NoSave, ModesStand, AtRest, Resumable
  <2>11. stopping'.at \in {"closing", "saving"} => Tracked' = {}
    BY <1>j, <1>h, <1>i, <1>ep, <1>x, <1>z DEF NoSave, ModesStand, AtRest, Resumable
  <2>12. stopping'.at = "saving" => ~core'.stopped
    BY <1>j, <1>h, <1>i, <1>ep, <1>x, <1>z DEF NoSave, ModesStand, AtRest, Resumable
  <2>13. stopping'.at = "stopped" => ~stopping'.failed /\ core'.closing = "closed"
    BY <1>j, <1>h, <1>i, <1>ep, <1>x, <1>z DEF NoSave, ModesStand, AtRest, Resumable
  <2>14. stopping'.failed => stopping'.at \in {"core", "failed"}
    BY <1>j, <1>h, <1>i, <1>ep, <1>x, <1>z DEF NoSave, ModesStand, AtRest, Resumable
  <2> QED BY <2>1, <2>2, <2>3, <2>4, <2>5, <2>6, <2>7, <2>8, <2>9, <2>10, <2>11, <2>12, <2>13, <2>14
             DEF ModesStand
<1>k1. TurnsStand'
  BY <1>j, <1>h, <1>i, <1>ep, <1>x, <1>z, TurnsKept
     DEF NoSave, StopFails, ControlsStand, ModesStand, AtRest
<1>k. ControlsStand'
  BY <1>j, <1>h, <1>i, <1>ep, <1>x, <1>z, <1>k1 DEF NoSave, ControlsStand
<1>n. CountsStand'
  <2>1. Unsaved' /\ save'.type = "attempt" => save'.next.attempts = Spent' + 1
    BY <1>j, <1>h, <1>i, <1>ep, <1>x, <1>z, ContinuityAssumption
       DEF NoSave, CountsStand, InStep, Unsaved, Terminal, Resumable
  <2>2. save'.at = "written" /\ save'.type = "attempt" => save'.next.attempts = Spent'
    BY <1>j, <1>h, <1>i, <1>ep, <1>x, <1>z, ContinuityAssumption
       DEF NoSave, CountsStand, InStep, Unsaved, Terminal, Resumable
  <2>3. InStep' => save'.at # "failed" /\ (save'.at # "none" => save'.epoch = core'.epoch)
    BY <1>j, <1>h, <1>i, <1>ep, <1>x, <1>z, ContinuityAssumption
       DEF NoSave, CountsStand, InStep, Unsaved, Terminal, Resumable
  <2>4. InStep' => (save'.at = "written" => Spent' = save'.next.attempts)
    BY <1>j, <1>h, <1>i, <1>ep, <1>x, <1>z, ContinuityAssumption
       DEF NoSave, CountsStand, InStep, Unsaved, Terminal, Resumable
  <2>5. InStep' => (save'.at # "written" => state'.revision = Len(journal') /\
          Spent' = state'.attempts)
    BY <1>j, <1>h, <1>i, <1>ep, <1>x, <1>z, ContinuityAssumption
       DEF NoSave, CountsStand, InStep, Unsaved, Terminal, Resumable
  <2>6. state'.phase \in Terminal =>
            state'.revision = Len(journal') /\ save'.at \notin {"asked", "appending", "written"}
    BY <1>j, <1>h, <1>i, <1>ep, <1>x, <1>z, ContinuityAssumption
       DEF NoSave, CountsStand, InStep, Unsaved, Terminal, Resumable
  <2> QED BY <2>1, <2>2, <2>3, <2>4, <2>5, <2>6 DEF CountsStand
<1>p. PausesStand'
  <2>1. OpenPause' =>
            \/ mode' \in {"paused", "resuming", "blocked", "stopped"}
            \/ mode' = "pausing" /\ controls' # <<>> /\ Turn'.kind = "pause" /\
                 Turn'.at \in {"saving", "after"}
    BY <1>j, <1>h, <1>i, <1>ep, <1>x, <1>z DEF NoSave, PausesStand, Unsaved, Resumable
  <2>2. Unsaved' /\ save'.type = "pause" => ~OpenPause'
    BY <1>j, <1>h, <1>i, <1>ep, <1>x, <1>z DEF NoSave, PausesStand, Unsaved, Resumable
  <2>3. Unsaved' /\ save'.type = "resume" => journal' # <<>> /\ Last' = "pause"
    BY <1>j, <1>h, <1>i, <1>ep, <1>x, <1>z DEF NoSave, PausesStand, Unsaved, Resumable
  <2>4. journal' # <<>> /\ Last' = "resume" =>
            /\ state'.phase \in Resumable
            /\ (Unsaved' => save'.type \in {"attempt", "pause", "STOPPED"})
    BY <1>j, <1>h, <1>i, <1>ep, <1>x, <1>z DEF NoSave, PausesStand, Unsaved, Resumable
  <2> QED BY <2>1, <2>2, <2>3, <2>4 DEF PausesStand
<1>e. EndStands'
  BY <1>j, <1>h, <1>i, <1>ep, <1>x, <1>z DEF NoSave, EndStands, Terminal
<1>y. JobStands'
  BY <1>j, <1>h, <1>i, <1>ep, <1>x, <1>z DEF NoSave, JobStands, Unsaved
<1> QED BY <1>f, <1>t, <1>d, <1>b, <1>s, <1>g, <1>m, <1>k, <1>n, <1>p, <1>e, <1>y

(* A stop reports no failure only when there was none and the core has closed. *)
LEMMA StopEndsStands ==
  ASSUME Inv, StopEnds, UNCHANGED deliveryVars
  PROVE  Inv'
<1> USE DEF Inv, DeliveryStands, SameOnDisk, deliveryVars, Owned, SameQueues
<1>j. SameOnDisk
  BY JournalStays DEF StopEnds, StopHasFailed, stages, disk
<1>h. SameQueues
  BY DEF Op, Turn, Waits, Tracked, StageUnderWay, StopEnds, StopHasFailed, stages, disk
<1>i. StageUnderWay => ops # <<>> /\ Tracked # {} /\ ~Idle
  BY UnderWay
<1>w. TypeOK /\ DeliveryTypeOK
  BY DEF DeliveryIsEarned
<1>f. DeliveryTypeOK' /\ PausedIsDrained' /\ BudgetKept' /\ ResumedOnce' /\ QueueStands' /\
        TurnsStand' /\ ControlsStand' /\ CountsStand' /\ PausesStand' /\ JobStands' /\
        DeliveryIsEarned'
  BY Frames DEF StopEnds, StopHasFailed, stages, disk
<1>t. TypeOK'
  <2>stopping. stopping' \in Stops
    BY <1>w DEF StopEnds, StopHasFailed, stages, disk, TypeOK, Stops
  <2> QED BY <1>w, <2>stopping DEF StopEnds, StopHasFailed, stages, disk, TypeOK
<1>s. SavesStand'
  BY <1>j, <1>h, <1>i
     DEF StopEnds, StopHasFailed, stages, disk, SavesStand, Waits, WhatIsSaved, Begun, Concluded,
         Recorded
<1>g. StagesStand'
  BY <1>j, <1>h, <1>i, <1>f
     DEF StopEnds, StopHasFailed, stages, disk, StagesStand, StageUnderWay, Resumable
<1>m. ModesStand'
  BY <1>j, <1>h, <1>i DEF StopEnds, StopHasFailed, stages, disk, ModesStand, AtRest, Resumable
<1>e. EndStands'
  BY <1>j, <1>h, <1>i DEF StopEnds, StopHasFailed, stages, disk, EndStands, Terminal
<1> QED BY <1>f, <1>t, <1>s, <1>g, <1>m, <1>e

(* The core closes when nobody waits for a record. *)
LEMMA CoreClosesStands ==
  ASSUME Inv, CoreCloses, UNCHANGED deliveryVars
  PROVE  Inv'
<1> USE DEF Inv, DeliveryStands, SameOnDisk, deliveryVars, Owned, SameQueues
<1>j. SameOnDisk
  BY JournalStays DEF CoreCloses, owner
<1>h. SameQueues /\ (\A who : Waits(who)' <=> Waits(who))
  BY DEF Op, Turn, Waits, Tracked, StageUnderWay, CoreCloses, owner
<1>i. StageUnderWay => ops # <<>> /\ Tracked # {} /\ ~Idle
  BY UnderWay
<1>w. TypeOK /\ DeliveryTypeOK
  BY DEF DeliveryIsEarned
<1>ep. /\ core' \in Cores /\ core.epoch \in Nat /\ core'.epoch \in Nat /\
            core'.epoch >= core.epoch /\ core'.epoch = core.epoch /\ core'.denied = core.denied
          /\ core'.stopped = core.stopped /\ core'.closing \in {"closed", "failed"} /\
               (store.poisoned => core'.closing = "failed")
  <2>1. core \in Cores
    BY <1>w DEF TypeOK
  <2>2. PICK to \in {"closed", "failed"} :
          core' = [core EXCEPT !.closing = to] /\ (store.poisoned => to = "failed")
    BY DEF CoreCloses
  <2>3. core' \in Cores /\ core'.epoch = core.epoch /\ core.epoch \in Nat /\ core'.closing = to
    BY <2>1, <2>2 DEF Cores
  <2>4. core'.denied = core.denied
    BY <2>1, <2>2 DEF Cores
  <2>5. core'.stopped = core.stopped
    BY <2>1, <2>2 DEF Cores
  <2> QED BY <2>1, <2>2, <2>3, <2>4, <2>5
<1>f. DeliveryTypeOK' /\ ResumedOnce' /\ PausesStand' /\ DeliveryIsEarned'
  BY Frames DEF CoreCloses, owner
<1>t. TypeOK'
  <2>store. store' \in Stores
    BY <1>w DEF CoreCloses, owner, TypeOK, Stores
  <2>core. core' \in Cores
    BY <1>ep
  <2>faults. faults' \in 0 .. MaxFaults
    BY <1>w, ContinuityAssumption DEF CoreCloses, owner, TypeOK
  <2>space. space' \in {"none", "open", "revoked"}
    BY <1>w DEF CoreCloses, TypeOK
  <2> QED BY <1>w, <2>store, <2>core, <2>faults, <2>space DEF CoreCloses, owner, TypeOK
<1>d. PausedIsDrained'
  BY <1>j, <1>h, <1>i, <1>ep DEF CoreCloses, owner, PausedIsDrained
<1>b. BudgetKept'
  BY <1>j, <1>h, <1>i, <1>ep, ContinuityAssumption DEF CoreCloses, owner, BudgetKept
<1>s. SavesStand'
  BY <1>j, <1>h, <1>i, <1>ep
     DEF CoreCloses, owner, SavesStand, Waits, WhatIsSaved, Begun, Concluded, Recorded
<1>g1. QueueStands'
  BY <1>j, <1>h, <1>i, <1>ep, QueueKept DEF CoreCloses, owner, StagesStand, TypeOK, Cores
<1>g. StagesStand'
  BY <1>j, <1>h, <1>i, <1>ep, <1>g1 DEF CoreCloses, owner, StagesStand, StageUnderWay, Resumable
<1>m. ModesStand'
  BY <1>j, <1>h, <1>i, <1>ep
     DEF CoreCloses, owner, Heard, Live, Alive, Pending, Idle, NoSave, NoJob, Terminal, Resumable,
         Tracked, TypeOK, ModesStand, SavesStand, Waits, AtRest, StagesStand, StageUnderWay,
         ControlsStand, Commits, States, Cores, Stores
<1>k1. TurnsStand'
  BY <1>j, <1>h, <1>i, <1>ep, TurnsKept DEF CoreCloses, owner, ControlsStand, ModesStand, AtRest
<1>k. ControlsStand'
  BY <1>j, <1>h, <1>i, <1>ep, <1>k1 DEF CoreCloses, owner, ControlsStand
<1>n. CountsStand'
  BY <1>j, <1>h, <1>i, <1>ep, ContinuityAssumption
     DEF CoreCloses, owner, CountsStand, InStep, Unsaved, Terminal, Resumable
<1>e. EndStands'
  BY <1>j, <1>h, <1>i, <1>ep DEF CoreCloses, owner, EndStands, Terminal
<1>y. JobStands'
  BY <1>j, <1>h, <1>i, <1>ep DEF CoreCloses, owner, JobStands, Unsaved
<1> QED BY <1>f, <1>t, <1>d, <1>b, <1>s, <1>g, <1>m, <1>k, <1>n, <1>e, <1>y

(* The coordinator is asked on an idle owner, whose end is not on record. *)
LEMMA AskStands ==
  ASSUME Inv, NEW kind \in Kinds, Ask(kind)
  PROVE  Inv'
<1> USE DEF Inv, DeliveryStands, SameOnDisk, deliveryVars, Owned, SameQueues
<1>j. SameOnDisk
  BY JournalStays DEF Ask, QualificationIdle, DestinationHolds, Kinds, stages, disk
<1>h. SameQueues
  BY
     DEF Op, Turn, Waits, Tracked, StageUnderWay, Ask, QualificationIdle, DestinationHolds, Kinds,
         stages, disk
<1>b0. qualifying' \in BOOLEAN
  BY DEF TypeOK, Ask, QualificationIdle, DestinationHolds, Kinds, stages, disk
<1>i. StageUnderWay => ops # <<>> /\ Tracked # {} /\ ~Idle
  BY UnderWay
<1>w. TypeOK /\ DeliveryTypeOK
  BY DEF DeliveryIsEarned
<1>x. /\ qualifying' = TRUE /\ job' = [kind |-> kind, at |-> "asked", head |-> 0] /\ job = NoJob /\
           mode = "active"
      /\ ops = <<>> /\ save.at = "none" /\ Alive /\ state.phase = "DIAGNOSTIC_READY"
      /\ UNCHANGED <<mode, permitted, checkpoint, controls, stopping, core, ops, actor, author,
           space, custody, state, save, journal, store, faults>> /\ UNCHANGED <<phase, accepted,
           qualified, consumed, halted, copy, output, tampered>>
  BY DEF Ask, QualificationIdle, stages, disk
<1>z. /\ job' # NoJob /\ stopping.at = "no" /\ ~OnDisk("STOPPED") /\ phase # "uncertain" /\
           job'.at = "asked" /\ job'.kind \in Kinds
      /\ (controls # <<>> => Turn.at = "queued") /\
            (\A n \in DOMAIN controls : controls[n].kind # "pause")
  <2>1. stopping.at = "no" /\ ~OnDisk("STOPPED")
    BY <1>x, HeardInStep DEF Alive, Live
  <2>2. (controls # <<>> => Turn.at = "queued") /\
           (\A n \in DOMAIN controls : controls[n].kind # "pause")
    BY <1>x DEF ControlsStand, TurnsStand
  <2>3. phase # "uncertain"
    BY <1>x DEF JobStands, Alive, Live
  <2> QED BY <1>x, <2>1, <2>2, <2>3 DEF NoJob
<1>f. PausedIsDrained' /\ BudgetKept' /\ ResumedOnce' /\ QueueStands' /\ StagesStand' /\
        CountsStand' /\ PausesStand' /\ EndStands'
  BY Frames, <1>x, <1>z DEF Ask, QualificationIdle, DestinationHolds, Kinds, stages, disk
<1>t. TypeOK'
  <2> QED BY <1>w, <1>b0, <1>x, <1>z DEF TypeOK
<1>u. DeliveryTypeOK'
  BY <1>w, <1>x, <1>z DEF NoJob, DeliveryTypeOK, Kinds
<1>s. SavesStand'
  <2>1. \A who \in {"op", "control", "stop", "delivery"} : Waits(who)' <=> save'.at # "none" /\
          save'.for = who
    BY <1>j, <1>h, <1>i, <1>x, <1>z DEF SavesStand, Waits, WhatIsSaved, Begun, Concluded, Recorded
  <2>2. save'.at # "none" => WhatIsSaved'
    BY <1>j, <1>h, <1>i, <1>x, <1>z DEF SavesStand, Waits, WhatIsSaved, Begun, Concluded, Recorded
  <2>3. save'.at # "none" => save'.epoch <= core'.epoch /\ (save'.epoch = core'.epoch /\
          save'.for \in {"op", "delivery"} => mode' = "active")
    BY <1>j, <1>h, <1>i, <1>x, <1>z DEF SavesStand, Waits, WhatIsSaved, Begun, Concluded, Recorded
  <2>4. save'.at \in {"written", "ok"} => journal' # <<>> /\ Len(journal') = save'.next.revision /\
          Last' = save'.type
    BY <1>j, <1>h, <1>i, <1>x, <1>z DEF SavesStand, Waits, WhatIsSaved, Begun, Concluded, Recorded
  <2>5. save'.at = "ok" => state' = save'.next
    BY <1>j, <1>h, <1>i, <1>x, <1>z DEF SavesStand, Waits, WhatIsSaved, Begun, Concluded, Recorded
  <2>6. save'.at \notin {"none", "ok"} =>
            /\ save'.next.revision = state'.revision + 1
            /\ save'.next.attempts = state'.attempts + (IF save'.type = "attempt" THEN 1 ELSE 0)
    BY <1>j, <1>h, <1>i, <1>x, <1>z DEF SavesStand, Waits, WhatIsSaved, Begun, Concluded, Recorded
  <2> QED BY <2>1, <2>2, <2>3, <2>4, <2>5, <2>6 DEF SavesStand
<1>m. ModesStand'
  BY <1>j, <1>h, <1>i, <1>x, <1>z DEF ModesStand, AtRest, Resumable
<1>k1. TurnsStand'
  BY <1>j, <1>h, <1>i, <1>x, <1>z, TurnsKept DEF Ask, ControlsStand
<1>k. ControlsStand'
  BY <1>j, <1>h, <1>i, <1>x, <1>z, <1>k1 DEF ControlsStand
<1>y. JobStands'
  <2>1. Unsaved' /\ save'.type = "accepted" => ~OnDisk("accepted")' /\ ~OnDisk("finalized")'
    BY <1>j, <1>h, <1>i, <1>x, <1>z DEF JobStands, Unsaved
  <2>2. Unsaved' /\ save'.type = "finalized" => ~OnDisk("finalized")'
    BY <1>j, <1>h, <1>i, <1>x, <1>z DEF JobStands, Unsaved
  <2>3. Unsaved' /\ save'.type = "reserved" => journal' # <<>> /\ Last' = "finalized"
    BY <1>j, <1>h, <1>i, <1>x, <1>z DEF JobStands, Unsaved
  <2>4. Unsaved' /\ save'.type = "completed" => OnDisk("reserved")' /\ ~OnDisk("completed")'
    BY <1>j, <1>h, <1>i, <1>x, <1>z DEF JobStands, Unsaved
  <2>5. phase' = "none" => output' = "absent" /\ copy' = "none" /\ ~OnDisk("reserved")' /\
          ~OnDisk("completed")'
    BY <1>j, <1>h, <1>i, <1>x, <1>z DEF JobStands, Unsaved
  <2>6. job'.at \notin {"none", "asked"} =>
            IF job'.kind = "export" THEN phase' = "reserved" /\ consumed' ELSE phase' = "none"
    BY <1>j, <1>h, <1>i, <1>x, <1>z DEF JobStands, Unsaved
  <2>7. job'.at \in {"copying", "copied", "completing", "rereading", "marking", "marked"} =>
            job'.kind = "export" /\ OnDisk("reserved")'
    BY <1>j, <1>h, <1>i, <1>x, <1>z DEF JobStands, Unsaved
  <2>8. job'.kind = "export" /\ job'.at = "reading" => OnDisk("reserved")'
    BY <1>j, <1>h, <1>i, <1>x, <1>z DEF JobStands, Unsaved
  <2>9. job'.at \in {"copied", "completing"} => output' = "payload"
    BY <1>j, <1>h, <1>i, <1>x, <1>z DEF JobStands, Unsaved
  <2>10. job'.at \in {"rereading", "marking"} => OnDisk("completed")'
    BY <1>j, <1>h, <1>i, <1>x, <1>z DEF JobStands, Unsaved
  <2>11. job'.at = "marked" => output' = "marked"
    BY <1>j, <1>h, <1>i, <1>x, <1>z DEF JobStands, Unsaved
  <2>12. phase' = "uncertain" => store'.revoked /\ job' = NoJob /\ save'.at = "none"
    BY <1>j, <1>h, <1>i, <1>x, <1>z DEF JobStands, Unsaved
  <2>13. copy' # "none" => state'.phase \in {"DIAGNOSTIC_READY", "STOPPED"}
    BY <1>j, <1>h, <1>i, <1>x, <1>z DEF JobStands, Unsaved
  <2>14. state'.phase = "DIAGNOSTIC_READY" => journal' # <<>>
    BY <1>j, <1>h, <1>i, <1>x, <1>z DEF JobStands, Unsaved
  <2> QED BY <2>1, <2>2, <2>3, <2>4, <2>5, <2>6, <2>7, <2>8, <2>9, <2>10, <2>11, <2>12, <2>13, <2>14
             DEF JobStands
<1>a. DeliveryIsEarned'
  BY <1>j, <1>h, <1>i, <1>x, <1>z, <1>y, <1>u
     DEF TypeOK, DeliveryIsEarned, DeliveryTypeOK, JobStands, SavesStand, Waits, WhatIsSaved,
         Recorded, Unsaved, Commits, ModesStand, DestinationHolds, Inspected, OutputHolds
<1> QED BY <1>f, <1>t, <1>u, <1>s, <1>m, <1>k, <1>y, <1>a

(* The one admission of an export is spent. *)
LEMMA JobStartsStands ==
  ASSUME Inv, JobStarts
  PROVE  Inv'
<1> USE DEF Inv, DeliveryStands, SameOnDisk, deliveryVars, Owned, SameQueues
<1>j. SameOnDisk
  BY JournalStays
     DEF JobStarts, Checks, QualificationIdle, DestinationHolds, OwnerStays, CoreStays, MayAsk,
         stages, disk
<1>h. SameQueues
  BY
     DEF Op, Turn, Waits, Tracked, StageUnderWay, JobStarts, Checks, QualificationIdle,
         DestinationHolds, OwnerStays, CoreStays, MayAsk, stages, disk
<1>b1. consumed' \in BOOLEAN
  BY
     DEF DeliveryIsEarned, DeliveryTypeOK, JobStarts, Checks, QualificationIdle, DestinationHolds,
         OwnerStays, CoreStays, MayAsk, stages, disk
<1>i. StageUnderWay => ops # <<>> /\ Tracked # {} /\ ~Idle
  BY UnderWay
<1>w. TypeOK /\ DeliveryTypeOK
  BY DEF DeliveryIsEarned
<1>x. /\ job.at = "asked" /\ job' = [job EXCEPT !.at = "proving", !.head = Len(journal)]
      /\ phase = "none" /\ ~consumed
      /\ IF job.kind = "export" THEN consumed' = TRUE /\
              phase' = "reserved" ELSE UNCHANGED <<consumed, phase>>
      /\ UNCHANGED <<mode, permitted, checkpoint, controls, stopping, qualifying, core, ops, actor,
           author, space, custody, state, save, journal, store, faults>> /\ UNCHANGED <<accepted,
           qualified, halted, copy, output, tampered>>
  BY DEF JobStarts, MayAsk, OwnerStays, CoreStays, stages, disk
<1>z. /\ job # NoJob /\ job' # NoJob /\ job'.kind = job.kind /\ job'.kind \in Kinds /\
           job'.at = "proving" /\ job'.head \in Nat
      /\ job' = [kind |-> job.kind, at |-> "proving", head |-> Len(journal)]
  <2>1. job # NoJob /\ Len(journal) \in Nat
    BY <1>w, <1>x DEF NoJob, TypeOK
  <2> QED BY <1>w, <1>x, <2>1 DEF DeliveryTypeOK, NoJob
<1>f. TypeOK' /\ PausedIsDrained' /\ BudgetKept' /\ ResumedOnce' /\ QueueStands' /\ StagesStand' /\
        CountsStand' /\ PausesStand' /\ EndStands'
  BY Frames, <1>x, <1>z
     DEF JobStarts, Checks, QualificationIdle, DestinationHolds, OwnerStays, CoreStays, MayAsk,
         stages, disk
<1>u. DeliveryTypeOK'
  BY <1>w, <1>x, <1>z, <1>b1, <1>b1 DEF NoJob, DeliveryTypeOK, Kinds
<1>s. SavesStand'
  BY <1>j, <1>h, <1>i, <1>x, <1>z DEF SavesStand, Waits, WhatIsSaved, Begun, Concluded, Recorded
<1>m. ModesStand'
  BY <1>j, <1>h, <1>i, <1>x, <1>z DEF ModesStand, AtRest, Resumable
<1>k1. TurnsStand'
  BY <1>j, <1>h, <1>i, <1>x, <1>z, TurnsKept DEF JobStarts, ControlsStand
<1>k. ControlsStand'
  BY <1>j, <1>h, <1>i, <1>x, <1>z, <1>k1 DEF ControlsStand
<1>y. JobStands'
  BY <1>j, <1>h, <1>i, <1>x, <1>z DEF JobStands, Unsaved
<1>a. DeliveryIsEarned'
  BY <1>j, <1>h, <1>i, <1>x, <1>z, <1>y, <1>u
     DEF TypeOK, DeliveryIsEarned, DeliveryTypeOK, JobStands, SavesStand, Waits, WhatIsSaved,
         Recorded, Unsaved, Commits, ModesStand, DestinationHolds, Inspected, OutputHolds
<1> QED BY <1>f, <1>u, <1>s, <1>m, <1>k, <1>y, <1>a

(* A request that is refused ends. *)
LEMMA JobRefusedStands ==
  ASSUME Inv, JobRefused
  PROVE  Inv'
<1> USE DEF Inv, DeliveryStands, SameOnDisk, deliveryVars, Owned, SameQueues
<1>j. SameOnDisk
  BY JournalStays
     DEF JobRefused, Checks, QualificationIdle, DestinationHolds, JobTo, OwnerStays, CoreStays,
         PaperStays, Ends, MayAsk, stages, disk
<1>h. SameQueues
  BY
     DEF Op, Turn, Waits, Tracked, StageUnderWay, JobRefused, Checks, QualificationIdle,
         DestinationHolds, JobTo, OwnerStays, CoreStays, PaperStays, Ends, MayAsk, stages, disk
<1>b0. qualifying' \in BOOLEAN
  BY
     DEF TypeOK, JobRefused, Checks, QualificationIdle, DestinationHolds, JobTo, OwnerStays,
         CoreStays, PaperStays, Ends, MayAsk, stages, disk
<1>i. StageUnderWay => ops # <<>> /\ Tracked # {} /\ ~Idle
  BY UnderWay
<1>w. TypeOK /\ DeliveryTypeOK
  BY DEF DeliveryIsEarned
<1>f. PausedIsDrained' /\ BudgetKept' /\ ResumedOnce' /\ QueueStands' /\ StagesStand' /\
        CountsStand' /\ PausesStand' /\ EndStands'
  BY Frames
     DEF JobRefused, Checks, QualificationIdle, DestinationHolds, JobTo, OwnerStays, CoreStays,
         PaperStays, Ends, MayAsk, stages, disk
<1>t. TypeOK'
  <2> QED BY <1>w, <1>b0
             DEF JobRefused, JobTo, OwnerStays, CoreStays, PaperStays, Ends, stages, disk, TypeOK
<1>u. DeliveryTypeOK'
  BY <1>w
     DEF JobRefused, JobTo, OwnerStays, CoreStays, PaperStays, Ends, stages, disk, NoJob,
         DeliveryTypeOK, Kinds
<1>s. SavesStand'
  BY <1>j, <1>h, <1>i
     DEF JobRefused, Checks, QualificationIdle, DestinationHolds, JobTo, OwnerStays, CoreStays,
         PaperStays, Ends, MayAsk, stages, disk, NoJob, SavesStand, Waits, WhatIsSaved, Begun,
         Concluded, Recorded
<1>m. ModesStand'
  BY <1>j, <1>h, <1>i
     DEF JobRefused, Checks, QualificationIdle, DestinationHolds, JobTo, OwnerStays, CoreStays,
         PaperStays, Ends, MayAsk, stages, disk, NoJob, ModesStand, AtRest, Resumable
<1>k1. TurnsStand'
  BY <1>j, <1>h, <1>i, TurnsKept
     DEF JobRefused, Checks, QualificationIdle, DestinationHolds, JobTo, OwnerStays, CoreStays,
         PaperStays, Ends, MayAsk, stages, disk, ControlsStand
<1>k. ControlsStand'
  BY <1>j, <1>h, <1>i, <1>k1
     DEF JobRefused, Checks, QualificationIdle, DestinationHolds, JobTo, OwnerStays, CoreStays,
         PaperStays, Ends, MayAsk, stages, disk, NoJob, ControlsStand
<1>y. JobStands'
  BY <1>j, <1>h, <1>i
     DEF JobRefused, Checks, QualificationIdle, DestinationHolds, JobTo, OwnerStays, CoreStays,
         PaperStays, Ends, MayAsk, stages, disk, NoJob, JobStands, Unsaved
<1>a. DeliveryIsEarned'
  BY <1>j, <1>h, <1>i, <1>y, <1>u
     DEF JobRefused, Checks, QualificationIdle, DestinationHolds, JobTo, OwnerStays, CoreStays,
         PaperStays, Ends, MayAsk, stages, disk, Heard, Live, Alive, Pending, Idle, NoSave, NoJob,
         Terminal, Resumable, Tracked, TypeOK, DeliveryIsEarned, DeliveryTypeOK, JobStands,
         SavesStand, Waits, WhatIsSaved, Recorded, Unsaved, Commits, ModesStand, Inspected,
         OutputHolds
<1> QED BY <1>f, <1>t, <1>u, <1>s, <1>m, <1>k, <1>y, <1>a

(* A request that is proven may be recorded. *)
LEMMA JobProvesStands ==
  ASSUME Inv, JobProves
  PROVE  Inv'
<1> USE DEF Inv, DeliveryStands, SameOnDisk, deliveryVars, Owned, SameQueues
<1>j. SameOnDisk
  BY JournalStays
     DEF JobProves, Checks, QualificationIdle, DestinationHolds, JobTo, OwnerStays, CoreStays,
         PaperStays, Ends, Proven, stages, disk
<1>h. SameQueues
  BY
     DEF Op, Turn, Waits, Tracked, StageUnderWay, JobProves, Checks, QualificationIdle,
         DestinationHolds, JobTo, OwnerStays, CoreStays, PaperStays, Ends, Proven, stages, disk
<1>i. StageUnderWay => ops # <<>> /\ Tracked # {} /\ ~Idle
  BY UnderWay
<1>w. TypeOK /\ DeliveryTypeOK
  BY DEF DeliveryIsEarned
<1>f. TypeOK' /\ PausedIsDrained' /\ BudgetKept' /\ ResumedOnce' /\ QueueStands' /\ StagesStand' /\
        CountsStand' /\ PausesStand' /\ EndStands'
  BY Frames
     DEF JobProves, Checks, QualificationIdle, DestinationHolds, JobTo, OwnerStays, CoreStays,
         PaperStays, Ends, Proven, stages, disk
<1>u. DeliveryTypeOK'
  BY <1>w
     DEF JobProves, JobTo, OwnerStays, CoreStays, PaperStays, Ends, stages, disk, NoJob,
         DeliveryTypeOK, Kinds
<1>s. SavesStand'
  BY <1>j, <1>h, <1>i
     DEF JobProves, Checks, QualificationIdle, DestinationHolds, JobTo, OwnerStays, CoreStays,
         PaperStays, Ends, Proven, stages, disk, NoJob, SavesStand, Waits, WhatIsSaved, Begun,
         Concluded, Recorded
<1>m. ModesStand'
  BY <1>j, <1>h, <1>i
     DEF JobProves, Checks, QualificationIdle, DestinationHolds, JobTo, OwnerStays, CoreStays,
         PaperStays, Ends, Proven, stages, disk, NoJob, ModesStand, AtRest, Resumable
<1>k1. TurnsStand'
  BY <1>j, <1>h, <1>i, TurnsKept
     DEF JobProves, Checks, QualificationIdle, DestinationHolds, JobTo, OwnerStays, CoreStays,
         PaperStays, Ends, Proven, stages, disk, ControlsStand
<1>k. ControlsStand'
  BY <1>j, <1>h, <1>i, <1>k1
     DEF JobProves, Checks, QualificationIdle, DestinationHolds, JobTo, OwnerStays, CoreStays,
         PaperStays, Ends, Proven, stages, disk, NoJob, ControlsStand
<1>y. JobStands'
  BY <1>j, <1>h, <1>i
     DEF JobProves, Checks, QualificationIdle, DestinationHolds, JobTo, OwnerStays, CoreStays,
         PaperStays, Ends, Proven, stages, disk, NoJob, JobStands, Unsaved
<1>a. DeliveryIsEarned'
  BY <1>j, <1>h, <1>i, <1>y, <1>u
     DEF JobProves, Checks, QualificationIdle, DestinationHolds, JobTo, OwnerStays, CoreStays,
         PaperStays, Ends, Proven, stages, disk, Heard, Live, Alive, Pending, Idle, NoSave, NoJob,
         Terminal, Resumable, Tracked, TypeOK, DeliveryIsEarned, DeliveryTypeOK, JobStands,
         SavesStand, Waits, WhatIsSaved, Recorded, Unsaved, Commits, ModesStand, Inspected,
         OutputHolds
<1> QED BY <1>f, <1>u, <1>s, <1>m, <1>k, <1>y, <1>a

(* The paper that is asked for is not on disk, and those it needs are. *)
LEMMA JobRecordsStands ==
  ASSUME Inv, JobRecords
  PROVE  Inv'
<1> USE DEF Inv, DeliveryStands, SameOnDisk, Owned, SameQueues
<1>j. SameOnDisk
  BY JournalStays
     DEF JobRecords, Checks, QualificationIdle, DestinationHolds, JobTo, OwnerStays, CoreStays,
         PaperStays, Ends, Audited, Type, Commit, stages, disk, deliveryVars
<1>h. SameQueues
  BY
     DEF Op, Turn, Waits, Tracked, StageUnderWay, JobRecords, Checks, QualificationIdle,
         DestinationHolds, JobTo, OwnerStays, CoreStays, PaperStays, Ends, Audited, Type, Commit,
         stages, disk, deliveryVars
<1>i. StageUnderWay => ops # <<>> /\ Tracked # {} /\ ~Idle
  BY UnderWay
<1>w. TypeOK /\ DeliveryTypeOK
  BY DEF DeliveryIsEarned
<1>x. /\ job.at \in {"recording", "copied"} /\ Alive /\ mode = "active" /\ save.at = "none" /\
           state.phase = "DIAGNOSTIC_READY"
      /\ Audited /\ Commit("delivery", Type, state.phase, state.attempts, core.epoch)
      /\ job' = [job EXCEPT !.at = IF job.at = "recording" THEN "saving" ELSE "completing"]
      /\ UNCHANGED <<mode, permitted, checkpoint, controls, stopping, qualifying, core, ops, actor,
           author, space, custody, state, journal, store, faults>> /\ UNCHANGED <<phase, accepted,
           qualified, consumed, halted, copy, output, tampered>>
  BY DEF JobRecords, Checks, QualificationIdle, JobTo, OwnerStays, PaperStays, stages
<1>z. /\ job # NoJob /\ job' # NoJob /\ job' \in [kind : Kinds, head : Nat, at : {"saving",
           "completing"}] /\ job'.kind = job.kind
      /\ (job'.at = "completing" <=> job.at = "copied") /\ stopping.at = "no"
      /\ ops = <<>> /\ journal # <<>> /\ state.revision = Len(journal) /\ Spent = state.attempts /\
           ~OnDisk("STOPPED")
      /\ (controls # <<>> => Turn.at = "queued") /\ state \in States /\ state.attempts \in Nat /\
            core.epoch \in Nat
  <2>1. job # NoJob /\ job' # NoJob /\ job'.kind = job.kind /\
          (job'.at = "completing" <=> job.at = "copied")
        /\ job' \in [kind : Kinds, head : Nat, at : {"saving", "completing"}]
    BY <1>w, <1>x DEF DeliveryTypeOK, NoJob
  <2>2. ops = <<>> /\ ~OnDisk("STOPPED") /\ (controls # <<>> => Turn.at = "queued") /\
          journal # <<>>
    BY <1>x, <2>1 DEF ModesStand, ControlsStand, JobStands
  <2>3. state.revision = Len(journal) /\ Spent = state.attempts /\ stopping.at = "no"
    BY <1>x, HeardInStep DEF Alive, Live
  <2> QED BY <1>w, <2>1, <2>2, <2>3, ContinuityAssumption DEF TypeOK, Cores, States
<1>s0. /\ save' \in Commits /\ save'.at = "asked" /\ save'.for = "delivery" /\
            save'.epoch = core.epoch
       /\ save'.next.phase = state.phase /\ save'.next.attempts = state.attempts /\
            save'.next.revision = state.revision + 1
       /\ <<job'.kind, job'.at, save'.type>> \in Recorded
       /\ save'.type \in {"accepted", "finalized", "reserved", "completed"} /\ ~core.stopped
       /\ (save'.type = "accepted" => ~OnDisk("accepted") /\ ~OnDisk("finalized"))
       /\ (save'.type = "finalized" => ~OnDisk("finalized"))
       /\ (save'.type = "reserved" => Last = "finalized")
       /\ (save'.type = "completed" => OnDisk("reserved") /\ ~OnDisk("completed"))
  <2>1. job.at = "copied" => job.kind = "export"
    BY DEF JobStands
  <2>2. /\ Type \in Papers /\ <<job'.kind, job'.at, Type>> \in Recorded
        /\ (Type = "accepted" => ~OnDisk("accepted") /\ ~OnDisk("finalized"))
        /\ (Type = "finalized" => ~OnDisk("finalized"))
        /\ (Type = "reserved" => Last = "finalized")
        /\ (Type = "completed" => OnDisk("reserved") /\ ~OnDisk("completed"))
    BY <1>x, <1>z, <2>1 DEF Type, Audited, Recorded, Papers, Last, Kinds
  <2>3. /\ save' = [at |-> "asked", for |-> "delivery", type |-> Type, epoch |-> core.epoch,
             next |-> save'.next]
        /\ save'.at = "asked" /\ save'.for = "delivery" /\ save'.type = Type /\
             save'.epoch = core.epoch
        /\ save'.next = [phase |-> state.phase, attempts |-> state.attempts,
             revision |-> state.revision + 1]
    BY <1>x DEF Commit
  <2>4. save'.next \in States
    BY <1>z, <2>3 DEF States
  <2>5. save' \in Commits
    BY <1>z, <2>2, <2>3, <2>4 DEF Commits, Types
  <2> QED BY <1>x, <2>2, <2>3, <2>5 DEF Papers, Alive, Live
<1>f. ResumedOnce' /\ QueueStands'
  BY Frames, <1>x, <1>z, <1>s0
     DEF JobRecords, Checks, QualificationIdle, DestinationHolds, JobTo, OwnerStays, CoreStays,
         PaperStays, Ends, Audited, Type, Commit, stages, disk, deliveryVars
<1>t. TypeOK'
  <2>save. save' \in Commits \cup {NoSave}
    BY <1>w, <1>x, <1>z, <1>s0, ContinuityAssumption
       DEF TypeOK, NoSave, Commits, States, Phases, Types, Papers, Terminal, Resumable, Cores,
           SavesStand, StagesStand, StageUnderWay, Stages, Heard
  <2> QED BY <1>w, <1>x, <1>z, <1>s0, <2>save DEF TypeOK
<1>u. DeliveryTypeOK'
  BY <1>w, <1>x, <1>z, <1>s0 DEF NoJob, DeliveryTypeOK, Kinds
<1>d. PausedIsDrained'
  BY <1>j, <1>h, <1>i, <1>x, <1>z, <1>s0 DEF PausedIsDrained
<1>b. BudgetKept'
  BY <1>j, <1>h, <1>i, <1>x, <1>z, <1>s0, ContinuityAssumption DEF BudgetKept
<1>s. SavesStand'
  <2>1. \A who \in {"op", "control", "stop", "delivery"} : Waits(who)' <=> save'.at # "none" /\
          save'.for = who
    BY <1>j, <1>h, <1>i, <1>x, <1>z, <1>s0
       DEF SavesStand, Waits, WhatIsSaved, Begun, Concluded, Recorded
  <2>2. save'.at # "none" => WhatIsSaved'
    BY <1>j, <1>h, <1>i, <1>x, <1>z, <1>s0
       DEF SavesStand, Waits, WhatIsSaved, Begun, Concluded, Recorded
  <2>3. save'.at # "none" => save'.epoch <= core'.epoch /\ (save'.epoch = core'.epoch /\
          save'.for \in {"op", "delivery"} => mode' = "active")
    BY <1>j, <1>h, <1>i, <1>x, <1>z, <1>s0
       DEF SavesStand, Waits, WhatIsSaved, Begun, Concluded, Recorded
  <2>4. save'.at \in {"written", "ok"} => journal' # <<>> /\ Len(journal') = save'.next.revision /\
          Last' = save'.type
    BY <1>j, <1>h, <1>i, <1>x, <1>z, <1>s0
       DEF SavesStand, Waits, WhatIsSaved, Begun, Concluded, Recorded
  <2>5. save'.at = "ok" => state' = save'.next
    BY <1>j, <1>h, <1>i, <1>x, <1>z, <1>s0
       DEF SavesStand, Waits, WhatIsSaved, Begun, Concluded, Recorded
  <2>6. save'.at \notin {"none", "ok"} =>
            /\ save'.next.revision = state'.revision + 1
            /\ save'.next.attempts = state'.attempts + (IF save'.type = "attempt" THEN 1 ELSE 0)
    BY <1>j, <1>h, <1>i, <1>x, <1>z, <1>s0
       DEF SavesStand, Waits, WhatIsSaved, Begun, Concluded, Recorded
  <2> QED BY <2>1, <2>2, <2>3, <2>4, <2>5, <2>6 DEF SavesStand
<1>g. StagesStand'
  BY <1>j, <1>h, <1>i, <1>x, <1>z, <1>s0, <1>f DEF StagesStand, StageUnderWay, Resumable
<1>m. ModesStand'
  <2>1. stopping'.at # "no" <=> mode' = "stopped"
    BY <1>j, <1>h, <1>i, <1>x, <1>z, <1>s0 DEF ModesStand, AtRest, Resumable
  <2>2. core'.closing # "no" \/ store'.revoked \/ mode' = "blocked" => core'.stopped
    BY <1>j, <1>h, <1>i, <1>x, <1>z, <1>s0 DEF ModesStand, AtRest, Resumable
  <2>3. core'.stopped => store'.revoked \/ mode' = "stopped"
    BY <1>j, <1>h, <1>i, <1>x, <1>z, <1>s0 DEF ModesStand, AtRest, Resumable
  <2>4. core'.closing = "closed" => store'.closed
    BY <1>j, <1>h, <1>i, <1>x, <1>z, <1>s0 DEF ModesStand, AtRest, Resumable
  <2>5. core'.closing \in {"closed", "failed"} => save'.at = "none"
    BY <1>j, <1>h, <1>i, <1>x, <1>z, <1>s0 DEF ModesStand, AtRest, Resumable
  <2>6. mode' \in AtRest \cup {"blocked"} =>
            ops' = <<>> /\ actor' = "none" /\ ~author' /\ job' = NoJob /\ ~OnDisk("STOPPED")'
    BY <1>j, <1>h, <1>i, <1>x, <1>z, <1>s0 DEF ModesStand, AtRest, Resumable
  <2>7. mode' \in AtRest => ~core'.stopped /\ core'.denied /\ state'.phase \in Resumable
    BY <1>j, <1>h, <1>i, <1>x, <1>z, <1>s0 DEF ModesStand, AtRest, Resumable
  <2>8. qualifying' <=> job' # NoJob
    BY <1>j, <1>h, <1>i, <1>x, <1>z, <1>s0 DEF ModesStand, AtRest, Resumable
  <2>9. job' # NoJob =>
            /\ ops' = <<>> /\ mode' \in {"active", "stopped"} /\ stopping'.at \in {"no", "called"}
            /\ ~OnDisk("STOPPED")' /\ state'.phase = "DIAGNOSTIC_READY"
    BY <1>j, <1>h, <1>i, <1>x, <1>z, <1>s0 DEF ModesStand, AtRest, Resumable
  <2>10. stopping'.at = "controls" => ops' = <<>>
    BY <1>j, <1>h, <1>i, <1>x, <1>z, <1>s0 DEF ModesStand, AtRest, Resumable
  <2>11. stopping'.at \in {"closing", "saving"} => Tracked' = {}
    BY <1>j, <1>h, <1>i, <1>x, <1>z, <1>s0 DEF ModesStand, AtRest, Resumable
  <2>12. stopping'.at = "saving" => ~core'.stopped
    BY <1>j, <1>h, <1>i, <1>x, <1>z, <1>s0 DEF ModesStand, AtRest, Resumable
  <2>13. stopping'.at = "stopped" => ~stopping'.failed /\ core'.closing = "closed"
    BY <1>j, <1>h, <1>i, <1>x, <1>z, <1>s0 DEF ModesStand, AtRest, Resumable
  <2>14. stopping'.failed => stopping'.at \in {"core", "failed"}
    BY <1>j, <1>h, <1>i, <1>x, <1>z, <1>s0 DEF ModesStand, AtRest, Resumable
  <2> QED BY <2>1, <2>2, <2>3, <2>4, <2>5, <2>6, <2>7, <2>8, <2>9, <2>10, <2>11, <2>12, <2>13, <2>14
             DEF ModesStand
<1>k1. TurnsStand'
  BY <1>j, <1>h, <1>i, <1>x, <1>z, <1>s0, TurnsKept DEF JobRecords, ControlsStand
<1>k. ControlsStand'
  <2>1. controls' # <<>> /\ Turn'.at # "queued" =>
            /\ ops' = <<>> /\ job' = NoJob
            /\ <<Turn'.kind, Turn'.at>> \in
                 {<<kind, "cleaning">> : kind \in {"pause", "resume"}}
                   \cup {<<"pause", at>> : at \in {"closing", "before", "saving", "after"}}
                   \cup {<<"resume", at>> : at \in {"before", "consumed", "saving", "after"}}
    BY <1>j, <1>h, <1>i, <1>x, <1>z, <1>s0, <1>k1 DEF ControlsStand
  <2>2. controls' # <<>> /\ Turn'.at # "queued" =>
            mode' \in {"stopped", IF Turn'.at = "cleaning" THEN "blocked"
                                  ELSE IF Turn'.kind = "pause" THEN "pausing"
                                  ELSE IF Turn'.at = "before" THEN "paused" ELSE "resuming"}
    BY <1>j, <1>h, <1>i, <1>x, <1>z, <1>s0, <1>k1 DEF ControlsStand
  <2>3. controls' # <<>> /\ mode' # "stopped" =>
            /\ (Turn'.kind = "pause" /\ Turn'.at \in {"saving", "after"} => space' = "none" /\
                  ~custody')
            /\ (Turn'.at = "after" => journal' # <<>> /\ Last' = Turn'.kind)
            /\ (Turn'.at = "consumed" => journal' # <<>> /\ Last' = "pause")
    BY <1>j, <1>h, <1>i, <1>x, <1>z, <1>s0, <1>k1 DEF ControlsStand
  <2> QED BY <2>1, <2>2, <2>3, <1>k1 DEF ControlsStand
<1>n. CountsStand'
  <2>1. Unsaved' /\ save'.type = "attempt" => save'.next.attempts = Spent' + 1
    BY <1>j, <1>h, <1>i, <1>x, <1>z, <1>s0, ContinuityAssumption
       DEF CountsStand, InStep, Unsaved, Terminal, Resumable
  <2>2. save'.at = "written" /\ save'.type = "attempt" => save'.next.attempts = Spent'
    BY <1>j, <1>h, <1>i, <1>x, <1>z, <1>s0, ContinuityAssumption
       DEF CountsStand, InStep, Unsaved, Terminal, Resumable
  <2>3. InStep' => save'.at # "failed" /\ (save'.at # "none" => save'.epoch = core'.epoch)
    BY <1>j, <1>h, <1>i, <1>x, <1>z, <1>s0, ContinuityAssumption
       DEF CountsStand, InStep, Unsaved, Terminal, Resumable
  <2>4. InStep' => (save'.at = "written" => Spent' = save'.next.attempts)
    BY <1>j, <1>h, <1>i, <1>x, <1>z, <1>s0, ContinuityAssumption
       DEF CountsStand, InStep, Unsaved, Terminal, Resumable
  <2>5. InStep' => (save'.at # "written" => state'.revision = Len(journal') /\
          Spent' = state'.attempts)
    BY <1>j, <1>h, <1>i, <1>x, <1>z, <1>s0, ContinuityAssumption
       DEF CountsStand, InStep, Unsaved, Terminal, Resumable
  <2>6. state'.phase \in Terminal =>
            state'.revision = Len(journal') /\ save'.at \notin {"asked", "appending", "written"}
    BY <1>j, <1>h, <1>i, <1>x, <1>z, <1>s0, ContinuityAssumption
       DEF CountsStand, InStep, Unsaved, Terminal, Resumable
  <2> QED BY <2>1, <2>2, <2>3, <2>4, <2>5, <2>6 DEF CountsStand
<1>p. PausesStand'
  <2>1. OpenPause' =>
            \/ mode' \in {"paused", "resuming", "blocked", "stopped"}
            \/ mode' = "pausing" /\ controls' # <<>> /\ Turn'.kind = "pause" /\
                 Turn'.at \in {"saving", "after"}
    BY <1>j, <1>h, <1>i, <1>x, <1>z, <1>s0 DEF PausesStand, Unsaved, Resumable
  <2>2. Unsaved' /\ save'.type = "pause" => ~OpenPause'
    BY <1>j, <1>h, <1>i, <1>x, <1>z, <1>s0 DEF PausesStand, Unsaved, Resumable
  <2>3. Unsaved' /\ save'.type = "resume" => journal' # <<>> /\ Last' = "pause"
    BY <1>j, <1>h, <1>i, <1>x, <1>z, <1>s0 DEF PausesStand, Unsaved, Resumable
  <2>4. journal' # <<>> /\ Last' = "resume" =>
            /\ state'.phase \in Resumable
            /\ (Unsaved' => save'.type \in {"attempt", "pause", "STOPPED"})
    BY <1>j, <1>h, <1>i, <1>x, <1>z, <1>s0 DEF PausesStand, Unsaved, Resumable
  <2> QED BY <2>1, <2>2, <2>3, <2>4 DEF PausesStand
<1>e. EndStands'
  BY <1>j, <1>h, <1>i, <1>x, <1>z, <1>s0 DEF EndStands, Terminal
<1>y. JobStands'
  <2>1. Unsaved' /\ save'.type = "accepted" => ~OnDisk("accepted")' /\ ~OnDisk("finalized")'
    BY <1>j, <1>h, <1>i, <1>x, <1>z, <1>s0 DEF JobStands, Unsaved
  <2>2. Unsaved' /\ save'.type = "finalized" => ~OnDisk("finalized")'
    BY <1>j, <1>h, <1>i, <1>x, <1>z, <1>s0 DEF JobStands, Unsaved
  <2>3. Unsaved' /\ save'.type = "reserved" => journal' # <<>> /\ Last' = "finalized"
    BY <1>j, <1>h, <1>i, <1>x, <1>z, <1>s0 DEF JobStands, Unsaved
  <2>4. Unsaved' /\ save'.type = "completed" => OnDisk("reserved")' /\ ~OnDisk("completed")'
    BY <1>j, <1>h, <1>i, <1>x, <1>z, <1>s0 DEF JobStands, Unsaved
  <2>5. phase' = "none" => output' = "absent" /\ copy' = "none" /\ ~OnDisk("reserved")' /\
          ~OnDisk("completed")'
    BY <1>j, <1>h, <1>i, <1>x, <1>z, <1>s0 DEF JobStands, Unsaved
  <2>6. job'.at \notin {"none", "asked"} =>
            IF job'.kind = "export" THEN phase' = "reserved" /\ consumed' ELSE phase' = "none"
    BY <1>j, <1>h, <1>i, <1>x, <1>z, <1>s0 DEF JobStands, Unsaved
  <2>7. job'.at \in {"copying", "copied", "completing", "rereading", "marking", "marked"} =>
            job'.kind = "export" /\ OnDisk("reserved")'
    BY <1>j, <1>h, <1>i, <1>x, <1>z, <1>s0 DEF JobStands, Unsaved
  <2>8. job'.kind = "export" /\ job'.at = "reading" => OnDisk("reserved")'
    BY <1>j, <1>h, <1>i, <1>x, <1>z, <1>s0 DEF JobStands, Unsaved
  <2>9. job'.at \in {"copied", "completing"} => output' = "payload"
    BY <1>j, <1>h, <1>i, <1>x, <1>z, <1>s0 DEF JobStands, Unsaved
  <2>10. job'.at \in {"rereading", "marking"} => OnDisk("completed")'
    BY <1>j, <1>h, <1>i, <1>x, <1>z, <1>s0 DEF JobStands, Unsaved
  <2>11. job'.at = "marked" => output' = "marked"
    BY <1>j, <1>h, <1>i, <1>x, <1>z, <1>s0 DEF JobStands, Unsaved
  <2>12. phase' = "uncertain" => store'.revoked /\ job' = NoJob /\ save'.at = "none"
    BY <1>j, <1>h, <1>i, <1>x, <1>z, <1>s0 DEF JobStands, Unsaved
  <2>13. copy' # "none" => state'.phase \in {"DIAGNOSTIC_READY", "STOPPED"}
    BY <1>j, <1>h, <1>i, <1>x, <1>z, <1>s0 DEF JobStands, Unsaved
  <2>14. state'.phase = "DIAGNOSTIC_READY" => journal' # <<>>
    BY <1>j, <1>h, <1>i, <1>x, <1>z, <1>s0 DEF JobStands, Unsaved
  <2> QED BY <2>1, <2>2, <2>3, <2>4, <2>5, <2>6, <2>7, <2>8, <2>9, <2>10, <2>11, <2>12, <2>13, <2>14
             DEF JobStands
<1>a. DeliveryIsEarned'
  BY <1>j, <1>h, <1>i, <1>x, <1>z, <1>s0, <1>y, <1>u
     DEF TypeOK, DeliveryIsEarned, DeliveryTypeOK, JobStands, SavesStand, Waits, WhatIsSaved,
         Recorded, Unsaved, Commits, ModesStand, DestinationHolds, Inspected, OutputHolds
<1> QED BY <1>f, <1>t, <1>u, <1>d, <1>b, <1>s, <1>g, <1>m, <1>k, <1>n, <1>p, <1>e, <1>y, <1>a

(* The paper is on disk. *)
LEMMA JobSavedStands ==
  ASSUME Inv, JobSaved
  PROVE  Inv'
<1> USE DEF Inv, DeliveryStands, SameOnDisk, Owned, SameQueues
<1>j. SameOnDisk
  BY JournalStays
     DEF JobSaved, Checks, QualificationIdle, DestinationHolds, JobTo, OwnerStays, CoreStays,
         PaperStays, Ends, Saved, stages, disk, deliveryVars
<1>h. SameQueues
  BY
     DEF Op, Turn, Waits, Tracked, StageUnderWay, JobSaved, Checks, QualificationIdle,
         DestinationHolds, JobTo, OwnerStays, CoreStays, PaperStays, Ends, Saved, stages, disk,
         deliveryVars
<1>i. StageUnderWay => ops # <<>> /\ Tracked # {} /\ ~Idle
  BY UnderWay
<1>w. TypeOK /\ DeliveryTypeOK
  BY DEF DeliveryIsEarned
<1>x. /\ job.at \in {"saving", "completing"} /\ save.at = "ok" /\ save.for = "delivery" /\
           save' = NoSave
      /\ job' = [job EXCEPT !.at = IF job.at = "saving" THEN "reading" ELSE "rereading"]
      /\ UNCHANGED <<mode, permitted, checkpoint, controls, stopping, qualifying, core, ops, actor,
           author, space, custody, state, journal, store, faults>> /\ UNCHANGED <<phase, accepted,
           qualified, consumed, halted, copy, output, tampered>>
  BY DEF JobSaved, Saved, JobTo, OwnerStays, PaperStays, stages
<1>z. /\ job # NoJob /\ job' # NoJob /\ job' \in [kind : Kinds, head : Nat, at : {"reading",
           "rereading"}] /\ job'.kind = job.kind
      /\ (job'.at = "rereading" <=> job.at = "completing") /\ state = save.next /\
            state.revision = Len(journal)
      /\ (job'.kind = "export" =>
            IF job'.at = "reading" THEN OnDisk("reserved") ELSE OnDisk("completed"))
      /\ (job'.at = "rereading" => job'.kind = "export" /\ OnDisk("reserved")) /\ save.at # "none"
  <2>1. job # NoJob /\ job' # NoJob /\ job'.kind = job.kind /\
          (job'.at = "rereading" <=> job.at = "completing")
        /\ job' \in [kind : Kinds, head : Nat, at : {"reading", "rereading"}]
    BY <1>w, <1>x DEF DeliveryTypeOK, NoJob
  <2>2. state = save.next /\ journal # <<>> /\ Last = save.type /\ state.revision = Len(journal)
    BY <1>x DEF SavesStand
  <2>3. <<job.kind, job.at, save.type>> \in Recorded
    BY <1>x, WhatTheySave
  <2>4. OnDisk(save.type)
    BY <1>w, <2>2 DEF OnDisk, Last, TypeOK
  <2>5. job.at = "completing" => OnDisk("reserved")
    BY DEF JobStands
  <2> QED BY <1>x, <2>1, <2>2, <2>3, <2>4, <2>5 DEF Recorded
<1>f. ResumedOnce' /\ QueueStands'
  BY Frames, <1>x, <1>z
     DEF JobSaved, Checks, QualificationIdle, DestinationHolds, JobTo, OwnerStays, CoreStays,
         PaperStays, Ends, Saved, stages, disk, deliveryVars
<1>t. TypeOK'
  <2>save. save' \in Commits \cup {NoSave}
    BY <1>w, <1>x, <1>z, ContinuityAssumption
       DEF NoSave, TypeOK, Commits, States, Phases, Types, Papers, Terminal, Resumable, Cores
  <2> QED BY <1>w, <1>x, <1>z, <2>save DEF TypeOK
<1>u. DeliveryTypeOK'
  BY <1>w, <1>x, <1>z DEF NoSave, NoJob, DeliveryTypeOK, Kinds
<1>d. PausedIsDrained'
  BY <1>j, <1>h, <1>i, <1>x, <1>z DEF NoSave, PausedIsDrained
<1>b. BudgetKept'
  BY <1>j, <1>h, <1>i, <1>x, <1>z, ContinuityAssumption
     DEF NoSave, BudgetKept, TypeOK, CountsStand, InStep, SavesStand, ModesStand, Commits, States
<1>s. SavesStand'
  <2>1. \A who \in {"op", "control", "stop", "delivery"} : Waits(who)' <=> save'.at # "none" /\
          save'.for = who
    BY <1>j, <1>h, <1>i, <1>x, <1>z
       DEF NoSave, SavesStand, Waits, WhatIsSaved, Begun, Concluded, Recorded
  <2>2. save'.at # "none" => WhatIsSaved'
    BY <1>j, <1>h, <1>i, <1>x, <1>z
       DEF NoSave, SavesStand, Waits, WhatIsSaved, Begun, Concluded, Recorded
  <2>3. save'.at # "none" => save'.epoch <= core'.epoch /\ (save'.epoch = core'.epoch /\
          save'.for \in {"op", "delivery"} => mode' = "active")
    BY <1>j, <1>h, <1>i, <1>x, <1>z
       DEF NoSave, SavesStand, Waits, WhatIsSaved, Begun, Concluded, Recorded
  <2>4. save'.at \in {"written", "ok"} => journal' # <<>> /\ Len(journal') = save'.next.revision /\
          Last' = save'.type
    BY <1>j, <1>h, <1>i, <1>x, <1>z
       DEF NoSave, SavesStand, Waits, WhatIsSaved, Begun, Concluded, Recorded
  <2>5. save'.at = "ok" => state' = save'.next
    BY <1>j, <1>h, <1>i, <1>x, <1>z
       DEF NoSave, SavesStand, Waits, WhatIsSaved, Begun, Concluded, Recorded
  <2>6. save'.at \notin {"none", "ok"} =>
            /\ save'.next.revision = state'.revision + 1
            /\ save'.next.attempts = state'.attempts + (IF save'.type = "attempt" THEN 1 ELSE 0)
    BY <1>j, <1>h, <1>i, <1>x, <1>z
       DEF NoSave, SavesStand, Waits, WhatIsSaved, Begun, Concluded, Recorded
  <2> QED BY <2>1, <2>2, <2>3, <2>4, <2>5, <2>6 DEF SavesStand
<1>g. StagesStand'
  BY <1>j, <1>h, <1>i, <1>x, <1>z, <1>f
     DEF NoSave, TypeOK, StagesStand, StageUnderWay, SavesStand, Waits, WhatIsSaved, Begun,
         Concluded, ModesStand, JobStands, AtRest, Commits, States, Stages, ControlsStand
<1>m. ModesStand'
  BY <1>j, <1>h, <1>i, <1>x, <1>z DEF NoSave, ModesStand, AtRest, Resumable
<1>k1. TurnsStand'
  BY <1>j, <1>h, <1>i, <1>x, <1>z, TurnsKept DEF NoSave, JobSaved, ControlsStand
<1>k. ControlsStand'
  BY <1>j, <1>h, <1>i, <1>x, <1>z, <1>k1 DEF NoSave, ControlsStand
<1>n. CountsStand'
  BY <1>j, <1>h, <1>i, <1>x, <1>z, ContinuityAssumption
     DEF NoSave, CountsStand, InStep, Unsaved, Terminal, Resumable
<1>p. PausesStand'
  BY <1>j, <1>h, <1>i, <1>x, <1>z DEF NoSave, PausesStand, Unsaved, Resumable
<1>e. EndStands'
  BY <1>j, <1>h, <1>i, <1>x, <1>z DEF NoSave, EndStands, Terminal
<1>y. JobStands'
  <2>1. Unsaved' /\ save'.type = "accepted" => ~OnDisk("accepted")' /\ ~OnDisk("finalized")'
    BY <1>j, <1>h, <1>i, <1>x, <1>z DEF NoSave, JobStands, Unsaved
  <2>2. Unsaved' /\ save'.type = "finalized" => ~OnDisk("finalized")'
    BY <1>j, <1>h, <1>i, <1>x, <1>z DEF NoSave, JobStands, Unsaved
  <2>3. Unsaved' /\ save'.type = "reserved" => journal' # <<>> /\ Last' = "finalized"
    BY <1>j, <1>h, <1>i, <1>x, <1>z DEF NoSave, JobStands, Unsaved
  <2>4. Unsaved' /\ save'.type = "completed" => OnDisk("reserved")' /\ ~OnDisk("completed")'
    BY <1>j, <1>h, <1>i, <1>x, <1>z DEF NoSave, JobStands, Unsaved
  <2>5. phase' = "none" => output' = "absent" /\ copy' = "none" /\ ~OnDisk("reserved")' /\
          ~OnDisk("completed")'
    BY <1>j, <1>h, <1>i, <1>x, <1>z DEF NoSave, JobStands, Unsaved
  <2>6. job'.at \notin {"none", "asked"} =>
            IF job'.kind = "export" THEN phase' = "reserved" /\ consumed' ELSE phase' = "none"
    BY <1>j, <1>h, <1>i, <1>x, <1>z DEF NoSave, JobStands, Unsaved
  <2>7. job'.at \in {"copying", "copied", "completing", "rereading", "marking", "marked"} =>
            job'.kind = "export" /\ OnDisk("reserved")'
    BY <1>j, <1>h, <1>i, <1>x, <1>z DEF NoSave, JobStands, Unsaved
  <2>8. job'.kind = "export" /\ job'.at = "reading" => OnDisk("reserved")'
    BY <1>j, <1>h, <1>i, <1>x, <1>z DEF NoSave, JobStands, Unsaved
  <2>9. job'.at \in {"copied", "completing"} => output' = "payload"
    BY <1>j, <1>h, <1>i, <1>x, <1>z DEF NoSave, JobStands, Unsaved
  <2>10. job'.at \in {"rereading", "marking"} => OnDisk("completed")'
    BY <1>j, <1>h, <1>i, <1>x, <1>z DEF NoSave, JobStands, Unsaved
  <2>11. job'.at = "marked" => output' = "marked"
    BY <1>j, <1>h, <1>i, <1>x, <1>z DEF NoSave, JobStands, Unsaved
  <2>12. phase' = "uncertain" => store'.revoked /\ job' = NoJob /\ save'.at = "none"
    BY <1>j, <1>h, <1>i, <1>x, <1>z DEF NoSave, JobStands, Unsaved
  <2>13. copy' # "none" => state'.phase \in {"DIAGNOSTIC_READY", "STOPPED"}
    BY <1>j, <1>h, <1>i, <1>x, <1>z DEF NoSave, JobStands, Unsaved
  <2>14. state'.phase = "DIAGNOSTIC_READY" => journal' # <<>>
    BY <1>j, <1>h, <1>i, <1>x, <1>z DEF NoSave, JobStands, Unsaved
  <2> QED BY <2>1, <2>2, <2>3, <2>4, <2>5, <2>6, <2>7, <2>8, <2>9, <2>10, <2>11, <2>12, <2>13, <2>14
             DEF JobStands
<1>a. DeliveryIsEarned'
  BY <1>j, <1>h, <1>i, <1>x, <1>z, <1>y, <1>u
     DEF NoSave, TypeOK, DeliveryIsEarned, DeliveryTypeOK, JobStands, SavesStand, Waits,
         WhatIsSaved, Recorded, Unsaved, Commits, ModesStand, DestinationHolds, Inspected,
         OutputHolds
<1> QED BY <1>f, <1>t, <1>u, <1>d, <1>b, <1>s, <1>g, <1>m, <1>k, <1>n, <1>p, <1>e, <1>y, <1>a

(* An acceptance or a qualification ends with its paper on disk. *)
LEMMA JobFinalizesStands ==
  ASSUME Inv, JobFinalizes
  PROVE  Inv'
<1> USE DEF Inv, DeliveryStands, SameOnDisk, deliveryVars, Owned, SameQueues
<1>j. SameOnDisk
  BY JournalStays
     DEF JobFinalizes, Checks, QualificationIdle, DestinationHolds, JobTo, OwnerStays, CoreStays,
         PaperStays, Ends, stages, disk
<1>h. SameQueues
  BY
     DEF Op, Turn, Waits, Tracked, StageUnderWay, JobFinalizes, Checks, QualificationIdle,
         DestinationHolds, JobTo, OwnerStays, CoreStays, PaperStays, Ends, stages, disk
<1>b0. qualifying' \in BOOLEAN
  BY
     DEF TypeOK, JobFinalizes, Checks, QualificationIdle, DestinationHolds, JobTo, OwnerStays,
         CoreStays, PaperStays, Ends, stages, disk
<1>b1. accepted' \in BOOLEAN
  BY
     DEF DeliveryIsEarned, DeliveryTypeOK, JobFinalizes, Checks, QualificationIdle,
         DestinationHolds, JobTo, OwnerStays, CoreStays, PaperStays, Ends, stages, disk
<1>i. StageUnderWay => ops # <<>> /\ Tracked # {} /\ ~Idle
  BY UnderWay
<1>w. TypeOK /\ DeliveryTypeOK
  BY DEF DeliveryIsEarned
<1>f. PausedIsDrained' /\ BudgetKept' /\ ResumedOnce' /\ QueueStands' /\ StagesStand' /\
        CountsStand' /\ PausesStand' /\ EndStands'
  BY Frames
     DEF JobFinalizes, Checks, QualificationIdle, DestinationHolds, JobTo, OwnerStays, CoreStays,
         PaperStays, Ends, stages, disk
<1>t. TypeOK'
  <2> QED BY <1>w, <1>b0
             DEF JobFinalizes, JobTo, OwnerStays, CoreStays, PaperStays, Ends, stages, disk, TypeOK
<1>u. DeliveryTypeOK'
  BY <1>w, <1>b1
     DEF JobFinalizes, JobTo, OwnerStays, CoreStays, PaperStays, Ends, stages, disk, NoJob,
         DeliveryTypeOK, Kinds
<1>s. SavesStand'
  BY <1>j, <1>h, <1>i
     DEF JobFinalizes, Checks, QualificationIdle, DestinationHolds, JobTo, OwnerStays, CoreStays,
         PaperStays, Ends, stages, disk, NoJob, SavesStand, Waits, WhatIsSaved, Begun, Concluded,
         Recorded
<1>m. ModesStand'
  BY <1>j, <1>h, <1>i
     DEF JobFinalizes, Checks, QualificationIdle, DestinationHolds, JobTo, OwnerStays, CoreStays,
         PaperStays, Ends, stages, disk, NoJob, ModesStand, AtRest, Resumable
<1>k1. TurnsStand'
  BY <1>j, <1>h, <1>i, TurnsKept
     DEF JobFinalizes, Checks, QualificationIdle, DestinationHolds, JobTo, OwnerStays, CoreStays,
         PaperStays, Ends, stages, disk, ControlsStand
<1>k. ControlsStand'
  BY <1>j, <1>h, <1>i, <1>k1
     DEF JobFinalizes, Checks, QualificationIdle, DestinationHolds, JobTo, OwnerStays, CoreStays,
         PaperStays, Ends, stages, disk, NoJob, ControlsStand
<1>y. JobStands'
  BY <1>j, <1>h, <1>i
     DEF JobFinalizes, Checks, QualificationIdle, DestinationHolds, JobTo, OwnerStays, CoreStays,
         PaperStays, Ends, stages, disk, NoJob, JobStands, Unsaved
<1>a. DeliveryIsEarned'
  BY <1>j, <1>h, <1>i, <1>y, <1>u
     DEF JobFinalizes, Checks, QualificationIdle, DestinationHolds, JobTo, OwnerStays, CoreStays,
         PaperStays, Ends, stages, disk, Heard, Live, Alive, Pending, Idle, NoSave, NoJob, Terminal,
         Resumable, Tracked, TypeOK, DeliveryIsEarned, DeliveryTypeOK, JobStands, SavesStand, Waits,
         WhatIsSaved, Recorded, Unsaved, Commits, ModesStand, Inspected, OutputHolds
<1> QED BY <1>f, <1>t, <1>u, <1>s, <1>m, <1>k, <1>y, <1>a

(* The copy is claimed with the reservation on disk. *)
LEMMA JobPreparesStands ==
  ASSUME Inv, JobPrepares
  PROVE  Inv'
<1> USE DEF Inv, DeliveryStands, SameOnDisk, deliveryVars, Owned, SameQueues
<1>j. SameOnDisk
  BY JournalStays
     DEF JobPrepares, Checks, QualificationIdle, DestinationHolds, JobTo, OwnerStays, CoreStays,
         PaperStays, Ends, ClaimsTheDestination, stages, disk
<1>h. SameQueues
  BY
     DEF Op, Turn, Waits, Tracked, StageUnderWay, JobPrepares, Checks, QualificationIdle,
         DestinationHolds, JobTo, OwnerStays, CoreStays, PaperStays, Ends, ClaimsTheDestination,
         stages, disk
<1>i. StageUnderWay => ops # <<>> /\ Tracked # {} /\ ~Idle
  BY UnderWay
<1>w. TypeOK /\ DeliveryTypeOK
  BY DEF DeliveryIsEarned
<1>f. TypeOK' /\ PausedIsDrained' /\ BudgetKept' /\ ResumedOnce' /\ QueueStands' /\ CountsStand' /\
        PausesStand' /\ EndStands'
  BY Frames
     DEF JobPrepares, Checks, QualificationIdle, DestinationHolds, JobTo, OwnerStays, CoreStays,
         PaperStays, Ends, ClaimsTheDestination, stages, disk
<1>u. DeliveryTypeOK'
  BY <1>w
     DEF JobPrepares, JobTo, OwnerStays, CoreStays, PaperStays, Ends, ClaimsTheDestination, stages,
         disk, NoJob, DeliveryTypeOK, Kinds
<1>s. SavesStand'
  BY <1>j, <1>h, <1>i
     DEF JobPrepares, Checks, QualificationIdle, DestinationHolds, JobTo, OwnerStays, CoreStays,
         PaperStays, Ends, ClaimsTheDestination, stages, disk, NoJob, SavesStand, Waits,
         WhatIsSaved, Begun, Concluded, Recorded
<1>g. StagesStand'
  BY <1>j, <1>h, <1>i, <1>f
     DEF JobPrepares, Checks, QualificationIdle, DestinationHolds, JobTo, OwnerStays, CoreStays,
         PaperStays, Ends, ClaimsTheDestination, stages, disk, NoJob, StagesStand, StageUnderWay,
         Resumable
<1>m. ModesStand'
  BY <1>j, <1>h, <1>i
     DEF JobPrepares, Checks, QualificationIdle, DestinationHolds, JobTo, OwnerStays, CoreStays,
         PaperStays, Ends, ClaimsTheDestination, stages, disk, NoJob, ModesStand, AtRest, Resumable
<1>k1. TurnsStand'
  BY <1>j, <1>h, <1>i, TurnsKept
     DEF JobPrepares, Checks, QualificationIdle, DestinationHolds, JobTo, OwnerStays, CoreStays,
         PaperStays, Ends, ClaimsTheDestination, stages, disk, ControlsStand
<1>k. ControlsStand'
  BY <1>j, <1>h, <1>i, <1>k1
     DEF JobPrepares, Checks, QualificationIdle, DestinationHolds, JobTo, OwnerStays, CoreStays,
         PaperStays, Ends, ClaimsTheDestination, stages, disk, NoJob, ControlsStand
<1>y. JobStands'
  BY <1>j, <1>h, <1>i
     DEF JobPrepares, Checks, QualificationIdle, DestinationHolds, JobTo, OwnerStays, CoreStays,
         PaperStays, Ends, ClaimsTheDestination, stages, disk, NoJob, JobStands, Unsaved
<1>a. DeliveryIsEarned'
  BY <1>j, <1>h, <1>i, <1>y, <1>u
     DEF JobPrepares, Checks, QualificationIdle, DestinationHolds, JobTo, OwnerStays, CoreStays,
         PaperStays, Ends, ClaimsTheDestination, stages, disk, Heard, Live, Alive, Pending, Idle,
         NoSave, NoJob, Terminal, Resumable, Tracked, TypeOK, DeliveryIsEarned, DeliveryTypeOK,
         JobStands, SavesStand, Waits, WhatIsSaved, Recorded, Unsaved, Commits, ModesStand,
         Inspected, OutputHolds
<1> QED BY <1>f, <1>u, <1>s, <1>g, <1>m, <1>k, <1>y, <1>a

(* The writer writes in order, and the marker after the completion. *)
LEMMA WriterWritesStands ==
  ASSUME Inv, WriterWrites
  PROVE  Inv'
<1> USE DEF Inv, DeliveryStands, SameOnDisk, Owned, SameQueues
<1>j. SameOnDisk
  BY JournalStays
     DEF WriterWrites, Checks, QualificationIdle, DestinationHolds, JobTo, OwnerStays, CoreStays,
         PaperStays, Ends, Guarded, Copies, LooksItOver, Marks, Follows, stages, disk, deliveryVars
<1>h. SameQueues
  BY
     DEF Op, Turn, Waits, Tracked, StageUnderWay, WriterWrites, Checks, QualificationIdle,
         DestinationHolds, JobTo, OwnerStays, CoreStays, PaperStays, Ends, Guarded, Copies,
         LooksItOver, Marks, Follows, stages, disk, deliveryVars
<1>i. StageUnderWay => ops # <<>> /\ Tracked # {} /\ ~Idle
  BY UnderWay
<1>w. TypeOK /\ DeliveryTypeOK
  BY DEF DeliveryIsEarned
<1>x. /\ job.at \in {"copying", "marking"} /\ copy = "live" /\ Alive
      /\ \/ output = "absent" /\ job.at = "copying" /\ output' = "partial" /\
              job' = [job EXCEPT !.at = "copying"]
         \/ output = "partial" /\ job.at = "copying" /\ output' = "payload" /\
              job' = [job EXCEPT !.at = "copying"]
         \/ output = "payload" /\ job.at = "copying" /\ output' = "payload" /\
              job' = [job EXCEPT !.at = "copied"]
         \/ output = "payload" /\ job.at = "marking" /\ output' = "torn" /\
              job' = [job EXCEPT !.at = "marking"]
         \/ output = "torn" /\ job.at = "marking" /\ output' = "marked" /\
              job' = [job EXCEPT !.at = "marked"]
      /\ UNCHANGED <<mode, permitted, checkpoint, controls, stopping, qualifying, core, ops, actor,
           author, space, custody, state, save, journal, store, faults>> /\ UNCHANGED <<phase,
           accepted, qualified, consumed, halted, copy, tampered>>
  BY
     DEF WriterWrites, Guarded, Checks, QualificationIdle, Copies, LooksItOver, Marks, Follows,
         JobTo, OwnerStays, CoreStays, PaperStays, stages, disk
<1>z. /\ job # NoJob /\ job' # NoJob /\ job' \in [kind : Kinds, head : Nat, at : {"copying",
           "copied", "marking", "marked"}]
      /\ job'.kind = job.kind /\ job.kind = "export"
  BY <1>w, <1>x DEF DeliveryTypeOK, NoJob, JobStands
<1>f. TypeOK' /\ PausedIsDrained' /\ BudgetKept' /\ ResumedOnce' /\ QueueStands' /\ StagesStand' /\
        CountsStand' /\ PausesStand' /\ EndStands'
  BY Frames, <1>x, <1>z
     DEF WriterWrites, Checks, QualificationIdle, DestinationHolds, JobTo, OwnerStays, CoreStays,
         PaperStays, Ends, Guarded, Copies, LooksItOver, Marks, Follows, stages, disk, deliveryVars
<1>u. DeliveryTypeOK'
  BY <1>w, <1>x, <1>z DEF NoJob, DeliveryTypeOK, Kinds
<1>s. SavesStand'
  <2>1. \A who \in {"op", "control", "stop", "delivery"} : Waits(who)' <=> save'.at # "none" /\
          save'.for = who
    BY <1>j, <1>h, <1>i, <1>x, <1>z DEF SavesStand, Waits, WhatIsSaved, Begun, Concluded, Recorded
  <2>2. save'.at # "none" => WhatIsSaved'
    BY <1>j, <1>h, <1>i, <1>x, <1>z DEF SavesStand, Waits, WhatIsSaved, Begun, Concluded, Recorded
  <2>3. save'.at # "none" => save'.epoch <= core'.epoch /\ (save'.epoch = core'.epoch /\
          save'.for \in {"op", "delivery"} => mode' = "active")
    BY <1>j, <1>h, <1>i, <1>x, <1>z DEF SavesStand, Waits, WhatIsSaved, Begun, Concluded, Recorded
  <2>4. save'.at \in {"written", "ok"} => journal' # <<>> /\ Len(journal') = save'.next.revision /\
          Last' = save'.type
    BY <1>j, <1>h, <1>i, <1>x, <1>z DEF SavesStand, Waits, WhatIsSaved, Begun, Concluded, Recorded
  <2>5. save'.at = "ok" => state' = save'.next
    BY <1>j, <1>h, <1>i, <1>x, <1>z DEF SavesStand, Waits, WhatIsSaved, Begun, Concluded, Recorded
  <2>6. save'.at \notin {"none", "ok"} =>
            /\ save'.next.revision = state'.revision + 1
            /\ save'.next.attempts = state'.attempts + (IF save'.type = "attempt" THEN 1 ELSE 0)
    BY <1>j, <1>h, <1>i, <1>x, <1>z DEF SavesStand, Waits, WhatIsSaved, Begun, Concluded, Recorded
  <2> QED BY <2>1, <2>2, <2>3, <2>4, <2>5, <2>6 DEF SavesStand
<1>m. ModesStand'
  BY <1>j, <1>h, <1>i, <1>x, <1>z DEF ModesStand, AtRest, Resumable
<1>k1. TurnsStand'
  BY <1>j, <1>h, <1>i, <1>x, <1>z, TurnsKept DEF WriterWrites, ControlsStand
<1>k. ControlsStand'
  BY <1>j, <1>h, <1>i, <1>x, <1>z, <1>k1 DEF ControlsStand
<1>y. JobStands'
  <2>1. Unsaved' /\ save'.type = "accepted" => ~OnDisk("accepted")' /\ ~OnDisk("finalized")'
    BY <1>j, <1>h, <1>i, <1>x, <1>z DEF JobStands, Unsaved
  <2>2. Unsaved' /\ save'.type = "finalized" => ~OnDisk("finalized")'
    BY <1>j, <1>h, <1>i, <1>x, <1>z DEF JobStands, Unsaved
  <2>3. Unsaved' /\ save'.type = "reserved" => journal' # <<>> /\ Last' = "finalized"
    BY <1>j, <1>h, <1>i, <1>x, <1>z DEF JobStands, Unsaved
  <2>4. Unsaved' /\ save'.type = "completed" => OnDisk("reserved")' /\ ~OnDisk("completed")'
    BY <1>j, <1>h, <1>i, <1>x, <1>z DEF JobStands, Unsaved
  <2>5. phase' = "none" => output' = "absent" /\ copy' = "none" /\ ~OnDisk("reserved")' /\
          ~OnDisk("completed")'
    BY <1>j, <1>h, <1>i, <1>x, <1>z DEF JobStands, Unsaved
  <2>6. job'.at \notin {"none", "asked"} =>
            IF job'.kind = "export" THEN phase' = "reserved" /\ consumed' ELSE phase' = "none"
    BY <1>j, <1>h, <1>i, <1>x, <1>z DEF JobStands, Unsaved
  <2>7. job'.at \in {"copying", "copied", "completing", "rereading", "marking", "marked"} =>
            job'.kind = "export" /\ OnDisk("reserved")'
    BY <1>j, <1>h, <1>i, <1>x, <1>z DEF JobStands, Unsaved
  <2>8. job'.kind = "export" /\ job'.at = "reading" => OnDisk("reserved")'
    BY <1>j, <1>h, <1>i, <1>x, <1>z DEF JobStands, Unsaved
  <2>9. job'.at \in {"copied", "completing"} => output' = "payload"
    BY <1>j, <1>h, <1>i, <1>x, <1>z DEF JobStands, Unsaved
  <2>10. job'.at \in {"rereading", "marking"} => OnDisk("completed")'
    BY <1>j, <1>h, <1>i, <1>x, <1>z DEF JobStands, Unsaved
  <2>11. job'.at = "marked" => output' = "marked"
    BY <1>j, <1>h, <1>i, <1>x, <1>z DEF JobStands, Unsaved
  <2>12. phase' = "uncertain" => store'.revoked /\ job' = NoJob /\ save'.at = "none"
    BY <1>j, <1>h, <1>i, <1>x, <1>z DEF JobStands, Unsaved
  <2>13. copy' # "none" => state'.phase \in {"DIAGNOSTIC_READY", "STOPPED"}
    BY <1>j, <1>h, <1>i, <1>x, <1>z DEF JobStands, Unsaved
  <2>14. state'.phase = "DIAGNOSTIC_READY" => journal' # <<>>
    BY <1>j, <1>h, <1>i, <1>x, <1>z DEF JobStands, Unsaved
  <2> QED BY <2>1, <2>2, <2>3, <2>4, <2>5, <2>6, <2>7, <2>8, <2>9, <2>10, <2>11, <2>12, <2>13, <2>14
             DEF JobStands
<1>a. DeliveryIsEarned'
  BY <1>j, <1>h, <1>i, <1>x, <1>z, <1>y, <1>u
     DEF TypeOK, DeliveryIsEarned, DeliveryTypeOK, JobStands, SavesStand, Waits, WhatIsSaved,
         Recorded, Unsaved, Commits, ModesStand, DestinationHolds, Inspected, OutputHolds
<1> QED BY <1>f, <1>u, <1>s, <1>m, <1>k, <1>y, <1>a

(* The marker is begun with the completion on disk. *)
LEMMA JobMarksStands ==
  ASSUME Inv, JobMarks
  PROVE  Inv'
<1> USE DEF Inv, DeliveryStands, SameOnDisk, deliveryVars, Owned, SameQueues
<1>j. SameOnDisk
  BY JournalStays
     DEF JobMarks, Checks, QualificationIdle, DestinationHolds, JobTo, OwnerStays, CoreStays,
         PaperStays, Ends, stages, disk
<1>h. SameQueues
  BY
     DEF Op, Turn, Waits, Tracked, StageUnderWay, JobMarks, Checks, QualificationIdle,
         DestinationHolds, JobTo, OwnerStays, CoreStays, PaperStays, Ends, stages, disk
<1>i. StageUnderWay => ops # <<>> /\ Tracked # {} /\ ~Idle
  BY UnderWay
<1>w. TypeOK /\ DeliveryTypeOK
  BY DEF DeliveryIsEarned
<1>f. TypeOK' /\ PausedIsDrained' /\ BudgetKept' /\ ResumedOnce' /\ QueueStands' /\ StagesStand' /\
        CountsStand' /\ PausesStand' /\ EndStands'
  BY Frames
     DEF JobMarks, Checks, QualificationIdle, DestinationHolds, JobTo, OwnerStays, CoreStays,
         PaperStays, Ends, stages, disk
<1>u. DeliveryTypeOK'
  BY <1>w
     DEF JobMarks, JobTo, OwnerStays, CoreStays, PaperStays, Ends, stages, disk, NoJob,
         DeliveryTypeOK, Kinds
<1>s. SavesStand'
  BY <1>j, <1>h, <1>i
     DEF JobMarks, Checks, QualificationIdle, DestinationHolds, JobTo, OwnerStays, CoreStays,
         PaperStays, Ends, stages, disk, NoJob, SavesStand, Waits, WhatIsSaved, Begun, Concluded,
         Recorded
<1>m. ModesStand'
  BY <1>j, <1>h, <1>i
     DEF JobMarks, Checks, QualificationIdle, DestinationHolds, JobTo, OwnerStays, CoreStays,
         PaperStays, Ends, stages, disk, NoJob, ModesStand, AtRest, Resumable
<1>k1. TurnsStand'
  BY <1>j, <1>h, <1>i, TurnsKept
     DEF JobMarks, Checks, QualificationIdle, DestinationHolds, JobTo, OwnerStays, CoreStays,
         PaperStays, Ends, stages, disk, ControlsStand
<1>k. ControlsStand'
  BY <1>j, <1>h, <1>i, <1>k1
     DEF JobMarks, Checks, QualificationIdle, DestinationHolds, JobTo, OwnerStays, CoreStays,
         PaperStays, Ends, stages, disk, NoJob, ControlsStand
<1>y. JobStands'
  BY <1>j, <1>h, <1>i
     DEF JobMarks, Checks, QualificationIdle, DestinationHolds, JobTo, OwnerStays, CoreStays,
         PaperStays, Ends, stages, disk, NoJob, JobStands, Unsaved
<1>a. DeliveryIsEarned'
  BY <1>j, <1>h, <1>i, <1>y, <1>u
     DEF JobMarks, Checks, QualificationIdle, DestinationHolds, JobTo, OwnerStays, CoreStays,
         PaperStays, Ends, stages, disk, Heard, Live, Alive, Pending, Idle, NoSave, NoJob, Terminal,
         Resumable, Tracked, TypeOK, DeliveryIsEarned, DeliveryTypeOK, JobStands, SavesStand, Waits,
         WhatIsSaved, Recorded, Unsaved, Commits, ModesStand, Inspected, OutputHolds
<1> QED BY <1>f, <1>u, <1>s, <1>m, <1>k, <1>y, <1>a

(* A delivery is called completed with its marker in place. *)
LEMMA JobCompletesStands ==
  ASSUME Inv, JobCompletes
  PROVE  Inv'
<1> USE DEF Inv, DeliveryStands, SameOnDisk, deliveryVars, Owned, SameQueues
<1>j. SameOnDisk
  BY JournalStays
     DEF JobCompletes, Checks, QualificationIdle, DestinationHolds, JobTo, OwnerStays, CoreStays,
         PaperStays, Ends, stages, disk
<1>h. SameQueues
  BY
     DEF Op, Turn, Waits, Tracked, StageUnderWay, JobCompletes, Checks, QualificationIdle,
         DestinationHolds, JobTo, OwnerStays, CoreStays, PaperStays, Ends, stages, disk
<1>b0. qualifying' \in BOOLEAN
  BY
     DEF TypeOK, JobCompletes, Checks, QualificationIdle, DestinationHolds, JobTo, OwnerStays,
         CoreStays, PaperStays, Ends, stages, disk
<1>i. StageUnderWay => ops # <<>> /\ Tracked # {} /\ ~Idle
  BY UnderWay
<1>w. TypeOK /\ DeliveryTypeOK
  BY DEF DeliveryIsEarned
<1>f. PausedIsDrained' /\ BudgetKept' /\ ResumedOnce' /\ QueueStands' /\ StagesStand' /\
        CountsStand' /\ PausesStand' /\ EndStands'
  BY Frames
     DEF JobCompletes, Checks, QualificationIdle, DestinationHolds, JobTo, OwnerStays, CoreStays,
         PaperStays, Ends, stages, disk
<1>t. TypeOK'
  <2> QED BY <1>w, <1>b0
             DEF JobCompletes, JobTo, OwnerStays, CoreStays, PaperStays, Ends, stages, disk, TypeOK
<1>u. DeliveryTypeOK'
  BY <1>w
     DEF JobCompletes, JobTo, OwnerStays, CoreStays, PaperStays, Ends, stages, disk, NoJob,
         DeliveryTypeOK, Kinds
<1>s. SavesStand'
  BY <1>j, <1>h, <1>i
     DEF JobCompletes, Checks, QualificationIdle, DestinationHolds, JobTo, OwnerStays, CoreStays,
         PaperStays, Ends, stages, disk, NoJob, SavesStand, Waits, WhatIsSaved, Begun, Concluded,
         Recorded
<1>m. ModesStand'
  BY <1>j, <1>h, <1>i
     DEF JobCompletes, Checks, QualificationIdle, DestinationHolds, JobTo, OwnerStays, CoreStays,
         PaperStays, Ends, stages, disk, NoJob, ModesStand, AtRest, Resumable
<1>k1. TurnsStand'
  BY <1>j, <1>h, <1>i, TurnsKept
     DEF JobCompletes, Checks, QualificationIdle, DestinationHolds, JobTo, OwnerStays, CoreStays,
         PaperStays, Ends, stages, disk, ControlsStand
<1>k. ControlsStand'
  BY <1>j, <1>h, <1>i, <1>k1
     DEF JobCompletes, Checks, QualificationIdle, DestinationHolds, JobTo, OwnerStays, CoreStays,
         PaperStays, Ends, stages, disk, NoJob, ControlsStand
<1>y. JobStands'
  BY <1>j, <1>h, <1>i
     DEF JobCompletes, Checks, QualificationIdle, DestinationHolds, JobTo, OwnerStays, CoreStays,
         PaperStays, Ends, stages, disk, NoJob, JobStands, Unsaved
<1>a. DeliveryIsEarned'
  BY <1>j, <1>h, <1>i, <1>y, <1>u
     DEF JobCompletes, Checks, QualificationIdle, DestinationHolds, JobTo, OwnerStays, CoreStays,
         PaperStays, Ends, stages, disk, Heard, Live, Alive, Pending, Idle, NoSave, NoJob, Terminal,
         Resumable, Tracked, TypeOK, DeliveryIsEarned, DeliveryTypeOK, JobStands, SavesStand, Waits,
         WhatIsSaved, Recorded, Unsaved, Commits, ModesStand, Inspected, OutputHolds
<1> QED BY <1>f, <1>t, <1>u, <1>s, <1>m, <1>k, <1>y, <1>a

(* A request that fails leaves the delivery uncertain, and revokes the store, or was never
   attempted. *)
LEMMA JobFailsStands ==
  ASSUME Inv, JobFails
  PROVE  Inv'
<1> USE DEF Inv, DeliveryStands, SameOnDisk, deliveryVars, Owned, SameQueues
<1>j. SameOnDisk
  BY JournalStays
     DEF JobFails, Checks, QualificationIdle, DestinationHolds, JobTo, OwnerStays, CoreStays,
         PaperStays, Ends, JobMayGoOn, Proven, Answered, Saved, Audited, Type, Guarded, Uncertain,
         Attempted, Poisons, PoisonsNot, RevokedSpace, stages, disk
<1>h. SameQueues
  BY
     DEF Op, Turn, Waits, Tracked, StageUnderWay, JobFails, Checks, QualificationIdle,
         DestinationHolds, JobTo, OwnerStays, CoreStays, PaperStays, Ends, JobMayGoOn, Proven,
         Answered, Saved, Audited, Type, Guarded, Uncertain, Attempted, Poisons, PoisonsNot,
         RevokedSpace, stages, disk
<1>b0. qualifying' \in BOOLEAN
  BY
     DEF TypeOK, JobFails, Checks, QualificationIdle, DestinationHolds, JobTo, OwnerStays,
         CoreStays, PaperStays, Ends, JobMayGoOn, Proven, Answered, Saved, Audited, Type, Guarded,
         Uncertain, Attempted, Poisons, PoisonsNot, RevokedSpace, stages, disk
<1>b1. consumed' \in BOOLEAN
  BY
     DEF DeliveryIsEarned, DeliveryTypeOK, JobFails, Checks, QualificationIdle, DestinationHolds,
         JobTo, OwnerStays, CoreStays, PaperStays, Ends, JobMayGoOn, Proven, Answered, Saved,
         Audited, Type, Guarded, Uncertain, Attempted, Poisons, PoisonsNot, RevokedSpace, stages,
         disk
<1>i. StageUnderWay => ops # <<>> /\ Tracked # {} /\ ~Idle
  BY UnderWay
<1>w. TypeOK /\ DeliveryTypeOK
  BY DEF DeliveryIsEarned
<1>ep. /\ core' \in Cores /\ core.epoch \in Nat /\ core'.epoch \in Nat /\
            core'.epoch >= core.epoch /\ core'.closing = core.closing
          /\ (UNCHANGED <<core, space, store, phase, consumed>> \/ (core'.epoch > core.epoch /\
                core'.stopped /\ core'.denied /\ store'.revoked /\ phase' = "uncertain" /\
                consumed'))
  <2>1. core \in Cores
    BY <1>w DEF TypeOK
  <2>2. \/ UNCHANGED <<core, space, store, phase, consumed>>
        \/ Poisons /\ phase' = "uncertain" /\ consumed'
    BY DEF JobFails, PoisonsNot
  <2>3. Poisons => store'.revoked /\ core' = [CutOff(core) EXCEPT !.denied = TRUE]
    BY <1>w DEF TypeOK, Stores, Poisons
  <2>4. ASSUME Poisons
        PROVE  /\ core' \in Cores /\ core'.epoch \in Nat /\ core.epoch \in Nat /\
                    core'.epoch > core.epoch
               /\ core'.stopped /\ core'.denied /\ core'.closing = core.closing
    <3>1. core' = [CutOff(core) EXCEPT !.denied = TRUE]
      BY <2>3, <2>4
    <3> QED BY <2>1, <3>1, CorePoisoned
  <2>5. core.epoch \in Nat
    BY <2>1 DEF Cores
  <2> QED BY <2>1, <2>2, <2>3, <2>4, <2>5
<1>x. /\ job' = NoJob /\ ~qualifying' /\ (save' = save \/ save' = NoSave) /\ phase' \in {phase,
           "uncertain"}
      /\ (copy' # copy => copy = "live" /\ copy' = "revoked")
      /\ store'.poisoned = store.poisoned /\ store'.closed = store.closed
      /\ UNCHANGED <<mode, permitted, checkpoint, controls, stopping, ops, actor, author, custody,
           state, journal>>
      /\ UNCHANGED <<accepted, qualified, halted, output, tampered>>
  BY <1>w DEF JobFails, Ends, OwnerStays, Poisons, PoisonsNot, TypeOK, Stores
<1>q. /\ job # NoJob /\ ops = <<>> /\ mode \in {"active", "stopped"} /\ stopping.at \in {"no",
           "called"}
      /\ ~OnDisk("STOPPED") /\ (controls # <<>> => Turn.at = "queued")
      /\ save'.at = "none" /\ save.at \in {"none", "ok", "failed"}
  <2>1. job # NoJob
    BY DEF JobFails, JobMayGoOn, NoJob
  <2>2. /\ ops = <<>> /\ mode \in {"active", "stopped"} /\ stopping.at \in {"no", "called"}
        /\ ~OnDisk("STOPPED") /\ (controls # <<>> => Turn.at = "queued")
    BY <2>1 DEF ModesStand, ControlsStand
  <2>3. save.at = "none" \/ (save.for = "delivery" /\ job.at \in {"saving", "completing"})
    BY <1>w, <2>2 DEF SavesStand, Waits, TypeOK, Commits, NoSave
  <2>4. save.at # "none" => Answered("delivery")
    BY <2>3 DEF JobFails, JobMayGoOn, Saved, Answered
  <2> QED BY <2>1, <2>2, <2>4 DEF JobFails, NoSave, Answered
<1>f. ResumedOnce'
  BY Frames, <1>x, <1>q
     DEF JobFails, Checks, QualificationIdle, DestinationHolds, JobTo, OwnerStays, CoreStays,
         PaperStays, Ends, JobMayGoOn, Proven, Answered, Saved, Audited, Type, Guarded, Uncertain,
         Attempted, Poisons, PoisonsNot, RevokedSpace, stages, disk
<1>t. TypeOK'
  <2>save. save' \in Commits \cup {NoSave}
    BY <1>w, <1>x, <1>q, ContinuityAssumption
       DEF NoJob, NoSave, TypeOK, Commits, States, Phases, Types, Papers, Terminal, Resumable, Cores
  <2>store. store' \in Stores
    BY <1>w, <1>x, <1>q
       DEF JobFails, JobTo, OwnerStays, CoreStays, PaperStays, Ends, Answered, Saved, Type,
           Uncertain, Attempted, Poisons, PoisonsNot, RevokedSpace, stages, disk, TypeOK, Stores
  <2>core. core' \in Cores
    BY <1>ep
  <2>faults. faults' \in 0 .. MaxFaults
    BY <1>w, <1>x, <1>q, ContinuityAssumption
       DEF JobFails, JobTo, OwnerStays, CoreStays, PaperStays, Ends, Answered, Saved, Type,
           Uncertain, Attempted, Poisons, PoisonsNot, RevokedSpace, stages, disk, TypeOK, Stores
  <2>space. space' \in {"none", "open", "revoked"}
    BY <1>w, <1>x, <1>q DEF JobFails, Poisons, PoisonsNot, RevokedSpace, TypeOK
  <2> QED BY <1>w, <1>b0, <1>x, <1>q, <2>save, <2>store, <2>core, <2>faults, <2>space
             DEF NoJob, TypeOK
<1>u. DeliveryTypeOK'
  BY <1>w, <1>x, <1>q, <1>b1, <1>ep, <1>b1 DEF NoJob, NoSave, DeliveryTypeOK, Kinds, Cores, Stores
<1>d. PausedIsDrained'
  BY <1>j, <1>h, <1>i, <1>ep, <1>x, <1>q DEF NoJob, NoSave, PausedIsDrained
<1>b. BudgetKept'
  BY <1>j, <1>h, <1>i, <1>ep, <1>x, <1>q, ContinuityAssumption
     DEF NoJob, NoSave, BudgetKept, TypeOK, CountsStand, InStep, SavesStand, ModesStand, Commits,
         States, Cores, Stores
<1>s. SavesStand'
  BY <1>j, <1>h, <1>i, <1>ep, <1>x, <1>q
     DEF NoJob, NoSave, SavesStand, Waits, WhatIsSaved, Begun, Concluded, Recorded
<1>g1. QueueStands'
  BY <1>j, <1>h, <1>i, <1>ep, <1>x, <1>q, QueueKept
     DEF NoJob, NoSave, JobFails, StagesStand, TypeOK, Cores
<1>g. StagesStand'
  BY <1>j, <1>h, <1>i, <1>ep, <1>x, <1>q, <1>g1
     DEF NoJob, NoSave, StagesStand, StageUnderWay, Resumable
<1>m. ModesStand'
  BY <1>j, <1>h, <1>i, <1>ep, <1>x, <1>q DEF NoJob, NoSave, ModesStand, AtRest, Resumable
<1>k1. TurnsStand'
  BY <1>j, <1>h, <1>i, <1>ep, <1>x, <1>q, TurnsKept
     DEF NoJob, NoSave, JobFails, ControlsStand, ModesStand, AtRest
<1>k. ControlsStand'
  BY <1>j, <1>h, <1>i, <1>ep, <1>x, <1>q, <1>k1 DEF NoJob, NoSave, ControlsStand
<1>n. CountsStand'
  BY <1>j, <1>h, <1>i, <1>ep, <1>x, <1>q, ContinuityAssumption
     DEF NoJob, NoSave, CountsStand, InStep, Unsaved, Terminal, Resumable
<1>p. PausesStand'
  BY <1>j, <1>h, <1>i, <1>ep, <1>x, <1>q DEF NoJob, NoSave, PausesStand, Unsaved, Resumable
<1>e. EndStands'
  BY <1>j, <1>h, <1>i, <1>ep, <1>x, <1>q DEF NoJob, NoSave, EndStands, Terminal
<1>y. JobStands'
  BY <1>j, <1>h, <1>i, <1>ep, <1>x, <1>q DEF NoJob, NoSave, JobStands, Unsaved
<1>a. DeliveryIsEarned'
  BY <1>j, <1>h, <1>i, <1>ep, <1>x, <1>q, <1>y, <1>u
     DEF NoJob, NoSave, TypeOK, DeliveryIsEarned, DeliveryTypeOK, JobStands, SavesStand, Waits,
         WhatIsSaved, Recorded, Unsaved, Commits, ModesStand, DestinationHolds, Inspected,
         OutputHolds, Cores, Stores
<1> QED BY <1>f, <1>t, <1>u, <1>d, <1>b, <1>s, <1>g, <1>m, <1>k, <1>n, <1>p, <1>e, <1>y, <1>a

(* A stop ends the epoch, revokes the copy and spends the admission. *)
LEMMA StopDeliveryStands ==
  ASSUME Inv, StopDelivery
  PROVE  Inv'
<1> USE DEF Inv, DeliveryStands, SameOnDisk, Owned, SameQueues
<1>j. SameOnDisk
  BY JournalStays DEF StopDelivery, Stop, Fenced, RevokedSpace, disk, deliveryVars
<1>h. SameQueues
  BY
     DEF Op, Turn, Waits, Tracked, StageUnderWay, StopDelivery, Stop, Fenced, RevokedSpace, disk,
         deliveryVars
<1>b1. consumed' \in BOOLEAN /\ halted' \in BOOLEAN
  BY
     DEF DeliveryIsEarned, DeliveryTypeOK, StopDelivery, Stop, Fenced, RevokedSpace, disk,
         deliveryVars
<1>i. StageUnderWay => ops # <<>> /\ Tracked # {} /\ ~Idle
  BY UnderWay
<1>w. TypeOK /\ DeliveryTypeOK
  BY DEF DeliveryIsEarned
<1>ep. /\ core' \in Cores /\ core.epoch \in Nat /\ core'.epoch \in Nat /\ core'.epoch >= core.epoch
          /\ core'.epoch > core.epoch /\ core'.closing = core.closing /\ core'.denied /\
               core'.stopped = core.stopped
  <2>1. core \in Cores /\ core' = Fenced(core)
    BY <1>w DEF TypeOK, StopDelivery, Stop
  <2> QED BY <2>1, CoreFenced
<1>x. /\ stopping.at = "no" /\ ~stopping.failed /\ stopping' \in Stops /\ stopping'.at = "called" /\
           ~stopping'.failed
      /\ mode # "stopped" /\ mode' = "stopped" /\ checkpoint' = NoCheckpoint /\
           space' = RevokedSpace /\ halted' /\ consumed'
      /\ copy' = (IF copy = "live" THEN "revoked" ELSE copy)
      /\ UNCHANGED <<permitted, controls, qualifying, ops, actor, author, custody, state, save,
           journal, store, faults>> /\ UNCHANGED <<phase, accepted, qualified, job, output,
           tampered>>
  <2>1. stopping.at = "no" /\ stopping' = [stopping EXCEPT !.at = "called"] /\ mode # "stopped" /\
          ~stopping.failed
    BY DEF StopDelivery, Stop, ModesStand
  <2>2. stopping' \in Stops /\ stopping'.at = "called" /\ ~stopping'.failed
    BY <1>w, <2>1 DEF TypeOK, Stops
  <2>3. /\ mode' = "stopped" /\ checkpoint' = NoCheckpoint /\ space' = RevokedSpace /\ halted' /\
             consumed'
        /\ copy' = (IF copy = "live" THEN "revoked" ELSE copy)
        /\ UNCHANGED <<permitted, controls, qualifying, ops, actor, author, custody, state, save,
             journal, store, faults>> /\ UNCHANGED <<phase, accepted, qualified, job, output,
             tampered>>
    BY DEF StopDelivery, Stop, disk
  <2> QED BY <2>1, <2>2, <2>3
<1>t. TypeOK'
  <2>core. core' \in Cores
    BY <1>ep
  <2>stopping. stopping' \in Stops
    BY <1>w, <1>x DEF TypeOK, Stops
  <2>checkpoint. checkpoint' \in [id : Nat, head : Nat]
    BY <1>w, <1>x DEF TypeOK, NoCheckpoint
  <2>space. space' \in {"none", "open", "revoked"}
    BY <1>w, <1>x DEF StopDelivery, Stop, RevokedSpace, TypeOK
  <2> QED BY <1>w, <1>x, <2>core, <2>stopping, <2>checkpoint, <2>space DEF TypeOK
<1>u. DeliveryTypeOK'
  BY <1>w, <1>x, <1>b1, <1>ep, <1>b1 DEF NoJob, DeliveryTypeOK, Kinds, Cores, Stops
<1>d. PausedIsDrained'
  BY <1>j, <1>h, <1>i, <1>ep, <1>x DEF PausedIsDrained
<1>b. BudgetKept'
  BY <1>j, <1>h, <1>i, <1>ep, <1>x, ContinuityAssumption DEF BudgetKept
<1>r. ResumedOnce'
  BY <1>j, <1>h, <1>i, <1>ep, <1>x DEF ResumedOnce
<1>s. SavesStand'
  <2>1. \A who \in {"op", "control", "stop", "delivery"} : Waits(who)' <=> save'.at # "none" /\
          save'.for = who
    BY <1>j, <1>h, <1>i, <1>ep, <1>x DEF SavesStand, Waits, WhatIsSaved, Begun, Concluded, Recorded
  <2>2. save'.at # "none" => WhatIsSaved'
    BY <1>j, <1>h, <1>i, <1>ep, <1>x DEF SavesStand, Waits, WhatIsSaved, Begun, Concluded, Recorded
  <2>3. save'.at # "none" => save'.epoch <= core'.epoch /\ (save'.epoch = core'.epoch /\
          save'.for \in {"op", "delivery"} => mode' = "active")
    BY <1>w, <1>j, <1>h, <1>i, <1>ep, <1>x
       DEF SavesStand, Waits, WhatIsSaved, Begun, Concluded, Recorded, TypeOK, Commits, NoSave
  <2>4. save'.at \in {"written", "ok"} => journal' # <<>> /\ Len(journal') = save'.next.revision /\
          Last' = save'.type
    BY <1>j, <1>h, <1>i, <1>ep, <1>x DEF SavesStand, Waits, WhatIsSaved, Begun, Concluded, Recorded
  <2>5. save'.at = "ok" => state' = save'.next
    BY <1>j, <1>h, <1>i, <1>ep, <1>x DEF SavesStand, Waits, WhatIsSaved, Begun, Concluded, Recorded
  <2>6. save'.at \notin {"none", "ok"} =>
            /\ save'.next.revision = state'.revision + 1
            /\ save'.next.attempts = state'.attempts + (IF save'.type = "attempt" THEN 1 ELSE 0)
    BY <1>j, <1>h, <1>i, <1>ep, <1>x DEF SavesStand, Waits, WhatIsSaved, Begun, Concluded, Recorded
  <2> QED BY <2>1, <2>2, <2>3, <2>4, <2>5, <2>6 DEF SavesStand
<1>g1. QueueStands'
  BY <1>j, <1>h, <1>i, <1>ep, <1>x, QueueKept
     DEF StopDelivery, StagesStand, TypeOK, Cores, ModesStand, AtRest
<1>g. StagesStand'
  BY <1>j, <1>h, <1>i, <1>ep, <1>x, <1>g1 DEF StagesStand, StageUnderWay, Resumable
<1>m. ModesStand'
  <2>1. stopping'.at # "no" <=> mode' = "stopped"
    BY <1>j, <1>h, <1>i, <1>ep, <1>x DEF ModesStand, AtRest, Resumable
  <2>2. core'.closing # "no" \/ store'.revoked \/ mode' = "blocked" => core'.stopped
    BY <1>j, <1>h, <1>i, <1>ep, <1>x DEF ModesStand, AtRest, Resumable
  <2>3. core'.stopped => store'.revoked \/ mode' = "stopped"
    BY <1>j, <1>h, <1>i, <1>ep, <1>x DEF ModesStand, AtRest, Resumable
  <2>4. core'.closing = "closed" => store'.closed
    BY <1>j, <1>h, <1>i, <1>ep, <1>x DEF ModesStand, AtRest, Resumable
  <2>5. core'.closing \in {"closed", "failed"} => save'.at = "none"
    BY <1>j, <1>h, <1>i, <1>ep, <1>x DEF ModesStand, AtRest, Resumable
  <2>6. mode' \in AtRest \cup {"blocked"} =>
            ops' = <<>> /\ actor' = "none" /\ ~author' /\ job' = NoJob /\ ~OnDisk("STOPPED")'
    BY <1>j, <1>h, <1>i, <1>ep, <1>x DEF ModesStand, AtRest, Resumable
  <2>7. mode' \in AtRest => ~core'.stopped /\ core'.denied /\ state'.phase \in Resumable
    BY <1>j, <1>h, <1>i, <1>ep, <1>x DEF ModesStand, AtRest, Resumable
  <2>8. qualifying' <=> job' # NoJob
    BY <1>j, <1>h, <1>i, <1>ep, <1>x DEF ModesStand, AtRest, Resumable
  <2>9. job' # NoJob =>
            /\ ops' = <<>> /\ mode' \in {"active", "stopped"} /\ stopping'.at \in {"no", "called"}
            /\ ~OnDisk("STOPPED")' /\ state'.phase = "DIAGNOSTIC_READY"
    BY <1>j, <1>h, <1>i, <1>ep, <1>x DEF ModesStand, AtRest, Resumable
  <2>10. stopping'.at = "controls" => ops' = <<>>
    BY <1>j, <1>h, <1>i, <1>ep, <1>x DEF ModesStand, AtRest, Resumable
  <2>11. stopping'.at \in {"closing", "saving"} => Tracked' = {}
    BY <1>j, <1>h, <1>i, <1>ep, <1>x DEF ModesStand, AtRest, Resumable
  <2>12. stopping'.at = "saving" => ~core'.stopped
    BY <1>j, <1>h, <1>i, <1>ep, <1>x DEF ModesStand, AtRest, Resumable
  <2>13. stopping'.at = "stopped" => ~stopping'.failed /\ core'.closing = "closed"
    BY <1>j, <1>h, <1>i, <1>ep, <1>x DEF ModesStand, AtRest, Resumable
  <2>14. stopping'.failed => stopping'.at \in {"core", "failed"}
    BY <1>j, <1>h, <1>i, <1>ep, <1>x DEF ModesStand, AtRest, Resumable
  <2> QED BY <2>1, <2>2, <2>3, <2>4, <2>5, <2>6, <2>7, <2>8, <2>9, <2>10, <2>11, <2>12, <2>13, <2>14
             DEF ModesStand
<1>k1. TurnsStand'
  BY <1>j, <1>h, <1>i, <1>ep, <1>x, TurnsKept DEF StopDelivery, ControlsStand, ModesStand, AtRest
<1>k. ControlsStand'
  BY <1>j, <1>h, <1>i, <1>ep, <1>x, <1>k1 DEF ControlsStand
<1>n. CountsStand'
  BY <1>j, <1>h, <1>i, <1>ep, <1>x, ContinuityAssumption
     DEF CountsStand, InStep, Unsaved, Terminal, Resumable
<1>p. PausesStand'
  BY <1>j, <1>h, <1>i, <1>ep, <1>x DEF PausesStand, Unsaved, Resumable
<1>e. EndStands'
  BY <1>j, <1>h, <1>i, <1>ep, <1>x DEF EndStands, Terminal
<1>y. JobStands'
  BY <1>j, <1>h, <1>i, <1>ep, <1>x DEF JobStands, Unsaved
<1>a. DeliveryIsEarned'
  BY <1>j, <1>h, <1>i, <1>ep, <1>x, <1>y, <1>u
     DEF TypeOK, DeliveryIsEarned, DeliveryTypeOK, JobStands, SavesStand, Waits, WhatIsSaved,
         Recorded, Unsaved, Commits, ModesStand, DestinationHolds, Inspected, OutputHolds, Cores,
         Stops
<1> QED BY <1>t, <1>u, <1>d, <1>b, <1>r, <1>s, <1>g, <1>m, <1>k, <1>n, <1>p, <1>e, <1>y, <1>a

(* A stop goes on when no request is under way. *)
LEMMA StopAwaitsStands ==
  ASSUME Inv, StopAwaits
  PROVE  Inv'
<1> USE DEF Inv, DeliveryStands, SameOnDisk, deliveryVars, Owned, SameQueues
<1>j. SameOnDisk
  BY JournalStays DEF StopAwaits, StopWaits, Stopping, stages, disk
<1>h. SameQueues
  BY DEF Op, Turn, Waits, Tracked, StageUnderWay, StopAwaits, StopWaits, Stopping, stages, disk
<1>i. StageUnderWay => ops # <<>> /\ Tracked # {} /\ ~Idle
  BY UnderWay
<1>w. TypeOK /\ DeliveryTypeOK
  BY DEF DeliveryIsEarned
<1>x. /\ stopping.at = "called" /\ stopping' \in Stops /\ stopping'.at \in {"controls", "stages"}
      /\ (stopping'.failed <=> stopping.failed) /\ (stopping'.at = "controls" => ops = <<>>) /\
            job = NoJob /\ ~core.stopped
      /\ UNCHANGED <<mode, permitted, checkpoint, controls, qualifying, core, ops, actor, author,
           space, custody, state, save, journal, store, faults>> /\ UNCHANGED deliveryVars
  <2>1. stopping.at = "called" /\ stopping \in Stops
    BY <1>w DEF StopAwaits, StopWaits, TypeOK
  <2>2. PICK to \in {"controls", "stages"} : stopping' = [stopping EXCEPT !.at = to] /\
          (to = "controls" => ops = <<>>)
    BY DEF StopAwaits, StopWaits, Stopping
  <2>3. stopping' \in Stops /\ stopping'.at = to
    BY <2>1, <2>2 DEF Stops
  <2>4. stopping'.failed <=> stopping.failed
    BY <2>1, <2>2 DEF Stops
  <2>5. job = NoJob /\ ~core.stopped /\ UNCHANGED <<mode, permitted, checkpoint, controls,
          qualifying, core, ops, actor, author, space, custody, state, save, journal, store,
          faults>> /\ UNCHANGED deliveryVars
    BY DEF StopAwaits, StopWaits, stages, disk
  <2> QED BY <2>1, <2>2, <2>3, <2>4, <2>5
<1>z. save.at # "none" => save.for # "stop"
  BY <1>x, WhoWaits
<1>f. DeliveryTypeOK' /\ PausedIsDrained' /\ BudgetKept' /\ ResumedOnce' /\ QueueStands' /\
        TurnsStand' /\ ControlsStand' /\ CountsStand' /\ PausesStand' /\ JobStands' /\
        DeliveryIsEarned'
  BY Frames, <1>x, <1>z DEF StopAwaits, StopWaits, Stopping, stages, disk
<1>t. TypeOK'
  <2>stopping. stopping' \in Stops
    BY <1>w, <1>x, <1>z DEF TypeOK, Stops
  <2> QED BY <1>w, <1>x, <1>z, <2>stopping DEF TypeOK
<1>s. SavesStand'
  <2>1. \A who \in {"op", "control", "stop", "delivery"} : Waits(who)' <=> save'.at # "none" /\
          save'.for = who
    BY <1>j, <1>h, <1>i, <1>x, <1>z DEF SavesStand, Waits, WhatIsSaved, Begun, Concluded, Recorded
  <2>2. save'.at # "none" => WhatIsSaved'
    BY <1>j, <1>h, <1>i, <1>x, <1>z DEF SavesStand, Waits, WhatIsSaved, Begun, Concluded, Recorded
  <2>3. save'.at # "none" => save'.epoch <= core'.epoch /\ (save'.epoch = core'.epoch /\
          save'.for \in {"op", "delivery"} => mode' = "active")
    BY <1>j, <1>h, <1>i, <1>x, <1>z DEF SavesStand, Waits, WhatIsSaved, Begun, Concluded, Recorded
  <2>4. save'.at \in {"written", "ok"} => journal' # <<>> /\ Len(journal') = save'.next.revision /\
          Last' = save'.type
    BY <1>j, <1>h, <1>i, <1>x, <1>z DEF SavesStand, Waits, WhatIsSaved, Begun, Concluded, Recorded
  <2>5. save'.at = "ok" => state' = save'.next
    BY <1>j, <1>h, <1>i, <1>x, <1>z DEF SavesStand, Waits, WhatIsSaved, Begun, Concluded, Recorded
  <2>6. save'.at \notin {"none", "ok"} =>
            /\ save'.next.revision = state'.revision + 1
            /\ save'.next.attempts = state'.attempts + (IF save'.type = "attempt" THEN 1 ELSE 0)
    BY <1>j, <1>h, <1>i, <1>x, <1>z DEF SavesStand, Waits, WhatIsSaved, Begun, Concluded, Recorded
  <2> QED BY <2>1, <2>2, <2>3, <2>4, <2>5, <2>6 DEF SavesStand
<1>g. StagesStand'
  <2>1. StageUnderWay' => ~core'.stopped /\ copy' = "none" /\ stopping'.at \in {"no", "called",
          "stages"}
    BY <1>j, <1>h, <1>i, <1>x, <1>z, <1>f DEF StagesStand, StageUnderWay, Resumable
  <2>2. StageUnderWay' /\ Op'.at = "closing" => Op'.name = "author" /\ state'.phase \in Resumable /\
          state'.attempts < Budget
    BY <1>j, <1>h, <1>i, <1>x, <1>z, <1>f DEF StagesStand, StageUnderWay, Resumable
  <2>3. StageUnderWay' /\ Op'.at = "saving" /\ save'.at # "ok" =>
            CASE Op'.name = "author" -> state'.phase \in Resumable
              [] Op'.name = "seal" -> state'.phase = "AUTHORING"
              [] Op'.name = "judge" -> state'.phase = "FROZEN"
    BY <1>j, <1>h, <1>i, <1>x, <1>z, <1>f DEF StagesStand, StageUnderWay, Resumable
  <2>4. StageUnderWay' /\ (Op'.at = "acting" \/ (Op'.at = "concluding" /\ save'.at # "ok")) =>
            state'.phase \in {"AUTHORING", "REVIEWING"}
    BY <1>j, <1>h, <1>i, <1>x, <1>z, <1>f DEF StagesStand, StageUnderWay, Resumable
  <2> QED BY <2>1, <2>2, <2>3, <2>4, <1>f DEF StagesStand
<1>m. ModesStand'
  <2>1. stopping'.at # "no" <=> mode' = "stopped"
    BY <1>j, <1>h, <1>i, <1>x, <1>z DEF ModesStand, AtRest, Resumable
  <2>2. core'.closing # "no" \/ store'.revoked \/ mode' = "blocked" => core'.stopped
    BY <1>j, <1>h, <1>i, <1>x, <1>z DEF ModesStand, AtRest, Resumable
  <2>3. core'.stopped => store'.revoked \/ mode' = "stopped"
    BY <1>j, <1>h, <1>i, <1>x, <1>z DEF ModesStand, AtRest, Resumable
  <2>4. core'.closing = "closed" => store'.closed
    BY <1>j, <1>h, <1>i, <1>x, <1>z DEF ModesStand, AtRest, Resumable
  <2>5. core'.closing \in {"closed", "failed"} => save'.at = "none"
    BY <1>j, <1>h, <1>i, <1>x, <1>z DEF ModesStand, AtRest, Resumable
  <2>6. mode' \in AtRest \cup {"blocked"} =>
            ops' = <<>> /\ actor' = "none" /\ ~author' /\ job' = NoJob /\ ~OnDisk("STOPPED")'
    BY <1>j, <1>h, <1>i, <1>x, <1>z DEF ModesStand, AtRest, Resumable
  <2>7. mode' \in AtRest => ~core'.stopped /\ core'.denied /\ state'.phase \in Resumable
    BY <1>j, <1>h, <1>i, <1>x, <1>z DEF ModesStand, AtRest, Resumable
  <2>8. qualifying' <=> job' # NoJob
    BY <1>j, <1>h, <1>i, <1>x, <1>z DEF ModesStand, AtRest, Resumable
  <2>9. job' # NoJob =>
            /\ ops' = <<>> /\ mode' \in {"active", "stopped"} /\ stopping'.at \in {"no", "called"}
            /\ ~OnDisk("STOPPED")' /\ state'.phase = "DIAGNOSTIC_READY"
    BY <1>j, <1>h, <1>i, <1>x, <1>z DEF ModesStand, AtRest, Resumable
  <2>10. stopping'.at = "controls" => ops' = <<>>
    BY <1>j, <1>h, <1>i, <1>x, <1>z DEF ModesStand, AtRest, Resumable
  <2>11. stopping'.at \in {"closing", "saving"} => Tracked' = {}
    BY <1>j, <1>h, <1>i, <1>x, <1>z DEF ModesStand, AtRest, Resumable
  <2>12. stopping'.at = "saving" => ~core'.stopped
    BY <1>j, <1>h, <1>i, <1>x, <1>z DEF ModesStand, AtRest, Resumable
  <2>13. stopping'.at = "stopped" => ~stopping'.failed /\ core'.closing = "closed"
    BY <1>j, <1>h, <1>i, <1>x, <1>z DEF ModesStand, AtRest, Resumable
  <2>14. stopping'.failed => stopping'.at \in {"core", "failed"}
    BY <1>j, <1>h, <1>i, <1>x, <1>z DEF ModesStand, AtRest, Resumable
  <2> QED BY <2>1, <2>2, <2>3, <2>4, <2>5, <2>6, <2>7, <2>8, <2>9, <2>10, <2>11, <2>12, <2>13, <2>14
             DEF ModesStand
<1>e. EndStands'
  BY <1>j, <1>h, <1>i, <1>x, <1>z DEF EndStands, Terminal
<1> QED BY <1>f, <1>t, <1>s, <1>g, <1>m, <1>e

(* After a poison the core closes, and nothing is recorded. *)
LEMMA StopClosesStands ==
  ASSUME Inv, StopCloses
  PROVE  Inv'
<1> USE DEF Inv, DeliveryStands, SameOnDisk, deliveryVars, Owned, SameQueues
<1>j. SameOnDisk
  BY JournalStays DEF StopCloses, StopFailed, Stopping, Closing, RevokedSpace, disk
<1>h. SameQueues
  BY
     DEF Op, Turn, Waits, Tracked, StageUnderWay, StopCloses, StopFailed, Stopping, Closing,
         RevokedSpace, disk
<1>i. StageUnderWay => ops # <<>> /\ Tracked # {} /\ ~Idle
  BY UnderWay
<1>w. TypeOK /\ DeliveryTypeOK
  BY DEF DeliveryIsEarned
<1>ep. /\ core' \in Cores /\ core.epoch \in Nat /\ core'.epoch \in Nat /\ core'.epoch >= core.epoch
          /\ core'.denied = core.denied
          /\ (core'.closing # "no" /\ core'.stopped /\ (core.closing = "no" =>
                core'.closing = "waiting"))
          /\ (core.closing # "no" => core' = core)
          /\ (core' = core \/ core'.epoch > core.epoch)
  <2>1. core \in Cores /\ (core.closing # "no" => core.stopped)
    BY <1>w DEF TypeOK, ModesStand
  <2>2. core' = Closing(core)
    BY DEF StopCloses, StopFailed
  <2> QED BY <2>1, <2>2, CoreClosed
<1>x. /\ stopping.at = "called" /\ job = NoJob /\ space' = RevokedSpace /\ stopping' \in Stops
      /\ stopping'.at = "core" /\ (stopping'.failed \/ core.stopped)
      /\ UNCHANGED <<mode, permitted, checkpoint, controls, qualifying, ops, actor, author, custody,
           state, save, journal, store, faults>> /\ UNCHANGED deliveryVars
  <2>1. stopping' \in Stops /\ stopping'.at = "core" /\ (stopping'.failed \/ core.stopped)
    <3>1. stopping \in Stops
      BY <1>w DEF TypeOK
    <3>2. CASE stopping' = [at |-> "core", failed |-> TRUE]
      BY <3>2 DEF Stops
    <3>3. CASE stopping' = [stopping EXCEPT !.at = "core"] /\ core.stopped
      BY <3>1, <3>3 DEF Stops
    <3> QED BY <3>2, <3>3 DEF StopCloses, StopFailed, Stopping
  <2>2. /\ stopping.at = "called" /\ job = NoJob /\ space' = RevokedSpace
        /\ UNCHANGED <<mode, permitted, checkpoint, controls, qualifying, ops, actor, author,
             custody, state, save, journal, store, faults>> /\ UNCHANGED deliveryVars
    BY DEF StopCloses, disk
  <2> QED BY <2>1, <2>2
<1>z. mode = "stopped" /\ ~stopping.failed /\ (save.at # "none" => save.for # "stop") /\
        core'.stopped /\ ~StageUnderWay
  <2>1. mode = "stopped" /\ ~stopping.failed
    BY <1>x DEF ModesStand
  <2>2. save.at # "none" => save.for # "stop"
    BY <1>x, WhoWaits
  <2>3. ~StageUnderWay
    BY DEF StopCloses, StagesStand
  <2> QED BY <1>ep, <2>1, <2>2, <2>3
<1>f. DeliveryTypeOK' /\ ResumedOnce' /\ PausesStand' /\ JobStands' /\ DeliveryIsEarned'
  BY Frames, <1>x, <1>z DEF StopCloses, StopFailed, Stopping, RevokedSpace, disk
<1>t. TypeOK'
  <2>core. core' \in Cores
    BY <1>ep
  <2>stopping. stopping' \in Stops
    BY <1>w, <1>x, <1>z DEF TypeOK, Stops
  <2>space. space' \in {"none", "open", "revoked"}
    BY <1>w, <1>x, <1>z DEF StopCloses, RevokedSpace, TypeOK
  <2> QED BY <1>w, <1>x, <1>z, <2>core, <2>stopping, <2>space DEF TypeOK
<1>d. PausedIsDrained'
  BY <1>j, <1>h, <1>i, <1>ep, <1>x, <1>z DEF PausedIsDrained
<1>b. BudgetKept'
  BY <1>j, <1>h, <1>i, <1>ep, <1>x, <1>z, ContinuityAssumption DEF BudgetKept
<1>s. SavesStand'
  <2>1. \A who \in {"op", "control", "stop", "delivery"} : Waits(who)' <=> save'.at # "none" /\
          save'.for = who
    BY <1>j, <1>h, <1>i, <1>ep, <1>x, <1>z
       DEF SavesStand, Waits, WhatIsSaved, Begun, Concluded, Recorded
  <2>2. save'.at # "none" => WhatIsSaved'
    BY <1>j, <1>h, <1>i, <1>ep, <1>x, <1>z
       DEF SavesStand, Waits, WhatIsSaved, Begun, Concluded, Recorded
  <2>3. save'.at # "none" => save'.epoch <= core'.epoch /\ (save'.epoch = core'.epoch /\
          save'.for \in {"op", "delivery"} => mode' = "active")
    BY <1>w, <1>j, <1>h, <1>i, <1>ep, <1>x, <1>z
       DEF SavesStand, Waits, WhatIsSaved, Begun, Concluded, Recorded, TypeOK, Commits, NoSave
  <2>4. save'.at \in {"written", "ok"} => journal' # <<>> /\ Len(journal') = save'.next.revision /\
          Last' = save'.type
    BY <1>j, <1>h, <1>i, <1>ep, <1>x, <1>z
       DEF SavesStand, Waits, WhatIsSaved, Begun, Concluded, Recorded
  <2>5. save'.at = "ok" => state' = save'.next
    BY <1>j, <1>h, <1>i, <1>ep, <1>x, <1>z
       DEF SavesStand, Waits, WhatIsSaved, Begun, Concluded, Recorded
  <2>6. save'.at \notin {"none", "ok"} =>
            /\ save'.next.revision = state'.revision + 1
            /\ save'.next.attempts = state'.attempts + (IF save'.type = "attempt" THEN 1 ELSE 0)
    BY <1>j, <1>h, <1>i, <1>ep, <1>x, <1>z
       DEF SavesStand, Waits, WhatIsSaved, Begun, Concluded, Recorded
  <2> QED BY <2>1, <2>2, <2>3, <2>4, <2>5, <2>6 DEF SavesStand
<1>g1. QueueStands'
  BY <1>j, <1>h, <1>i, <1>ep, <1>x, <1>z, QueueKept DEF StopCloses, StagesStand, TypeOK, Cores
<1>g. StagesStand'
  <2>1. StageUnderWay' => ~core'.stopped /\ copy' = "none" /\ stopping'.at \in {"no", "called",
          "stages"}
    BY <1>j, <1>h, <1>i, <1>ep, <1>x, <1>z, <1>g1 DEF StagesStand, StageUnderWay, Resumable
  <2>2. StageUnderWay' /\ Op'.at = "closing" => Op'.name = "author" /\ state'.phase \in Resumable /\
          state'.attempts < Budget
    BY <1>j, <1>h, <1>i, <1>ep, <1>x, <1>z, <1>g1 DEF StagesStand, StageUnderWay, Resumable
  <2>3. StageUnderWay' /\ Op'.at = "saving" /\ save'.at # "ok" =>
            CASE Op'.name = "author" -> state'.phase \in Resumable
              [] Op'.name = "seal" -> state'.phase = "AUTHORING"
              [] Op'.name = "judge" -> state'.phase = "FROZEN"
    BY <1>j, <1>h, <1>i, <1>ep, <1>x, <1>z, <1>g1 DEF StagesStand, StageUnderWay, Resumable
  <2>4. StageUnderWay' /\ (Op'.at = "acting" \/ (Op'.at = "concluding" /\ save'.at # "ok")) =>
            state'.phase \in {"AUTHORING", "REVIEWING"}
    BY <1>j, <1>h, <1>i, <1>ep, <1>x, <1>z, <1>g1 DEF StagesStand, StageUnderWay, Resumable
  <2> QED BY <2>1, <2>2, <2>3, <2>4, <1>g1 DEF StagesStand
<1>m. ModesStand'
  BY <1>j, <1>h, <1>i, <1>ep, <1>x, <1>z DEF ModesStand, AtRest, Resumable
<1>k1. TurnsStand'
  BY <1>j, <1>h, <1>i, <1>ep, <1>x, <1>z, TurnsKept
     DEF StopCloses, ControlsStand, ModesStand, AtRest
<1>k. ControlsStand'
  BY <1>j, <1>h, <1>i, <1>ep, <1>x, <1>z, <1>k1 DEF ControlsStand
<1>n. CountsStand'
  BY <1>j, <1>h, <1>i, <1>ep, <1>x, <1>z, ContinuityAssumption
     DEF CountsStand, InStep, Unsaved, Terminal, Resumable
<1>e. EndStands'
  <2>1. save'.at # "none" /\ save'.type # "STOPPED" => ~OnDisk("STOPPED")'
    BY <1>j, <1>h, <1>i, <1>ep, <1>x, <1>z DEF EndStands, Terminal
  <2>2. OnDisk("STOPPED")' /\ state'.phase # "STOPPED" =>
            \/ save'.at = "written" \/ stopping'.failed
            \/ ~core'.stopped /\ state'.phase \notin Terminal /\ state'.revision # Len(journal')
    BY <1>j, <1>h, <1>i, <1>ep, <1>x, <1>z DEF EndStands, Terminal
  <2> QED BY <2>1, <2>2 DEF EndStands
<1> QED BY <1>f, <1>t, <1>d, <1>b, <1>s, <1>g, <1>m, <1>k, <1>n, <1>e

(* Somebody else's change at the destination leaves all the rest. *)
LEMMA TamperStands ==
  ASSUME Inv, Tamper
  PROVE  Inv'
<1> USE DEF Inv, deliveryVars, SameQueues
<1>j. SameOnDisk
  BY JournalStays DEF Tamper, owner, stages, disk
<1>h. SameQueues /\ (\A who : Waits(who)' <=> Waits(who))
  BY DEF Op, Turn, Waits, Tracked, StageUnderWay, Tamper, owner, stages, disk
<1>b1. tampered' \in BOOLEAN
  BY DEF DeliveryIsEarned, DeliveryTypeOK, Tamper, owner, stages, disk
<1>i. StageUnderWay => ops # <<>> /\ Tracked # {} /\ ~Idle
  BY UnderWay
<1>w. TypeOK /\ DeliveryTypeOK
  BY DEF DeliveryIsEarned
<1>f. PausedIsDrained' /\ BudgetKept' /\ ResumedOnce' /\ SavesStand' /\ QueueStands' /\
        StagesStand' /\ ModesStand' /\ TurnsStand' /\ ControlsStand' /\ CountsStand' /\
        PausesStand' /\ EndStands' /\ JobStands'
  BY Frames DEF Tamper, owner, stages, disk
<1>t. TypeOK'
  <2>faults. faults' \in 0 .. MaxFaults
    BY <1>w, ContinuityAssumption DEF Tamper, owner, stages, disk, TypeOK
  <2> QED BY <1>w, <2>faults DEF Tamper, owner, stages, disk, TypeOK
<1>u. DeliveryTypeOK'
  BY <1>w, <1>b1 DEF Tamper, owner, stages, disk, NoJob, DeliveryTypeOK, Kinds
<1>a. DeliveryIsEarned'
  BY <1>j, <1>h, <1>i, <1>f, <1>u
     DEF SameOnDisk, DeliveryStands, Tamper, owner, stages, disk, Heard, Owned, Live, Alive,
         Pending, Idle, NoSave, NoJob, Terminal, Resumable, Tracked, TypeOK, DeliveryIsEarned,
         DeliveryTypeOK, JobStands, SavesStand, Waits, WhatIsSaved, Recorded, Unsaved, Commits,
         ModesStand, DestinationHolds, Inspected, OutputHolds
<1> QED BY <1>f, <1>t, <1>u, <1>a DEF DeliveryStands

-----------------------------------------------------------------------------
(* At first nothing is under way, on disk or at the destination. *)
LEMMA InitStands ==
  ASSUME DeliveryInit
  PROVE  Inv
<1>1. TypeOK /\ DeliveryTypeOK
  <2>1. /\ core \in Cores /\ stopping \in Stops /\ store \in Stores /\ state \in States
        /\ checkpoint \in [id : Nat, head : Nat] /\ faults \in 0 .. MaxFaults
    BY ContinuityAssumption
       DEF DeliveryInit, Init, Cores, Stops, Stores, States, Phases, Resumable, NoCheckpoint
  <2>2. controls \in Seq(Turns) /\ ops \in Seq(Stages) /\ journal \in Seq(Types) /\ Len(journal) = 0
    BY DEF DeliveryInit, Init
  <2>3. qualifying \in BOOLEAN /\ author \in BOOLEAN /\ custody \in BOOLEAN
    BY DEF DeliveryInit, Init
  <2>4. TypeOK
    BY <2>1, <2>2, <2>3 DEF DeliveryInit, Init, TypeOK
  <2> QED BY <2>4 DEF DeliveryInit, DeliveryTypeOK
<1>2. Spent = 0 /\ ~OpenPause /\ Alternating /\ InOrder /\ \A type : ~OnDisk(type)
  <2>1. journal = <<>> /\ DOMAIN journal = {} /\ Len(journal) = 0
    BY DEF DeliveryInit, Init
  <2>2. {i \in DOMAIN journal : journal[i] = "attempt"} = {}
    BY <2>1
  <2>3. Spent = 0
    BY <2>2, FS_EmptySet DEF Spent
  <2> QED BY <2>1, <2>3 DEF OpenPause, Alternating, InOrder, OnDisk
<1>3. PausedIsDrained /\ ResumedOnce /\ BudgetKept
  BY <1>2, ContinuityAssumption DEF DeliveryInit, Init, PausedIsDrained, ResumedOnce, BudgetKept
<1>4. DeliveryIsEarned
  BY <1>1, <1>2 DEF DeliveryInit, DeliveryIsEarned
<1>5. SavesStand /\ StagesStand
  BY
     DEF DeliveryInit, Init, NoSave, NoJob, SavesStand, Waits, StagesStand, QueueStands,
         StageUnderWay
<1>6. ModesStand /\ ControlsStand
  BY <1>2 DEF DeliveryInit, Init, NoSave, NoJob, ModesStand, AtRest, ControlsStand, TurnsStand
<1>7. CountsStand /\ PausesStand /\ EndStands
  BY <1>2 DEF DeliveryInit, Init, NoSave, CountsStand, Unsaved, Terminal, PausesStand, EndStands
<1>8. JobStands
  BY <1>2 DEF DeliveryInit, Init, NoSave, NoJob, JobStands, Unsaved
<1> QED BY <1>1, <1>3, <1>4, <1>5, <1>6, <1>7, <1>8 DEF Inv, DeliveryStands

(* Whatever the store, a stage, a control, the stop, the coordinator or a caller does next, all
   of it stands. *)
LEMMA NextStands ==
  ASSUME Inv, [Next]_allVars
  PROVE  Inv'
<1>1. CASE StoreStep /\ UNCHANGED deliveryVars
  BY <1>1, StoreAcceptsStands, StoreWritesStands, StoreRefusesStands, StoreAnswersStands
     DEF StoreStep
<1>2. CASE OpStep /\ UNCHANGED deliveryVars
  <2>1. ASSUME NEW i \in DOMAIN ops, Enqueues(i)
        PROVE  Inv'
    BY <1>2, <2>1, EnqueuesStands
  <2> QED BY <1>2, <2>1, OpRefusedStands, OpClosesStands, OpCommitsStands, OpProceedsStands,
             OpFailsStands, OpCloseFailsStands, OpConcludesStands, OpOutdatedStands, OpEndsStands
          DEF OpStep
<1>3. CASE ControlStep /\ UNCHANGED deliveryVars
  BY <1>3, PauseDrainsStands, PauseDrainedStands, PauseRecordsStands, ControlSavedStands,
     PausedStands,
     ResumeRefusedStands, ResumeStartsStands, ResumeConsumesStands, ResumeRecordsStands,
     ResumedStands, ControlFailsStands, ControlCleanedStands
     DEF ControlStep
<1>4. CASE EndStep
  BY <1>4, StopDrainsStands, StopRecordsStands, StopSavedStands, StopFailsStands, StopEndsStands,
     CoreClosesStands, StopAwaitsStands, StopClosesStands
     DEF EndStep, StopStep
<1>5. CASE JobStep
  BY <1>5, JobStartsStands, JobRefusedStands, JobProvesStands, JobRecordsStands, JobSavedStands,
     JobFinalizesStands, JobPreparesStands, WriterWritesStands, JobMarksStands, JobCompletesStands,
     JobFailsStands
     DEF JobStep
<1>6. CASE (ActorEnds \/ Fault) /\ UNCHANGED deliveryVars
  BY <1>6, ActorEndsStands, StoreFailsStands, OwnerLostStands DEF Fault
<1>7. CASE Call /\ UNCHANGED deliveryVars
  <2>1. ASSUME NEW name \in Names, Launch(name)
        PROVE  Inv'
    BY <1>7, <2>1, LaunchStands
  <2>2. ASSUME NEW id \in 1 .. core.epoch, Resume(id)
        PROVE  Inv'
    BY <1>7, <2>2, ResumeStands
  <2> QED BY <1>7, <2>1, <2>2, PauseStands DEF Call
<1>8. CASE StopDelivery \/ Tamper
  BY <1>8, StopDeliveryStands, TamperStands
<1>9. ASSUME NEW kind \in Kinds, Ask(kind)
      PROVE  Inv'
  BY <1>9, AskStands
<1>10. CASE UNCHANGED allVars
  BY <1>10, Frames DEF allVars, vars, owner, stages, disk, deliveryVars, Inv, DeliveryStands
<1> QED BY <1>1, <1>2, <1>3, <1>4, <1>5, <1>6, <1>7, <1>8, <1>9, <1>10
       DEF Next, StoreMoves, StageMoves, ControlMoves, EndMoves, JobMoves, ActorMoves

(* All of it always stands. *)
LEMMA AlwaysStands == Spec => []Inv
<1>1. DeliveryInit => Inv
  BY InitStands
<1>2. Inv /\ [Next]_allVars => Inv'
  BY NextStands
<1> QED BY <1>1, <1>2, PTL DEF Spec
-----------------------------------------------------------------------------
(* The output never says more than the journal does: it is begun only after the reservation,
   marked only after the completion, and called completed only when all of it is there. *)
THEOREM DeliveriesAreEarned == Spec => []DeliveryIsEarned
<1>1. Inv => DeliveryIsEarned
  BY DEF Inv
<1> QED BY <1>1, AlwaysStands, PTL

(* Who writes what: the journal, the output, the papers and the phase of the delivery, and
   what the controller knows. *)
LEMMA WhoWrites ==
  ASSUME [Next]_allVars
  PROVE  /\ UNCHANGED journal \/ StoreWrites
         /\ UNCHANGED output \/ WriterWrites
         /\ UNCHANGED <<accepted, qualified>> \/ JobFinalizes
         /\ UNCHANGED phase \/ JobStarts \/ JobCompletes \/ JobFails
         /\ UNCHANGED state \/ StoreAnswers
<1>1. CASE StoreStep /\ UNCHANGED deliveryVars
  BY <1>1 DEF StoreStep, StoreAccepts, StoreWrites, StoreRefuses, StoreAnswers, deliveryVars
<1>2. CASE OpStep /\ UNCHANGED deliveryVars
  BY <1>2 DEF OpStep, Enqueues, OpRefused, OpCloses, OpCommits, OpProceeds, OpFails, OpCloseFails,
              OpConcludes, OpOutdated, OpEnds, disk, deliveryVars
<1>3. CASE ControlStep /\ UNCHANGED deliveryVars
  BY <1>3
     DEF ControlStep, PauseDrains, PauseDrained, PauseRecords, ControlSaved, Paused, ResumeRefused,
              ResumeStarts, ResumeConsumes, ResumeRecords, Resumed, ControlFails, ControlCleaned,
              disk, deliveryVars
<1>4. CASE EndStep
  BY <1>4
     DEF EndStep, StopStep, StopDrains, StopRecords, StopSaved, StopFails, StopEnds, CoreCloses,
              StopAwaits, StopWaits, StopCloses, disk, deliveryVars
<1>5. CASE JobStep
  BY <1>5
     DEF JobStep, JobStarts, JobRefused, JobProves, JobRecords, JobSaved, JobFinalizes, JobPrepares,
              WriterWrites, JobMarks, JobCompletes, JobFails, CoreStays, PaperStays, disk
<1>6. CASE (ActorEnds \/ Fault \/ Call) /\ UNCHANGED deliveryVars
  BY <1>6
     DEF ActorEnds, Fault, StoreFails, OwnerLost, Call, Launch, Pause, Resume, disk, deliveryVars
<1>7. CASE StopDelivery \/ Tamper \/ \E kind \in Kinds : Ask(kind)
  BY <1>7 DEF StopDelivery, Stop, Tamper, Ask, disk
<1>8. CASE UNCHANGED allVars
  BY <1>8 DEF allVars, vars, disk, deliveryVars
<1> QED BY <1>1, <1>2, <1>3, <1>4, <1>5, <1>6, <1>7, <1>8
       DEF Next, StoreMoves, StageMoves, ControlMoves, EndMoves, JobMoves, ActorMoves

(* What is uncertain is left as it is. *)
LEMMA UncertainStays ==
  ASSUME Inv, [Next]_allVars, phase = "uncertain"
  PROVE  UNCHANGED <<phase, journal, output, accepted, qualified>>
<1>1. job.at = "none" /\ save.at = "none"
  BY DEF Inv, DeliveryStands, JobStands, NoJob
<1>2. ~StoreWrites /\ ~WriterWrites /\ ~JobFinalizes /\ ~JobStarts /\ ~JobCompletes
  BY <1>1 DEF StoreWrites, WriterWrites, Copies, LooksItOver, Marks, Follows, JobFinalizes,
              JobStarts, JobCompletes
<1>3. JobFails => UNCHANGED phase
  BY DEF JobFails
<1> QED BY <1>2, <1>3, WhoWrites

(* Who stopped the core stays known: it is named when the core stops, and what excuses it is
   not taken back. *)
LEMMA StopperKnown ==
  ASSUME StopperStands, NEW who \in {"seal", "control", "stop", "delivery"},
         StoppedBy(who) \/ UNCHANGED <<core, stopper>>,
         core.stopped \in BOOLEAN, core'.stopped \in BOOLEAN, core.stopped => core'.stopped,
         core.stopped => UNCHANGED state, stopping.failed => stopping'.failed,
         phase = "uncertain" => UNCHANGED phase,
         ~core.stopped /\ core'.stopped =>
           /\ who = "stop" => stopping'.failed \/ state'.phase \in Terminal
           /\ who = "delivery" => phase' = "uncertain"
  PROVE  StopperStands'
<1> QED BY DEF StopperStands, StoppedBy

(* What a stage or a control does to the core: it leaves it as it is, or stops it. *)
LEMMA StagesAndControls ==
  ASSUME Inv, OpStep \/ ControlStep
  PROVE  UNCHANGED stopping /\ (core.stopped => core'.stopped)
<1>1. core \in Cores
  BY DEF Inv, TypeOK
<1>2. CutOff(core).stopped /\ (core.stopped => Closing(Fenced(core)).stopped)
  BY <1>1, CoreStopped, CoreFenced, CoreClosed DEF Inv, DeliveryStands, ModesStand
<1>3. CASE OpStep
  <2>1. UNCHANGED stopping
    BY <1>3 DEF OpStep, Enqueues, OpRefused, OpCloses, OpCommits, OpProceeds, OpFails,
                OpCloseFails, OpConcludes, OpOutdated, OpEnds, owner
  <2>2. core' \in {core, CutOff(core)}
    BY <1>3 DEF OpStep, Enqueues, OpRefused, OpCloses, OpCommits, OpProceeds, OpFails,
                OpCloseFails, OpConcludes, OpOutdated, OpEnds, SealStops
  <2> QED BY <1>2, <2>1, <2>2
<1>4. CASE ControlStep
  <2>1. UNCHANGED stopping
    BY <1>4 DEF ControlStep, PauseDrains, PauseDrained, PauseRecords, ControlSaved, Paused,
                ResumeRefused, ResumeStarts, ResumeConsumes, ResumeRecords, Resumed,
                ControlFails, ControlCleaned
  <2>2. core' \in {core, [core EXCEPT !.denied = FALSE], Closing(Fenced(core))}
    BY <1>4 DEF ControlStep, PauseDrains, PauseDrained, PauseRecords, ControlSaved, Paused,
                ResumeRefused, ResumeStarts, ResumeConsumes, ResumeRecords, Resumed,
                ControlFails, ControlCleaned
  <2>3. [core EXCEPT !.denied = FALSE].stopped = core.stopped
    BY <1>1 DEF Cores
  <2> QED BY <1>2, <2>1, <2>2, <2>3
<1> QED BY <1>3, <1>4

(* What the stop does to the core: it stops it only for a failure or when the end is on
   record, and never takes a failure back. *)
LEMMA StopsOnRecord ==
  ASSUME Inv, EndStep
  PROVE  /\ core.stopped => core'.stopped
         /\ stopping.failed => stopping'.failed
         /\ ~core.stopped /\ core'.stopped => stopping'.failed \/ state'.phase \in Terminal
<1>1. core \in Cores /\ stopping \in Stops
  BY DEF Inv, TypeOK
<1>2. core.stopped => Closing(core).stopped
  BY <1>1, CoreClosed
<1>3. \A label : Stopping(label) => stopping'.failed = stopping.failed
  BY <1>1 DEF Stops, Stopping
<1>4. CASE StopFails
  BY <1>2, <1>4 DEF StopFails, StopFailed
<1>5. CASE StopCloses
  <2>1. core' = Closing(core)
    BY <1>5 DEF StopCloses, StopFailed
  <2>2. stopping'.failed \/ (core.stopped /\ stopping'.failed = stopping.failed)
    BY <1>3, <1>5 DEF StopCloses, StopFailed
  <2> QED BY <1>2, <2>1, <2>2
<1>6. CASE StopSaved
  <2>1. state.phase = "STOPPED" /\ UNCHANGED state
    BY <1>6 DEF StopSaved, Saved, Inv, DeliveryStands, SavesStand, WhatIsSaved
  <2> QED BY <1>2, <1>3, <1>6, <2>1 DEF StopSaved, Terminal
<1>7. CASE StopRecords
  <2>1. UNCHANGED state /\ (core' = core \/ (core' = Closing(core) /\ state.phase \in Terminal))
    BY <1>7 DEF StopRecords
  <2>2. stopping'.failed = stopping.failed
    BY <1>3, <1>7 DEF StopRecords
  <2> QED BY <1>2, <2>1, <2>2
<1>8. CASE StopDrains \/ StopEnds \/ StopAwaits
  <2>1. UNCHANGED core
    BY <1>8 DEF StopDrains, StopEnds, StopAwaits, StopWaits
  <2>2. stopping'.failed = stopping.failed
    BY <1>1, <1>3, <1>8 DEF StopDrains, StopEnds, StopAwaits, StopWaits, Stops
  <2> QED BY <2>1, <2>2
<1>9. CASE CoreCloses
  <2>1. UNCHANGED stopping /\ \E to : core' = [core EXCEPT !.closing = to]
    BY <1>9 DEF CoreCloses, owner
  <2>2. \A to : [core EXCEPT !.closing = to].stopped = core.stopped
    BY <1>1 DEF Cores
  <2> QED BY <2>1, <2>2
<1> QED BY <1>4, <1>5, <1>6, <1>7, <1>8, <1>9 DEF EndStep, StopStep

(* What the coordinator does to the core: it stops it only for a delivery that is uncertain
   from then on. *)
LEMMA PoisonsWhenUncertain ==
  ASSUME Inv, JobStep
  PROVE  /\ UNCHANGED stopping
         /\ core.stopped => core'.stopped
         /\ ~core.stopped /\ core'.stopped => phase' = "uncertain"
<1>1. UNCHANGED stopping
  BY DEF JobStep, JobStarts, JobRefused, JobProves, JobRecords, JobSaved, JobFinalizes,
         JobPrepares, WriterWrites, JobMarks, JobCompletes, JobFails, OwnerStays
<1>2. CASE JobFails
  <2>1. core' = core \/ (core' = [CutOff(core) EXCEPT !.denied = TRUE] /\ phase' = "uncertain")
    BY <1>2 DEF JobFails, Poisons, PoisonsNot
  <2>2. core \in Cores
    BY DEF Inv, TypeOK
  <2> QED BY <1>1, <2>1, <2>2, CorePoisoned
<1>3. CASE ~JobFails
  <2>1. UNCHANGED core
    BY <1>3 DEF JobStep, JobStarts, JobRefused, JobProves, JobRecords, JobSaved, JobFinalizes,
                JobPrepares, WriterWrites, JobMarks, JobCompletes, CoreStays
  <2> QED BY <1>1, <2>1
<1> QED BY <1>2, <1>3

(* Whatever is done next, it stays known who stopped the core. *)
LEMMA StopperKept ==
  ASSUME Inv, StopperStands, [Next]_allVars
  PROVE  StopperStands'
<1>1. core.stopped \in BOOLEAN /\ core'.stopped \in BOOLEAN
  <2>1. core \in Cores /\ core' \in Cores
    BY NextStands DEF Inv, TypeOK
  <2> QED BY <2>1 DEF Cores
<1>2. core.stopped => UNCHANGED state
  BY WhoWrites DEF StoreAnswers, Live
<1>3. phase = "uncertain" => UNCHANGED phase
  BY UncertainStays
<1>4. CASE StageMoves
  BY <1>1, <1>2, <1>3, <1>4, StagesAndControls, StopperKnown DEF StageMoves
<1>5. CASE ControlMoves
  BY <1>1, <1>2, <1>3, <1>5, StagesAndControls, StopperKnown DEF ControlMoves
<1>6. CASE EndMoves
  BY <1>1, <1>2, <1>3, <1>6, StopsOnRecord, StopperKnown DEF EndMoves
<1>7. CASE JobMoves
  BY <1>1, <1>2, <1>3, <1>7, PoisonsWhenUncertain, StopperKnown DEF JobMoves
<1>8. CASE UNCHANGED <<core, stopping, stopper>>
  BY <1>1, <1>2, <1>3, <1>8, StopperKnown
<1>9. CASE (Pause \/ StopDelivery) /\ UNCHANGED stopper
  <2>1. core' = Fenced(core) /\ stopping'.failed = stopping.failed
    BY <1>9 DEF Pause, StopDelivery, Stop, Inv, TypeOK, Stops
  <2>2. core'.stopped = core.stopped
    BY <2>1, CoreFenced DEF Inv, TypeOK
  <2> QED BY <1>1, <1>2, <1>3, <1>9, <2>1, <2>2 DEF StopperStands
<1>10. CASE StoreMoves \/ ActorMoves
  <2>1. UNCHANGED <<core, stopping, stopper>>
    BY <1>10 DEF StoreMoves, StoreStep, StoreAccepts, StoreWrites, StoreRefuses, StoreAnswers,
                 ActorMoves, ActorEnds, owner
  <2> QED BY <2>1, <1>8
<1>11. CASE (Fault \/ Call) /\ UNCHANGED stopper
  <2>1. UNCHANGED <<core, stopping>> \/ Pause
    BY <1>11 DEF Fault, StoreFails, OwnerLost, Call, Launch, Resume, owner
  <2> QED BY <1>11, <2>1, <1>8, <1>9
<1>12. CASE (Tamper \/ \E kind \in Kinds : Ask(kind)) /\ UNCHANGED stopper
  BY <1>12, <1>8 DEF Tamper, Ask, owner
<1>13. CASE UNCHANGED allVars
  BY <1>13, <1>8 DEF allVars, vars, owner
<1> QED BY <1>4, <1>5, <1>6, <1>7, <1>9, <1>10, <1>11, <1>12, <1>13 DEF Next

(* A job is taken up again only where a pause left it, once for each pause, and pays for every
   attempt; a stop that reports no failure has the end on disk, unless a seal, a control or a
   delivery that is now uncertain had stopped the core before it. *)
THEOREM ControlsAreOnRecord == Spec => []ControlsOnRecord
<1>1. DeliveryInit => StopperStands
  BY DEF DeliveryInit, Init, StopperStands
<1>2. Inv /\ StopperStands /\ [Next]_allVars => StopperStands'
  BY StopperKept
<1>3. Inv /\ StopperStands => StopIsRecorded
  <2>1. SUFFICES ASSUME Inv, StopperStands, stopping.at = "stopped"
                 PROVE  store.closed /\ StopIsRecorded
    BY DEF StopIsRecorded
  <2>2. ~stopping.failed /\ store.closed /\ core.stopped /\ save.at = "none"
    BY <2>1 DEF Inv, DeliveryStands, ModesStand
  <2>3. OnDisk("STOPPED") => state.phase = "STOPPED"
    BY <2>1, <2>2 DEF Inv, DeliveryStands, EndStands
  <2>4. state.phase \in Terminal => state.revision = Len(journal)
    BY <2>1 DEF Inv, DeliveryStands, CountsStand
  <2>5. \/ stopper \in {"seal", "control"} \/ (stopper = "delivery" /\ phase = "uncertain")
        \/ state.phase \in Terminal
    BY <2>1, <2>2 DEF StopperStands
  <2> QED BY <2>2, <2>3, <2>4, <2>5 DEF StopIsRecorded, Terminal
<1>4. Inv /\ StopperStands => ControlsOnRecord
  BY <1>3 DEF Inv, ControlsOnRecord, TakenUpOnce
<1>5. Spec => []StopperStands
  BY <1>1, <1>2, AlwaysStands, PTL DEF Spec
<1> QED BY <1>4, <1>5, AlwaysStands, PTL

(* Who asks for a record, or has one accepted. *)
LEMMA WhoAsks ==
  ASSUME TypeOK, [Next]_allVars, save' # save, save'.at \in {"asked", "appending"}
  PROVE  \/ StoreAccepts \/ OpCommits \/ OpConcludes
         \/ PauseRecords \/ ResumeRecords \/ StopRecords \/ JobRecords
<1>1. CASE StoreStep /\ UNCHANGED deliveryVars
  <2>1. ~StoreWrites /\ ~StoreRefuses /\ ~StoreAnswers
    BY SaveGoes DEF StoreWrites, StoreRefuses, StoreAnswers
  <2> QED BY <1>1, <2>1 DEF StoreStep
<1>2. CASE OpStep /\ UNCHANGED deliveryVars
  <2>1. (\E i \in DOMAIN ops : Enqueues(i)) \/ OpRefused \/ OpCloses \/ OpCloseFails \/
           OpOutdated => UNCHANGED save
    BY DEF Enqueues, OpRefused, OpCloses, OpCloseFails, OpOutdated, disk
  <2>2. OpProceeds \/ OpFails \/ OpEnds => save' = NoSave
    BY DEF OpProceeds, OpFails, OpEnds
  <2> QED BY <1>2, <2>1, <2>2 DEF OpStep, NoSave
<1>3. CASE ControlStep /\ UNCHANGED deliveryVars
  BY <1>3 DEF ControlStep, PauseDrains, PauseDrained, ControlSaved, Paused, ResumeRefused,
              ResumeStarts, ResumeConsumes, Resumed, ControlFails, ControlCleaned, disk, NoSave
<1>4. CASE EndStep
  BY <1>4 DEF EndStep, StopStep, StopDrains, StopSaved, StopFails, StopEnds, CoreCloses,
              StopAwaits, StopWaits, StopCloses, disk, NoSave
<1>5. CASE JobStep
  BY <1>5 DEF JobStep, JobStarts, JobRefused, JobProves, JobSaved, JobFinalizes, JobPrepares,
              WriterWrites, JobMarks, JobCompletes, JobFails, CoreStays, disk, NoSave
<1>6. CASE (ActorEnds \/ Fault \/ Call) /\ UNCHANGED deliveryVars
  <2>1. ~StoreFails
    BY SaveGoes DEF StoreFails
  <2> QED BY <1>6, <2>1 DEF ActorEnds, Fault, OwnerLost, Call, Launch, Pause, Resume, disk
<1>7. CASE StopDelivery \/ Tamper \/ \E kind \in Kinds : Ask(kind)
  BY <1>7 DEF StopDelivery, Stop, Tamper, Ask, disk
<1>8. CASE UNCHANGED allVars
  BY <1>8 DEF allVars, vars, disk
<1> QED BY <1>1, <1>2, <1>3, <1>4, <1>5, <1>6, <1>7, <1>8
       DEF Next, StoreMoves, StageMoves, ControlMoves, EndMoves, JobMoves, ActorMoves

(* What a stop or a failure has ended goes on nowhere: an uncertain delivery stays as it is, a
   stopped one writes no file more, and a fenced stage or delivery gets no record. *)
THEOREM DeliveriesHalt == Spec => DeliveryHalts
<1>2. ASSUME [Next]_allVars, halted \/ ~Owned
      PROVE  UNCHANGED <<output, accepted, qualified>>
  <2>1. ~WriterWrites /\ ~JobFinalizes
    BY <1>2 DEF WriterWrites, Guarded, JobFinalizes, Checks, QualificationIdle, Alive, Live
  <2> QED BY <1>2, <2>1, WhoWrites
<1>3. ASSUME Inv, [Next]_allVars, mode # "active", save' # save, save'.at \in {"asked", "appending"}
      PROVE  save'.for \in {"control", "stop"}
  <2>1. ~OpCommits
    <3>1. SUFFICES ASSUME OpCommits
                   PROVE  FALSE
      OBVIOUS
    <3>2. ops # <<>> /\ Op.at \in {"queued", "closing"} /\ Live(Op.epoch)
      BY <3>1 DEF OpCommits, OpAt, Admitted, Alive, Live
    <3> QED BY <1>3, <3>2, LivesInStep
  <2>2. ~OpConcludes
    <3>1. SUFFICES ASSUME OpConcludes
                   PROVE  FALSE
      OBVIOUS
    <3>2. ops # <<>> /\ Op.at = "acting" /\ Live(Op.epoch)
      BY <3>1 DEF OpConcludes, OpAt
    <3> QED BY <1>3, <3>2, LivesInStep
  <2>3. ~JobRecords
    BY <1>3 DEF JobRecords, Checks
  <2>4. CASE StoreAccepts
    <3>1. save.at = "asked" /\ save \in Commits
      BY <2>4, WhoWaits, <1>3 DEF StoreAccepts
    <3>2. save'.for = save.for /\ Live(save.epoch)
      BY <1>3, <2>4, <3>1 DEF StoreAccepts, Commits
    <3>3. save.for \notin {"op", "delivery"}
      BY <1>3, <3>1, <3>2 DEF Inv, DeliveryStands, SavesStand, Live
    <3> QED BY <3>1, <3>2, <3>3 DEF Commits
  <2>5. CASE PauseRecords \/ ResumeRecords
    BY <2>5 DEF PauseRecords, ResumeRecords, Commit
  <2>6. CASE StopRecords
    <3>1. Commit("stop", "STOPPED", "STOPPED", state.attempts, core.epoch)
      BY <1>3, <2>6 DEF StopRecords
    <3> QED BY <3>1 DEF Commit
  <2> QED BY <1>3, <2>1, <2>2, <2>3, <2>4, <2>5, <2>6, WhoAsks DEF Inv
<1>4. Inv /\ [Next]_allVars =>
        [phase = "uncertain" => UNCHANGED <<phase, journal, output, accepted, qualified>>]_allVars
  BY UncertainStays
<1>5. Inv /\ [Next]_allVars => [halted \/ ~Owned => UNCHANGED <<output, accepted,
        qualified>>]_allVars
  BY <1>2
<1>6. Inv /\ [Next]_allVars =>
        [(mode # "active" /\ save' # save /\ save'.at \in {"asked", "appending"}) =>
           save'.for \in {"control", "stop"}]_vars
  BY <1>3
<1>7. Spec => UncertainIsTheEnd
  BY <1>4, AlwaysStands, PTL DEF Spec, UncertainIsTheEnd
<1>8. Spec => StopEndsTheCopy
  BY <1>5, AlwaysStands, PTL DEF Spec, StopEndsTheCopy
<1>9. Spec => FencedIsQuiet
  BY <1>6, AlwaysStands, PTL DEF Spec, FencedIsQuiet
<1> QED BY <1>7, <1>8, <1>9 DEF DeliveryHalts
=============================================================================
