--------------------------- MODULE EvidenceProofs ---------------------------
(***************************************************************************)
(* EvidenceInv and ResultsKept of Evidence, proved for every set of keys,  *)
(* calls, capabilities and attestations, every lifetime and every bound;   *)
(* and, in the second half, LoopInv and LaunchesEarned of Iterate, which   *)
(* routes by such evidence, for any tasks, replies, sizes and bounds.      *)
(***************************************************************************)
EXTENDS Evidence, Iterate, SequenceTheorems, TLAPS
-----------------------------------------------------------------------------
(* The head of the store's queue and the rest of it. *)
LEMMA QueueTail ==
  ASSUME TypeOK, operations # <<>>
  PROVE  /\ Operation = operations[1] /\ Operation \in OperationType
         /\ Tail(operations) \in Seq(OperationType)
         /\ Len(operations) \in Nat \ {0}
         /\ DOMAIN operations = 1 .. Len(operations)
         /\ DOMAIN Tail(operations) = 1 .. Len(operations) - 1
         /\ \A i \in 1 .. Len(operations) - 1 :
              Tail(operations)[i] = operations[i + 1]
<1>1. operations \in Seq(OperationType)
  BY DEF TypeOK
<1> QED BY <1>1, HeadTailProperties, LenProperties, ElementOfSeq DEF Operation

(* A new operation goes to the end of a queue. *)
LEMMA QueueAppend ==
  ASSUME NEW q \in Seq(OperationType), NEW o \in OperationType
  PROVE  /\ Append(q, o) \in Seq(OperationType)
         /\ DOMAIN q = 1 .. Len(q) /\ Len(q) \in Nat
         /\ DOMAIN Append(q, o) = 1 .. Len(q) + 1
         /\ \A i \in 1 .. Len(q) : Append(q, o)[i] = q[i]
         /\ Append(q, o)[Len(q) + 1] = o
<1> QED BY AppendProperties, LenProperties

(* What the fields of a call's record are, by the place it stands at. *)
LEMMA ProbeTypes ==
  ASSUME TypeOK, NEW p \in Probers
  PROVE  /\ At(p, "idle") => probe[p] = NoProbe
         /\ At(p, "saving") => probe[p] \in SavingType
         /\ ~At(p, "idle") /\ ~At(p, "saving") => probe[p] \in CallType
         /\ Open(p) <=> ~At(p, "idle") /\ ~At(p, "saving")
         /\ ~At(p, "idle") => probe[p].key \in Keys
<1>1. probe[p] \in {NoProbe} \cup CallType \cup SavingType
  BY DEF TypeOK
<1>2. CASE probe[p] = NoProbe
  BY <1>2 DEF At, Open, NoProbe
<1>3. CASE probe[p] \in CallType
  BY <1>3 DEF At, Open, CallType
<1>4. CASE probe[p] \in SavingType
  BY <1>4 DEF At, Open, SavingType
<1> QED BY <1>1, <1>2, <1>3, <1>4

(* What the fields of an operation are, by its kind. *)
LEMMA OperationTypes ==
  ASSUME NEW o \in OperationType
  PROVE  /\ o.op \in {"read", "save", "entries", "remove"}
         /\ Asked(o.op) => o.by \in Probers /\ o.key \in Keys
         /\ o.op = "remove" => o.key \in Keys
<1> QED BY DEF OperationType, Asked
-----------------------------------------------------------------------------
(* A call that goes on, with its key and its revision, disturbs nothing. *)
LEMMA CallGoesOn ==
  ASSUME EvidenceInv, NEW p \in Probers, Open(p), NEW c \in CallType,
         Set(p, c), c.key = probe[p].key, c.revision = probe[p].revision,
         c.at = "reading" <=> At(p, "reading"),
         c.at = "probing" => Passed(c), c.at # "probing" => c.shown = {},
         c.tool => c.at \in {"disposing", "probing"} /\ c.calls = <<"child">>,
         UNCHANGED <<now, disk, revision, operations, forgetting, disposed, qualified, forgets, lost>>
  PROVE  EvidenceInv'
<1> USE DEF EvidenceInv
<1>1. /\ probe' \in [Probers -> {NoProbe} \cup CallType \cup SavingType]
      /\ \A q \in Probers : probe'[q] = IF q = p THEN c ELSE probe[q]
  BY DEF Set, TypeOK
<1>2. c.at \in {"reading", "starting", "running", "disposing", "probing"} /\ ~At(p, "idle") /\ ~At(p, "saving")
  BY ProbeTypes DEF CallType
<1>3. TypeOK'
  BY <1>1 DEF TypeOK
<1>4. EvidenceEarned'
  BY <1>1, <1>2 DEF EvidenceEarned, At, Open
<1>5. OnePerKey'
  BY <1>1, <1>2 DEF OnePerKey, At
<1>6. WhoAsksWaits'
  <2>1. \A i \in DOMAIN operations : operations[i] \in OperationType
    BY ElementOfSeq DEF TypeOK
  <2>2. ASSUME NEW i \in DOMAIN operations
        PROVE  LET o == operations[i] IN
                 /\ o.op = "read" => probe'[o.by].at = "reading" /\ probe'[o.by].key = o.key
                 /\ o.op = "save" => probe'[o.by].at = "saving" /\ probe'[o.by].key = o.key
    BY <1>1, <1>2, <2>1, OperationTypes DEF WhoAsksWaits, At, Asked
  <2> QED BY <2>2 DEF WhoAsksWaits, At
<1>7. RevisionStands'
  BY <1>1, <1>2 DEF RevisionStands, At
<1> QED BY <1>3, <1>4, <1>5, <1>6, <1>7

(* An operation of the store belongs to a call that waits for it. *)
LEMMA NobodyAsked ==
  ASSUME EvidenceInv, NEW p \in Probers, ~At(p, "reading"), ~At(p, "saving"),
         NEW i \in DOMAIN operations, Asked(operations[i].op)
  PROVE  operations[i].by # p
<1> QED BY DEF EvidenceInv, WhoAsksWaits, Asked

(* A call that hands what it found to the store: what it found is earned, its revision is
   that of its key, and no deletion of that key is in the queue. *)
LEMMA CallCloses ==
  ASSUME EvidenceInv, NEW p \in Probers, Open(p), ~At(p, "reading"), NEW c \in CallType,
         Closing(c, p), c.key = probe[p].key, c.revision = probe[p].revision,
         c.shown # {} => Passed(c),
         UNCHANGED <<now, disk, revision, forgetting, disposed, qualified, forgets, lost>>
  PROVE  EvidenceInv'
<1> USE DEF EvidenceInv
<1> DEFINE s == [at |-> "saving", key |-> c.key, revision |-> c.revision, record |-> RecordOf(c)]
           o == [op |-> "save", by |-> p, key |-> c.key]
<1>1. probe' = [probe EXCEPT ![p] = s] /\ operations' = Append(operations, o)
  BY DEF Closing, Set
<1>2. ~At(p, "idle") /\ ~At(p, "saving") /\ c.key \in Keys
  BY ProbeTypes DEF CallType
<1>3. c.revision = revision[c.key] /\ c.revision \in Nat
  BY <1>2 DEF RevisionStands, TypeOK
<1>4. RecordOf(c) \in RecordType /\ Earned(RecordOf(c))
  <2>1. Lifetime \in Nat /\ MaxTime \in Nat
    BY EvidenceAssumption
  <2>2. c.issuedAt \in -Lifetime .. MaxTime
    BY <2>1 DEF CallType
  <2>3. Passed(c) \in BOOLEAN /\ (c.attested /\ Passed(c)) \in BOOLEAN /\ c.shown \in SUBSET Capabilities
    BY DEF Passed, CallType
  <2> QED BY <2>2, <2>3 DEF RecordOf, RecordType, Earned
<1>5. s \in SavingType /\ o \in OperationType
  BY <1>2, <1>3, <1>4 DEF SavingType, OperationType
<1>6. operations \in Seq(OperationType)
  BY DEF TypeOK
<1>7. /\ operations' \in Seq(OperationType)
      /\ DOMAIN operations = 1 .. Len(operations) /\ Len(operations) \in Nat
      /\ DOMAIN operations' = 1 .. Len(operations) + 1
      /\ \A i \in 1 .. Len(operations) : operations'[i] = operations[i]
      /\ operations'[Len(operations) + 1] = o
  BY <1>1, <1>5, <1>6, QueueAppend
<1>8. /\ probe' \in [Probers -> {NoProbe} \cup CallType \cup SavingType]
      /\ \A q \in Probers : probe'[q] = IF q = p THEN s ELSE probe[q]
  BY <1>1, <1>5 DEF TypeOK
<1>9. /\ s.at = "saving" /\ s.key = c.key /\ s.revision = c.revision /\ s.record = RecordOf(c)
      /\ o.op = "save" /\ o.by = p /\ o.key = c.key
  OBVIOUS
<1> HIDE DEF s, o
<1>10. TypeOK'
  BY <1>7, <1>8 DEF TypeOK
<1>11. EvidenceEarned'
  BY <1>4, <1>8, <1>9 DEF EvidenceEarned, At, Open
<1>12. OnePerKey'
  BY <1>2, <1>8, <1>9 DEF OnePerKey, At
<1>13. WhoAsksWaits'
  <2>1. \A i \in DOMAIN operations : operations[i] \in OperationType
    BY <1>6, ElementOfSeq
  <2>2. ASSUME NEW i \in DOMAIN operations, Asked(operations[i].op)
        PROVE  operations[i].by \in Probers /\ operations[i].by # p
    BY <1>2, <2>1, <2>2, NobodyAsked, OperationTypes
  <2>3. ASSUME NEW i \in DOMAIN operations'
        PROVE  LET q == operations'[i] IN
                 /\ q.op = "read" => probe'[q.by].at = "reading" /\ probe'[q.by].key = q.key
                 /\ q.op = "save" => probe'[q.by].at = "saving" /\ probe'[q.by].key = q.key
                 /\ q.op = "entries" => forgetting'.at = "listing"
                 /\ q.op = "remove" => forgetting'.at = "removing"
    <3>1. CASE i \in DOMAIN operations
      BY <1>7, <1>8, <2>2, <3>1 DEF WhoAsksWaits, At, Asked
    <3>2. CASE i = Len(operations) + 1
      BY <1>7, <1>8, <1>9, <3>2 DEF At
    <3> QED BY <1>7, <3>1, <3>2
  <2>4. ASSUME NEW i \in DOMAIN operations', NEW j \in DOMAIN operations',
               \/ /\ Asked(operations'[i].op) /\ Asked(operations'[j].op)
                  /\ operations'[i].by = operations'[j].by
               \/ Deleting(operations'[i].op) /\ Deleting(operations'[j].op)
        PROVE  i = j
    <3>1. CASE i \in DOMAIN operations /\ j \in DOMAIN operations
      BY <1>7, <2>4, <3>1 DEF WhoAsksWaits
    <3>2. CASE i \in DOMAIN operations /\ j = Len(operations) + 1
      BY <1>7, <1>9, <2>2, <2>4, <3>2 DEF Deleting
    <3>3. CASE j \in DOMAIN operations /\ i = Len(operations) + 1
      BY <1>7, <1>9, <2>2, <2>4, <3>3 DEF Deleting
    <3> QED BY <1>7, <3>1, <3>2, <3>3
  <2> QED BY <2>3, <2>4 DEF WhoAsksWaits, At, Asked, Deleting
<1>14. RevisionStands'
  <2>1. ASSUME NEW q \in Probers, ~At(q, "idle")', ~At(q, "reading")'
        PROVE  /\ probe'[q].revision = revision'[probe'[q].key]
               /\ \A i \in DOMAIN operations' :
                    operations'[i].op = "remove" => operations'[i].key # probe'[q].key
    BY <1>2, <1>3, <1>7, <1>8, <1>9, <2>1 DEF RevisionStands, At
  <2>2. ASSUME NEW i \in DOMAIN operations', NEW j \in DOMAIN operations',
               operations'[i].op = "remove", operations'[j].op = "read",
               operations'[i].key = operations'[j].key
        PROVE  i < j
    BY <1>7, <1>9, <2>2 DEF RevisionStands
  <2> QED BY <2>1, <2>2 DEF RevisionStands, At
<1> QED BY <1>10, <1>11, <1>12, <1>13, <1>14

(* A store operation that a call waits for is answered, and the call returns; what the
   answer leaves on disk for its key is earned, and a revision only grows from what it was. *)
LEMMA CallReturns ==
  ASSUME EvidenceInv, operations # <<>>, Asked(Operation.op),
         operations' = Tail(operations), Set(Operation.by, NoProbe),
         disk' \in [Keys -> {None} \cup RecordType], revision' \in [Keys -> Nat],
         \A k \in Keys : disk'[k] = None <=> revision'[k] = 0,
         \A k \in Keys : disk'[k] # None => Earned(disk'[k]),
         \A k \in Keys \ {Operation.key} : revision'[k] = revision[k],
         lost' \subseteq {"conflict", "deletion", "overtaken"},
         forgetting' \in ForgetType, forgetting'.at = forgetting.at, UNCHANGED now
  PROVE  EvidenceInv'
<1> USE DEF EvidenceInv
<1> DEFINE n == Len(operations)
<1>1. /\ Operation = operations[1] /\ Operation \in OperationType
      /\ operations' \in Seq(OperationType)
      /\ n \in Nat \ {0} /\ DOMAIN operations = 1 .. n /\ DOMAIN operations' = 1 .. n - 1
      /\ \A i \in 1 .. n - 1 : operations'[i] = operations[i + 1]
  BY QueueTail
<1>2. PICK p \in Probers : p = Operation.by
  BY <1>1, OperationTypes
<1>3. /\ probe' \in [Probers -> {NoProbe} \cup CallType \cup SavingType]
      /\ \A q \in Probers : probe'[q] = IF q = p THEN NoProbe ELSE probe[q]
  BY <1>2 DEF TypeOK, Set
<1>4. ~At(p, "idle") /\ probe[p].key = Operation.key
  BY <1>1, <1>2 DEF WhoAsksWaits, Asked, At
<1>5. NoProbe.at = "idle"
  BY DEF NoProbe
<1> HIDE DEF n
<1>6. TypeOK'
  BY <1>1, <1>3 DEF TypeOK
<1>7. EvidenceEarned'
  BY <1>3, <1>5 DEF EvidenceEarned, At, Open
<1>8. OnePerKey'
  BY <1>3, <1>5 DEF OnePerKey, At
<1>9. ASSUME NEW i \in 1 .. n - 1
      PROVE  /\ i + 1 \in DOMAIN operations /\ 1 \in DOMAIN operations
             /\ Asked(operations[i + 1].op) => operations[i + 1].by \in Probers \ {p}
  <2>1. i + 1 \in DOMAIN operations /\ 1 \in DOMAIN operations /\ i + 1 # 1
    BY <1>1
  <2>2. operations[i + 1] \in OperationType
    BY <2>1, ElementOfSeq DEF TypeOK
  <2> QED BY <1>1, <1>2, <2>1, <2>2, OperationTypes DEF WhoAsksWaits
<1>10. WhoAsksWaits'
  <2>1. ASSUME NEW i \in DOMAIN operations'
        PROVE  LET q == operations'[i] IN
                 /\ q.op = "read" => probe'[q.by].at = "reading" /\ probe'[q.by].key = q.key
                 /\ q.op = "save" => probe'[q.by].at = "saving" /\ probe'[q.by].key = q.key
                 /\ q.op = "entries" => forgetting'.at = "listing"
                 /\ q.op = "remove" => forgetting'.at = "removing"
    BY <1>1, <1>3, <1>9 DEF WhoAsksWaits, At, Asked
  <2>2. ASSUME NEW i \in DOMAIN operations', NEW j \in DOMAIN operations',
               \/ /\ Asked(operations'[i].op) /\ Asked(operations'[j].op)
                  /\ operations'[i].by = operations'[j].by
               \/ Deleting(operations'[i].op) /\ Deleting(operations'[j].op)
        PROVE  i = j
    <3>1. i + 1 = j + 1
      BY <1>1, <1>9, <2>2 DEF WhoAsksWaits
    <3> QED BY <1>1, <3>1
  <2> QED BY <2>1, <2>2 DEF WhoAsksWaits, At, Asked, Deleting
<1>11. RevisionStands'
  <2>1. ASSUME NEW q \in Probers, ~At(q, "idle")', ~At(q, "reading")'
        PROVE  /\ probe'[q].revision = revision'[probe'[q].key]
               /\ \A i \in DOMAIN operations' :
                    operations'[i].op = "remove" => operations'[i].key # probe'[q].key
    <3>1. q # p /\ ~At(q, "idle") /\ ~At(q, "reading") /\ probe'[q] = probe[q]
      BY <1>3, <1>5, <2>1 DEF At
    <3>2. probe[q].key \in Keys \ {Operation.key}
      BY <1>4, <3>1, ProbeTypes DEF OnePerKey
    <3>3. probe'[q].revision = revision'[probe'[q].key]
      BY <1>1, <1>9, <3>1, <3>2 DEF RevisionStands
    <3>4. ASSUME NEW i \in DOMAIN operations', operations'[i].op = "remove"
          PROVE  operations'[i].key # probe'[q].key
      BY <1>1, <1>9, <3>1, <3>4 DEF RevisionStands
    <3> QED BY <3>3, <3>4
  <2>2. ASSUME NEW i \in DOMAIN operations', NEW j \in DOMAIN operations',
               operations'[i].op = "remove", operations'[j].op = "read",
               operations'[i].key = operations'[j].key
        PROVE  i < j
    <3>1. i + 1 < j + 1
      BY <1>1, <1>9, <2>2 DEF RevisionStands
    <3> QED BY <1>1, <3>1
  <2> QED BY <2>1, <2>2 DEF RevisionStands, At
<1> QED BY <1>6, <1>7, <1>8, <1>10, <1>11
-----------------------------------------------------------------------------
(* What a deletion leaves of the queue are questions of calls, in their order. *)
LEMMA RestIsAsked ==
  ASSUME EvidenceInv, operations # <<>>, Deleting(Operation.op)
  PROVE  /\ Tail(operations) \in Seq(OperationType)
         /\ Len(Tail(operations)) \in Nat
         /\ DOMAIN Tail(operations) = 1 .. Len(Tail(operations))
         /\ \A i \in DOMAIN Tail(operations) : LET o == Tail(operations)[i] IN
              /\ o.op \in {"read", "save"} /\ o.by \in Probers
              /\ o.op = "read" => At(o.by, "reading") /\ probe[o.by].key = o.key
              /\ o.op = "save" => At(o.by, "saving") /\ probe[o.by].key = o.key
         /\ \A i, j \in DOMAIN Tail(operations) :
              Tail(operations)[i].by = Tail(operations)[j].by => i = j
<1> USE DEF EvidenceInv
<1> DEFINE n == Len(operations)
           t == Tail(operations)
<1>1. /\ Operation = operations[1] /\ t \in Seq(OperationType)
      /\ n \in Nat \ {0} /\ DOMAIN operations = 1 .. n /\ DOMAIN t = 1 .. n - 1
      /\ \A i \in 1 .. n - 1 : t[i] = operations[i + 1]
  BY QueueTail
<1>2. Len(t) = n - 1
  BY <1>1, LenProperties
<1> HIDE DEF n, t
<1>3. ASSUME NEW i \in 1 .. n - 1
      PROVE  /\ i + 1 \in DOMAIN operations
             /\ operations[i + 1].op \in {"read", "save"} /\ operations[i + 1].by \in Probers
  <2>1. i + 1 \in DOMAIN operations /\ 1 \in DOMAIN operations /\ i + 1 # 1
    BY <1>1
  <2>2. operations[i + 1] \in OperationType
    BY <2>1, ElementOfSeq DEF TypeOK
  <2>3. ~Deleting(operations[i + 1].op)
    BY <1>1, <2>1 DEF WhoAsksWaits
  <2> QED BY <2>1, <2>2, <2>3, OperationTypes DEF Deleting, Asked
<1>4. ASSUME NEW i \in DOMAIN t
      PROVE  /\ t[i].op \in {"read", "save"} /\ t[i].by \in Probers
             /\ t[i].op = "read" => At(t[i].by, "reading") /\ probe[t[i].by].key = t[i].key
             /\ t[i].op = "save" => At(t[i].by, "saving") /\ probe[t[i].by].key = t[i].key
  BY <1>1, <1>3 DEF WhoAsksWaits
<1>5. ASSUME NEW i \in DOMAIN t, NEW j \in DOMAIN t, t[i].by = t[j].by
      PROVE  i = j
  <2>1. i + 1 = j + 1
    BY <1>1, <1>3, <1>5, SMTT(30) DEF WhoAsksWaits, Asked
  <2> QED BY <1>1, <2>1
<1> QED BY <1>1, <1>2, <1>4, <1>5 DEF t

(* A deletion whose operation is answered goes on to the next record, or ends: neither
   comes between a call and its key. *)
LEMMA DeletionGoesOn ==
  ASSUME EvidenceInv, operations # <<>>, Deleting(Operation.op),
         NEW sweep \in ForgetType, sweep.at = "removing", RemoveNext(sweep, Tail(operations)),
         disk' \in [Keys -> {None} \cup RecordType], revision' \in [Keys -> Nat],
         \A k \in Keys : disk'[k] = None <=> revision'[k] = 0,
         \A k \in Keys : disk'[k] # None => disk'[k] = disk[k],
         \A k \in Keys :
           revision'[k] = revision[k] \/ (Operation.op = "remove" /\ Operation.key = k),
         lost' \subseteq {"conflict", "deletion", "overtaken"}, UNCHANGED <<now, probe>>
  PROVE  EvidenceInv'
<1> USE DEF EvidenceInv
<1> DEFINE t == Tail(operations)
           m == Len(t)
<1>1. /\ t \in Seq(OperationType) /\ m \in Nat /\ DOMAIN t = 1 .. m
      /\ \A i \in 1 .. m :
           /\ t[i].op \in {"read", "save"} /\ t[i].by \in Probers
           /\ t[i].op = "read" => At(t[i].by, "reading") /\ probe[t[i].by].key = t[i].key
           /\ t[i].op = "save" => At(t[i].by, "saving") /\ probe[t[i].by].key = t[i].key
      /\ \A i, j \in 1 .. m : t[i].by = t[j].by => i = j
  BY RestIsAsked
<1>2. \A q \in Probers : ~At(q, "idle") /\ ~At(q, "reading") =>
        probe[q].revision = revision'[probe[q].key]
  <2> SUFFICES ASSUME NEW q \in Probers, ~At(q, "idle"), ~At(q, "reading")
               PROVE  probe[q].revision = revision'[probe[q].key]
    OBVIOUS
  <2>1. 1 \in DOMAIN operations /\ Operation = operations[1]
    BY QueueTail
  <2>2. probe[q].key \in Keys
    BY ProbeTypes
  <2> QED BY <2>1, <2>2 DEF RevisionStands
<1> HIDE DEF m, t
<1>3. EvidenceEarned'
  BY DEF EvidenceEarned, At, Open
<1>4. OnePerKey'
  BY DEF OnePerKey, At
<1>5. CASE forgetting' = NoForget /\ operations' = t
  <2>1. TypeOK'
    BY <1>1, <1>5 DEF TypeOK, ForgetType
  <2>2. WhoAsksWaits'
    BY <1>1, <1>5 DEF WhoAsksWaits, At, Asked, Deleting
  <2>3. RevisionStands'
    BY <1>1, <1>2, <1>5 DEF RevisionStands, At
  <2> QED BY <1>3, <1>4, <2>1, <2>2, <2>3
<1>6. ASSUME NEW k \in sweep.left, k \notin Busy,
             forgetting' = [sweep EXCEPT !.left = @ \ {k}],
             operations' = Append(t, [op |-> "remove", key |-> k])
      PROVE  EvidenceInv'
  <2> DEFINE o == [op |-> "remove", key |-> k]
  <2>0. sweep \in [at : {"removing"}, left : SUBSET Keys, all : BOOLEAN, since : 0 .. MaxTime,
                   renewed : SUBSET Keys]
    BY DEF ForgetType, NoForget
  <2>1. o \in OperationType /\ o.op = "remove" /\ o.key = k
    BY <2>0 DEF OperationType
  <2>2. forgetting' \in ForgetType /\ forgetting'.at = "removing"
    BY <1>6, <2>0 DEF ForgetType
  <2>3. /\ operations' \in Seq(OperationType)
        /\ DOMAIN operations' = 1 .. m + 1
        /\ \A i \in 1 .. m : operations'[i] = t[i]
        /\ operations'[m + 1] = o
    BY <1>1, <1>6, <2>1, QueueAppend DEF m
  <2>4. \A q \in Probers : ~At(q, "idle") => probe[q].key # k
    BY <1>6 DEF Busy, At
  <2> HIDE DEF o
  <2>5. TypeOK'
    BY <2>2, <2>3 DEF TypeOK
  <2>6. WhoAsksWaits'
    <3>1. ASSUME NEW i \in DOMAIN operations'
          PROVE  LET q == operations'[i] IN
                   /\ q.op = "read" => probe'[q.by].at = "reading" /\ probe'[q.by].key = q.key
                   /\ q.op = "save" => probe'[q.by].at = "saving" /\ probe'[q.by].key = q.key
                   /\ q.op = "entries" => forgetting'.at = "listing"
                   /\ q.op = "remove" => forgetting'.at = "removing"
      BY <1>1, <2>1, <2>2, <2>3 DEF WhoAsksWaits, At, Deleting
    <3>2. ASSUME NEW i \in DOMAIN operations', NEW j \in DOMAIN operations',
                 \/ /\ Asked(operations'[i].op) /\ Asked(operations'[j].op)
                    /\ operations'[i].by = operations'[j].by
                 \/ Deleting(operations'[i].op) /\ Deleting(operations'[j].op)
          PROVE  i = j
      BY <1>1, <2>1, <2>3, <3>2 DEF WhoAsksWaits, Asked, Deleting
    <3> QED BY <3>1, <3>2 DEF WhoAsksWaits, At
  <2>7. ASSUME NEW q \in Probers, ~At(q, "idle"), NEW i \in DOMAIN operations',
               operations'[i].op = "remove"
        PROVE  operations'[i].key # probe[q].key
    BY <1>1, <2>1, <2>3, <2>4, <2>7
  <2>8. ASSUME NEW i \in DOMAIN operations', NEW j \in DOMAIN operations',
               operations'[i].op = "remove", operations'[j].op = "read",
               operations'[i].key = operations'[j].key
        PROVE  FALSE
    <3>1. j \in 1 .. m /\ t[j].op = "read"
      BY <1>1, <2>1, <2>3, <2>8
    <3>2. ~At(t[j].by, "idle") /\ probe[t[j].by].key = operations'[j].key /\ t[j].by \in Probers
      BY <1>1, <2>3, <3>1 DEF At
    <3> QED BY <2>7, <2>8, <3>2
  <2>9. RevisionStands'
    BY <1>2, <2>7, <2>8 DEF RevisionStands, At
  <2> QED BY <1>3, <1>4, <2>5, <2>6, <2>9
<1> QED BY <1>5, <1>6 DEF RemoveNext, t
-----------------------------------------------------------------------------
(* The initial states, in which nothing is under way. *)
LEMMA InitEvidence == Init => EvidenceInv /\ ResultsKept
<1> SUFFICES ASSUME Init
             PROVE  EvidenceInv /\ ResultsKept
  OBVIOUS
<1> USE DEF Init
<1>1. Lifetime \in Nat \ {0} /\ MaxTime \in Nat
  BY EvidenceAssumption
<1>2. \A t \in {-Lifetime, 1 - Lifetime} :
        Saved(t) \in RecordType /\ Saved(t) # None /\ Earned(Saved(t))
  <2> TAKE t \in {-Lifetime, 1 - Lifetime}
  <2>1. Saved(t).issuedAt = t /\ None.issuedAt = -2 * Lifetime /\ t # -2 * Lifetime
    BY <1>1 DEF Saved, None
  <2>2. Saved(t) \in RecordType
    BY <1>1 DEF Saved, RecordType
  <2>3. Earned(Saved(t))
    BY DEF Saved, Earned
  <2> QED BY <2>1, <2>2, <2>3
<1>3. \A k \in Keys : disk[k] # None => disk[k] \in RecordType /\ Earned(disk[k])
  BY <1>2
<1>4. NoProbe.at = "idle"
  BY DEF NoProbe
<1>5. DOMAIN operations = {}
  OBVIOUS
<1>6. TypeOK
  <2>1. disk \in [Keys -> {None} \cup RecordType] /\ revision \in [Keys -> Nat]
    BY <1>3
  <2>2. operations \in Seq(OperationType)
    BY EmptySeq
  <2> QED BY <1>1, <2>1, <2>2 DEF TypeOK, ForgetType
<1>7. EvidenceEarned
  BY <1>3, <1>4 DEF EvidenceEarned, At, Open
<1>8. OnePerKey /\ WhoAsksWaits /\ RevisionStands
  BY <1>4, <1>5 DEF OnePerKey, WhoAsksWaits, RevisionStands, At
<1>9. ResultsKept
  BY DEF ResultsKept, DeletionsAreDue, NoForget
<1> QED BY <1>6, <1>7, <1>8, <1>9 DEF EvidenceInv

(* qualify(): its key is free, and its read is behind every deletion of that key. *)
LEMMA QualifyPreserves ==
  ASSUME EvidenceInv, NEW p \in Probers, NEW k \in Keys, NEW wanted \in SUBSET Capabilities,
         NEW a \in Attestations, Qualify(p, k, wanted, a)
  PROVE  EvidenceInv'
<1> USE DEF EvidenceInv
<1> DEFINE c == [at |-> "reading", key |-> k, wanted |-> wanted, attested |-> Widens(a),
                 issuedAt |-> now, revision |-> -1, calls |-> <<>>,
                 aborted |-> FALSE, transport |-> FALSE, text |-> FALSE, tool |-> FALSE,
                 shown |-> {}]
           o == [op |-> "read", by |-> p, key |-> k]
           n == Len(operations)
<1>1. c \in CallType
  <2>1. Widens(a) \in BOOLEAN
    BY EvidenceAssumption DEF Widens
  <2>2. <<>> \in Seq({"child", "other"})
    BY EmptySeq
  <2> QED BY <2>1, <2>2 DEF CallType, TypeOK
<1>2. o \in OperationType
  BY DEF OperationType
<1>3. /\ probe' \in [Probers -> {NoProbe} \cup CallType \cup SavingType]
      /\ \A q \in Probers : probe'[q] = IF q = p THEN c ELSE probe[q]
  BY <1>1 DEF Qualify, Set, TypeOK
<1>4. /\ operations \in Seq(OperationType) /\ operations' \in Seq(OperationType)
      /\ DOMAIN operations = 1 .. n /\ n \in Nat
      /\ DOMAIN operations' = 1 .. n + 1
      /\ \A i \in 1 .. n : operations'[i] = operations[i]
      /\ operations'[n + 1] = o
  BY <1>2, QueueAppend DEF Qualify, TypeOK
<1>5. At(p, "idle") /\ \A q \in Probers : ~At(q, "idle") => probe[q].key # k
  BY DEF Qualify, FreeKey, Busy, At
<1>6. /\ c.at = "reading" /\ c.key = k /\ c.shown = {} /\ ~c.tool
      /\ o.op = "read" /\ o.by = p /\ o.key = k
  OBVIOUS
<1>7. UNCHANGED <<now, disk, revision, forgetting, lost>>
  BY DEF Qualify
<1> HIDE DEF c, o, n
<1>8. TypeOK'
  BY <1>3, <1>4, <1>7 DEF TypeOK
<1>9. EvidenceEarned'
  BY <1>3, <1>6, <1>7 DEF EvidenceEarned, At, Open
<1>10. OnePerKey'
  BY <1>3, <1>5, <1>6 DEF OnePerKey, At
<1>11. WhoAsksWaits'
  <2>1. \A i \in DOMAIN operations : operations[i] \in OperationType
    BY <1>4, ElementOfSeq
  <2>2. ASSUME NEW i \in DOMAIN operations, Asked(operations[i].op)
        PROVE  operations[i].by \in Probers /\ operations[i].by # p
    BY <1>5, <2>1, <2>2, NobodyAsked, OperationTypes DEF At
  <2>3. ASSUME NEW i \in DOMAIN operations'
        PROVE  LET q == operations'[i] IN
                 /\ q.op = "read" => probe'[q.by].at = "reading" /\ probe'[q.by].key = q.key
                 /\ q.op = "save" => probe'[q.by].at = "saving" /\ probe'[q.by].key = q.key
                 /\ q.op = "entries" => forgetting'.at = "listing"
                 /\ q.op = "remove" => forgetting'.at = "removing"
    <3>1. CASE i \in DOMAIN operations
      BY <1>3, <1>4, <1>7, <2>2, <3>1 DEF WhoAsksWaits, At, Asked
    <3>2. CASE i = n + 1
      BY <1>3, <1>4, <1>6, <3>2
    <3> QED BY <1>4, <3>1, <3>2
  <2>4. ASSUME NEW i \in DOMAIN operations', NEW j \in DOMAIN operations',
               \/ /\ Asked(operations'[i].op) /\ Asked(operations'[j].op)
                  /\ operations'[i].by = operations'[j].by
               \/ Deleting(operations'[i].op) /\ Deleting(operations'[j].op)
        PROVE  i = j
    <3>1. CASE i \in DOMAIN operations /\ j \in DOMAIN operations
      BY <1>4, <2>4, <3>1 DEF WhoAsksWaits
    <3>2. CASE i \in DOMAIN operations /\ j = n + 1
      BY <1>4, <1>6, <2>2, <2>4, <3>2 DEF Deleting
    <3>3. CASE j \in DOMAIN operations /\ i = n + 1
      BY <1>4, <1>6, <2>2, <2>4, <3>3 DEF Deleting
    <3> QED BY <1>4, <3>1, <3>2, <3>3
  <2> QED BY <2>3, <2>4 DEF WhoAsksWaits, At, Asked, Deleting
<1>12. RevisionStands'
  <2>1. ASSUME NEW q \in Probers, ~At(q, "idle")', ~At(q, "reading")'
        PROVE  /\ probe'[q].revision = revision'[probe'[q].key]
               /\ \A i \in DOMAIN operations' :
                    operations'[i].op = "remove" => operations'[i].key # probe'[q].key
    BY <1>3, <1>4, <1>6, <1>7, <2>1 DEF RevisionStands, At
  <2>2. ASSUME NEW i \in DOMAIN operations', NEW j \in DOMAIN operations',
               operations'[i].op = "remove", operations'[j].op = "read",
               operations'[i].key = operations'[j].key
        PROVE  i < j
    <3>1. i \in 1 .. n
      BY <1>4, <1>6, <2>2
    <3> QED BY <1>4, <2>2, <3>1 DEF RevisionStands
  <2> QED BY <2>1, <2>2 DEF RevisionStands, At
<1> QED BY <1>8, <1>9, <1>10, <1>11, <1>12

(* The revision a call reads is that of its key, and every deletion of that key that was
   asked for before it has been carried out. *)
LEMMA StoreReadsPreserves ==
  ASSUME EvidenceInv, StoreReads
  PROVE  EvidenceInv'
<1> USE DEF EvidenceInv
<1> DEFINE n == Len(operations)
           k == Operation.key
<1>1. /\ Operation = operations[1] /\ Operation \in OperationType /\ Operation.op = "read"
      /\ operations' \in Seq(OperationType)
      /\ n \in Nat \ {0} /\ DOMAIN operations = 1 .. n /\ DOMAIN operations' = 1 .. n - 1
      /\ operations' = Tail(operations)
      /\ \A i \in 1 .. n - 1 : operations'[i] = operations[i + 1]
  BY QueueTail DEF StoreReads, Pending
<1>2. PICK p \in Probers : p = Operation.by
  BY <1>1, OperationTypes DEF Asked
<1>3. At(p, "reading") /\ probe[p].key = k /\ k \in Keys
  BY <1>1, <1>2, OperationTypes DEF WhoAsksWaits, Asked
<1> DEFINE c == [probe[p] EXCEPT !.at = "starting", !.revision = revision[k]]
<1>4. /\ c \in CallType /\ c.at = "starting" /\ c.revision = revision[k]
      /\ c.key = k /\ c.shown = probe[p].shown /\ c.tool = probe[p].tool
  BY <1>3, ProbeTypes, ZenonT(40) DEF CallType, TypeOK, At
<1>5. /\ probe' \in [Probers -> {NoProbe} \cup CallType \cup SavingType]
      /\ \A q \in Probers : probe'[q] = IF q = p THEN c ELSE probe[q]
      /\ UNCHANGED <<now, disk, revision, forgetting, lost>>
  BY <1>2, <1>4 DEF StoreReads, Set, TypeOK
<1> HIDE DEF n, k, c
<1>6. TypeOK'
  BY <1>1, <1>5 DEF TypeOK
<1>7. EvidenceEarned'
  BY <1>3, <1>4, <1>5 DEF EvidenceEarned, At, Open
<1>8. OnePerKey'
  BY <1>3, <1>4, <1>5 DEF OnePerKey, At
<1>9. ASSUME NEW i \in 1 .. n - 1
      PROVE  /\ i + 1 \in DOMAIN operations /\ 1 \in DOMAIN operations
             /\ Asked(operations[i + 1].op) => operations[i + 1].by \in Probers \ {p}
  <2>1. i + 1 \in DOMAIN operations /\ 1 \in DOMAIN operations /\ i + 1 # 1
    BY <1>1
  <2>2. operations[i + 1] \in OperationType /\ Asked(operations[1].op)
    BY <1>1, <2>1, ElementOfSeq DEF TypeOK, Asked
  <2> QED BY <1>1, <1>2, <2>1, <2>2, OperationTypes DEF WhoAsksWaits
<1>10. WhoAsksWaits'
  <2>1. ASSUME NEW i \in DOMAIN operations'
        PROVE  LET q == operations'[i] IN
                 /\ q.op = "read" => probe'[q.by].at = "reading" /\ probe'[q.by].key = q.key
                 /\ q.op = "save" => probe'[q.by].at = "saving" /\ probe'[q.by].key = q.key
                 /\ q.op = "entries" => forgetting'.at = "listing"
                 /\ q.op = "remove" => forgetting'.at = "removing"
    BY <1>1, <1>5, <1>9 DEF WhoAsksWaits, At, Asked
  <2>2. ASSUME NEW i \in DOMAIN operations', NEW j \in DOMAIN operations',
               \/ /\ Asked(operations'[i].op) /\ Asked(operations'[j].op)
                  /\ operations'[i].by = operations'[j].by
               \/ Deleting(operations'[i].op) /\ Deleting(operations'[j].op)
        PROVE  i = j
    <3>1. i + 1 = j + 1
      BY <1>1, <1>9, <2>2 DEF WhoAsksWaits
    <3> QED BY <1>1, <3>1
  <2> QED BY <2>1, <2>2 DEF WhoAsksWaits, At, Asked, Deleting
<1>11. RevisionStands'
  <2>1. ASSUME NEW q \in Probers, ~At(q, "idle")', ~At(q, "reading")'
        PROVE  /\ probe'[q].revision = revision'[probe'[q].key]
               /\ \A i \in DOMAIN operations' :
                    operations'[i].op = "remove" => operations'[i].key # probe'[q].key
    <3>1. CASE q = p
      <4>1. \A i \in 1 .. n - 1 : operations[i + 1].op = "remove" => operations[i + 1].key # k
        <5> SUFFICES ASSUME NEW i \in 1 .. n - 1, operations[i + 1].op = "remove",
                            operations[i + 1].key = k
                     PROVE  FALSE
          OBVIOUS
        <5>1. i + 1 < 1
          BY <1>1, <1>9 DEF RevisionStands, k
        <5> QED BY <1>1, <5>1
      <4> QED BY <1>1, <1>4, <1>5, <3>1, <4>1
    <3>2. CASE q # p
      BY <1>1, <1>5, <1>9, <2>1, <3>2 DEF RevisionStands, At
    <3> QED BY <3>1, <3>2
  <2>2. ASSUME NEW i \in DOMAIN operations', NEW j \in DOMAIN operations',
               operations'[i].op = "remove", operations'[j].op = "read",
               operations'[i].key = operations'[j].key
        PROVE  i < j
    <3>1. i + 1 < j + 1
      BY <1>1, <1>9, <2>2 DEF RevisionStands
    <3> QED BY <1>1, <3>1
  <2> QED BY <2>1, <2>2 DEF RevisionStands, At
<1> QED BY <1>6, <1>7, <1>8, <1>10, <1>11

(* The save of a call meets the revision it has read, so that nothing is lost, what it leaves
   on disk is earned, and a deletion that is under way does not hear of it. *)
LEMMA StoreSavesPreserves ==
  ASSUME EvidenceInv, StoreSaves
  PROVE  /\ EvidenceInv' /\ UNCHANGED <<now, lost>> /\ operations' = Tail(operations)
         /\ \A k \in Keys : disk'[k] = disk[k] \/ k = Operation.key
         /\ forgetting' = IF forgetting.at = "removing"
                          THEN [forgetting EXCEPT !.renewed = @ \cup {Operation.key}]
                          ELSE forgetting
         /\ Operation.key \in Keys
<1> USE DEF EvidenceInv
<1> DEFINE p == Operation.by
           k == Operation.key
           r == probe[p].record
<1>1. /\ Operation = operations[1] /\ 1 \in DOMAIN operations
      /\ Operation \in OperationType /\ Operation.op = "save"
  BY QueueTail DEF StoreSaves, Pending
<1>2. /\ p \in Probers /\ k \in Keys
      /\ At(p, "saving") /\ probe[p].key = k /\ probe[p].revision = revision[k]
  BY <1>1, OperationTypes DEF WhoAsksWaits, RevisionStands, Asked, At
<1>3. /\ disk' = [disk EXCEPT ![k] = r] /\ revision' = [revision EXCEPT ![k] = @ + 1]
      /\ lost' = lost /\ operations' = Tail(operations) /\ Set(p, NoProbe) /\ UNCHANGED now
      /\ forgetting' = IF forgetting.at = "removing"
                       THEN [forgetting EXCEPT !.renewed = @ \cup {k}] ELSE forgetting
  BY <1>2 DEF StoreSaves
<1>4. probe[p] \in SavingType /\ r \in RecordType /\ Earned(r)
  BY <1>2, ProbeTypes DEF SavingType, EvidenceEarned
<1>5. r # None
  <2>1. None.issuedAt = -2 * Lifetime /\ Lifetime \in Nat \ {0}
    BY EvidenceAssumption DEF None
  <2>2. r.issuedAt >= -Lifetime
    BY <1>4, EvidenceAssumption DEF RecordType
  <2>3. r.issuedAt \in Int
    BY <1>4, EvidenceAssumption DEF RecordType
  <2> QED BY <2>1, <2>2, <2>3
<1> HIDE DEF r, k, p
<1>6. /\ disk' \in [Keys -> {None} \cup RecordType] /\ revision' \in [Keys -> Nat]
      /\ \A l \in Keys : disk'[l] = None <=> revision'[l] = 0
      /\ \A l \in Keys : disk'[l] # None => Earned(disk'[l])
      /\ \A l \in Keys \ {k} : revision'[l] = revision[l]
  BY <1>2, <1>3, <1>4, <1>5 DEF TypeOK, EvidenceEarned
<1>7. forgetting' \in ForgetType /\ forgetting'.at = forgetting.at
  <2>1. CASE forgetting.at = "removing"
    <3>1. forgetting \in [at : {"removing"}, left : SUBSET Keys, all : BOOLEAN,
                          since : 0 .. MaxTime, renewed : SUBSET Keys]
      BY <2>1 DEF TypeOK, ForgetType, NoForget
    <3> QED BY <1>2, <1>3, <2>1, <3>1 DEF ForgetType
  <2> QED BY <1>3, <2>1 DEF TypeOK
<1>8. EvidenceInv'
  <2>1. operations # <<>> /\ Asked(Operation.op) /\ lost \subseteq {"conflict", "deletion", "overtaken"}
    BY <1>1 DEF StoreSaves, Pending, Asked, TypeOK
  <2> QED BY <1>3, <1>6, <1>7, <2>1, CallReturns DEF p, k
<1>9. \A l \in Keys : disk'[l] = disk[l] \/ l = k
  BY <1>2, <1>3 DEF TypeOK
<1> QED BY <1>2, <1>3, <1>8, <1>9 DEF k

(* A call of the store that fails returns as well. *)
LEMMA FailurePreserves ==
  ASSUME EvidenceInv, ReadFails \/ SaveFails
  PROVE  EvidenceInv'
<1>1. /\ operations # <<>> /\ Asked(Operation.op) /\ operations' = Tail(operations)
      /\ Set(Operation.by, NoProbe)
      /\ UNCHANGED <<now, disk, revision, forgetting, lost>>
  BY DEF ReadFails, SaveFails, Pending, Asked
<1> QED BY <1>1, CallReturns DEF EvidenceInv, TypeOK, EvidenceEarned

(* forget() asks the store for its records; nobody else is deleting. *)
LEMMA ForgetPreserves ==
  ASSUME EvidenceInv, NEW all \in BOOLEAN, NEW routes \in SUBSET Keys, Forget(all, routes)
  PROVE  EvidenceInv'
<1> USE DEF EvidenceInv
<1> DEFINE n == Len(operations)
           o == [op |-> "entries"]
<1>1. /\ o \in OperationType /\ o.op = "entries"
  BY DEF OperationType
<1>2. /\ operations' \in Seq(OperationType)
      /\ DOMAIN operations = 1 .. n /\ n \in Nat
      /\ DOMAIN operations' = 1 .. n + 1
      /\ \A i \in 1 .. n : operations'[i] = operations[i]
      /\ operations'[n + 1] = o
      /\ operations' = Append(operations, o)
  BY <1>1, QueueAppend DEF Forget, TypeOK
<1>3. /\ forgetting.at = "idle" /\ forgetting'.at = "listing" /\ forgetting' \in ForgetType
      /\ UNCHANGED <<now, disk, revision, probe, lost>>
  BY DEF Forget, ForgetType, TypeOK
<1> HIDE DEF n, o
<1>4. TypeOK'
  BY <1>2, <1>3 DEF TypeOK
<1>5. EvidenceEarned' /\ OnePerKey'
  BY <1>3 DEF EvidenceEarned, OnePerKey, At, Open
<1>6. \A i \in 1 .. n : ~Deleting(operations[i].op)
  BY <1>2, <1>3 DEF WhoAsksWaits, Deleting
<1>7. WhoAsksWaits'
  <2>1. ASSUME NEW i \in DOMAIN operations'
        PROVE  LET q == operations'[i] IN
                 /\ q.op = "read" => probe'[q.by].at = "reading" /\ probe'[q.by].key = q.key
                 /\ q.op = "save" => probe'[q.by].at = "saving" /\ probe'[q.by].key = q.key
                 /\ q.op = "entries" => forgetting'.at = "listing"
                 /\ q.op = "remove" => forgetting'.at = "removing"
    <3>1. CASE i \in 1 .. n
      BY <1>2, <1>3, <1>6, <3>1 DEF WhoAsksWaits, At, Deleting
    <3>2. CASE i = n + 1
      BY <1>1, <1>2, <1>3, <3>2
    <3> QED BY <1>2, <3>1, <3>2
  <2>2. ASSUME NEW i \in DOMAIN operations', NEW j \in DOMAIN operations',
               \/ /\ Asked(operations'[i].op) /\ Asked(operations'[j].op)
                  /\ operations'[i].by = operations'[j].by
               \/ Deleting(operations'[i].op) /\ Deleting(operations'[j].op)
        PROVE  i = j
    <3>1. CASE i \in 1 .. n /\ j \in 1 .. n
      BY <1>2, <2>2, <3>1 DEF WhoAsksWaits
    <3>2. CASE i \in 1 .. n /\ j = n + 1
      BY <1>1, <1>2, <1>6, <2>2, <3>2 DEF Asked
    <3>3. CASE j \in 1 .. n /\ i = n + 1
      BY <1>1, <1>2, <1>6, <2>2, <3>3 DEF Asked
    <3> QED BY <1>2, <3>1, <3>2, <3>3
  <2> QED BY <2>1, <2>2 DEF WhoAsksWaits, At, Asked, Deleting
<1>8. RevisionStands'
  <2>1. ASSUME NEW q \in Probers, ~At(q, "idle"), ~At(q, "reading")
        PROVE  /\ probe[q].revision = revision[probe[q].key]
               /\ \A i \in DOMAIN operations' :
                    operations'[i].op = "remove" => operations'[i].key # probe[q].key
    BY <1>1, <1>2, <2>1 DEF RevisionStands
  <2>2. ASSUME NEW i \in DOMAIN operations', NEW j \in DOMAIN operations',
               operations'[i].op = "remove", operations'[j].op = "read",
               operations'[i].key = operations'[j].key
        PROVE  i < j
    BY <1>1, <1>2, <2>2 DEF RevisionStands
  <2> QED BY <1>3, <2>1, <2>2 DEF RevisionStands, At
<1> QED BY <1>4, <1>5, <1>7, <1>8

(* The store lists what there is, or removes a record of which no call knows. *)
LEMMA DeletionPreserves ==
  ASSUME EvidenceInv, StoreLists \/ StoreRemoves \/ ForgetFails
  PROVE  EvidenceInv'
<1> USE DEF EvidenceInv
<1>1. CASE StoreLists
  <2> DEFINE left == {k \in Keys : Chosen(k)}
             sweep == [at |-> "removing", left |-> left, all |-> forgetting.all,
                       since |-> forgetting.since, renewed |-> {}]
  <2>1. operations # <<>> /\ Deleting(Operation.op) /\ forgetting.at = "listing"
    BY <1>1, QueueTail DEF StoreLists, Pending, Deleting, WhoAsksWaits
  <2>2. forgetting.all \in BOOLEAN /\ forgetting.since \in 0 .. MaxTime
    BY <2>1 DEF TypeOK, ForgetType, NoForget
  <2>3. RemoveNext(sweep, Tail(operations)) /\ left \in SUBSET Keys
    BY <1>1 DEF StoreLists
  <2>4. UNCHANGED <<now, disk, revision, probe, lost>>
    BY <1>1 DEF StoreLists
  <2> HIDE DEF left
  <2>6. sweep \in ForgetType /\ sweep.at = "removing"
    BY <2>2, <2>3 DEF ForgetType
  <2>7. lost' \subseteq {"conflict", "deletion", "overtaken"}
    BY <2>4 DEF TypeOK
  <2> HIDE DEF sweep
  <2>5. /\ disk' \in [Keys -> {None} \cup RecordType] /\ revision' \in [Keys -> Nat]
        /\ \A l \in Keys : disk'[l] = None <=> revision'[l] = 0
        /\ \A l \in Keys : disk'[l] # None => disk'[l] = disk[l]
        /\ \A l \in Keys : revision'[l] = revision[l]
    BY <2>4 DEF TypeOK
  <2> QED BY <2>1, <2>3, <2>4, <2>5, <2>6, <2>7, DeletionGoesOn
<1>2. CASE StoreRemoves
  <2> DEFINE k == Operation.key
  <2>1. /\ operations # <<>> /\ Deleting(Operation.op) /\ Operation.op = "remove"
        /\ forgetting.at = "removing"
    BY <1>2, QueueTail DEF StoreRemoves, Pending, Deleting, WhoAsksWaits
  <2>2. forgetting \in ForgetType /\ lost' \subseteq {"conflict", "deletion", "overtaken"}
    BY <1>2 DEF TypeOK, StoreRemoves, HowLost
  <2>3. k \in Keys
    BY <2>1, QueueTail, OperationTypes
  <2>4. /\ disk' = [disk EXCEPT ![k] = None] /\ revision' = [revision EXCEPT ![k] = 0]
        /\ RemoveNext(forgetting, Tail(operations))
        /\ UNCHANGED <<now, probe>>
    BY <1>2 DEF StoreRemoves
  <2>5. /\ disk' \in [Keys -> {None} \cup RecordType] /\ revision' \in [Keys -> Nat]
        /\ \A l \in Keys : disk'[l] = None <=> revision'[l] = 0
        /\ \A l \in Keys : disk'[l] # None => disk'[l] = disk[l]
        /\ \A l \in Keys : revision'[l] = revision[l] \/ (Operation.op = "remove" /\ k = l)
    <3> HIDE DEF k
    <3>1. /\ disk' \in [Keys -> {None} \cup RecordType] /\ revision' \in [Keys -> Nat]
          /\ \A l \in Keys : disk'[l] = IF l = k THEN None ELSE disk[l]
          /\ \A l \in Keys : revision'[l] = IF l = k THEN 0 ELSE revision[l]
      BY <2>3, <2>4 DEF TypeOK
    <3> QED BY <2>1, <3>1 DEF TypeOK
  <2> HIDE DEF k
  <2> QED BY <2>1, <2>2, <2>4, <2>5, DeletionGoesOn DEF k
<1>3. CASE ForgetFails
  <2> DEFINE stop == [at |-> "removing", left |-> {}, all |-> FALSE, since |-> 0, renewed |-> {}]
  <2>1. operations # <<>> /\ Deleting(Operation.op)
    BY <1>3 DEF ForgetFails, Pending, Deleting
  <2>2. stop \in ForgetType /\ stop.at = "removing" /\ stop.left = {}
    BY EvidenceAssumption DEF ForgetType
  <2> HIDE DEF stop
  <2>3. RemoveNext(stop, Tail(operations))
    BY <1>3, <2>2 DEF RemoveNext, ForgetFails
  <2>4. UNCHANGED <<now, disk, revision, probe, lost>>
    BY <1>3 DEF ForgetFails
  <2>5. lost' \subseteq {"conflict", "deletion", "overtaken"}
    BY <2>4 DEF TypeOK
  <2> QED BY <2>1, <2>2, <2>3, <2>4, <2>5, DeletionGoesOn DEF TypeOK
<1> QED BY <1>1, <1>2, <1>3

(* dispose() aborts every open call, and changes nothing else about it. *)
LEMMA DisposePreserves ==
  ASSUME EvidenceInv, DisposeManager
  PROVE  EvidenceInv'
<1> USE DEF EvidenceInv
<1>1. \A q \in Probers :
        probe'[q] = IF Open(q) THEN [probe[q] EXCEPT !.aborted = TRUE] ELSE probe[q]
  BY DEF DisposeManager
<1>2. ASSUME NEW q \in Probers
      PROVE  /\ probe'[q] \in {NoProbe} \cup CallType \cup SavingType
             /\ probe'[q].at = probe[q].at
             /\ ~At(q, "idle") =>
                  probe'[q].key = probe[q].key /\ probe'[q].revision = probe[q].revision
             /\ At(q, "saving") => probe'[q] = probe[q]
             /\ Open(q) => /\ probe'[q].shown = probe[q].shown
                           /\ probe'[q].transport = probe[q].transport
                           /\ probe'[q].text = probe[q].text /\ probe'[q].tool = probe[q].tool
                           /\ probe'[q].calls = probe[q].calls
  <2>1. CASE Open(q)
    <3>1. probe[q] \in CallType /\ ~At(q, "saving")
      BY <2>1, ProbeTypes
    <3>2. probe'[q] = [probe[q] EXCEPT !.aborted = TRUE]
      BY <1>1, <2>1
    <3> QED BY <3>1, <3>2 DEF CallType
  <2>2. CASE ~Open(q)
    BY <1>1, <2>2 DEF TypeOK
  <2> QED BY <2>1, <2>2
<1>3. UNCHANGED <<now, disk, revision, operations, forgetting, lost>>
      /\ probe' = [p \in Probers |-> probe'[p]]
  BY DEF DisposeManager
<1>4. TypeOK'
  BY <1>2, <1>3 DEF TypeOK
<1>5. EvidenceEarned'
  <2>1. ASSUME NEW q \in Probers
        PROVE  /\ probe'[q].at = "saving" => Earned(probe'[q].record)
               /\ probe'[q].at = "probing" => Passed(probe'[q])
               /\ Open(q)' /\ probe'[q].at # "probing" => probe'[q].shown = {}
               /\ Open(q)' /\ probe'[q].tool =>
                    probe'[q].at \in {"disposing", "probing"} /\ probe'[q].calls = <<"child">>
    BY <1>2 DEF EvidenceEarned, At, Open, Passed
  <2> QED BY <1>3, <2>1 DEF EvidenceEarned, At
<1>6. OnePerKey'
  BY <1>2 DEF OnePerKey, At
<1>7. WhoAsksWaits'
  <2>1. \A i \in DOMAIN operations : operations[i] \in OperationType
    BY ElementOfSeq DEF TypeOK
  <2>2. ASSUME NEW i \in DOMAIN operations
        PROVE  LET o == operations[i] IN
                 /\ o.op = "read" => probe'[o.by].at = "reading" /\ probe'[o.by].key = o.key
                 /\ o.op = "save" => probe'[o.by].at = "saving" /\ probe'[o.by].key = o.key
    BY <1>2, <2>1, OperationTypes DEF WhoAsksWaits, At, Asked
  <2> QED BY <1>3, <2>2 DEF WhoAsksWaits, At
<1>8. RevisionStands'
  BY <1>2, <1>3 DEF RevisionStands, At
<1> QED BY <1>4, <1>5, <1>6, <1>7, <1>8

(* The steps of a call between its read and its save: each keeps the key and the revision,
   and only a call that has passed the smoke test probes or shows anything. *)
LEMMA StepPreserves ==
  ASSUME EvidenceInv, NEW p \in Probers, QualificationStep(p)
  PROVE  EvidenceInv'
<1> USE DEF EvidenceInv
<1> DEFINE c == probe[p]
<1>1. /\ Open(p) /\ ~At(p, "reading") /\ c \in CallType
      /\ ~At(p, "probing") => c.shown = {}
      /\ At(p, "probing") => Passed(c)
      /\ c.tool => c.at \in {"disposing", "probing"} /\ c.calls = <<"child">>
  <2>1. c.at \in {"starting", "running", "disposing", "probing"}
    BY DEF QualificationStep, StartChild, StartFails, Answers, ChildDisposed, DisposalFailed,
           ProbeCapability, At
  <2> QED BY <2>1, ProbeTypes DEF EvidenceEarned, At, Open
<1>2. CASE StartChild(p)
  <2> DEFINE d == [c EXCEPT !.at = "running"]
  <2>1. /\ d \in CallType /\ d.key = c.key /\ d.revision = c.revision /\ d.at = "running"
        /\ d.shown = c.shown /\ d.tool = c.tool
    BY <1>1 DEF CallType
  <2>2. /\ Set(p, d) /\ At(p, "starting")
        /\ UNCHANGED <<now, disk, revision, operations, forgetting, disposed, qualified, forgets, lost>>
    BY <1>2 DEF StartChild
  <2> HIDE DEF d
  <2> QED BY <1>1, <2>1, <2>2, CallGoesOn DEF At
<1>3. CASE StartFails(p)
  BY <1>1, <1>3, CallCloses DEF StartFails, At
<1>4. CASE Answers(p)
  <2>1. PICK completed \in BOOLEAN, text \in BOOLEAN :
          LET seen == [c EXCEPT !.transport = completed, !.text = completed /\ text,
                                !.tool = completed /\ CalledOnce(c)]
          IN Set(p, [(IF c.aborted THEN c ELSE seen) EXCEPT !.at = "disposing"])
    BY <1>4 DEF Answers
  <2> DEFINE seen == [c EXCEPT !.transport = completed, !.text = completed /\ text,
                               !.tool = completed /\ CalledOnce(c)]
             d == [(IF c.aborted THEN c ELSE seen) EXCEPT !.at = "disposing"]
  <2>2. /\ seen \in CallType /\ seen.key = c.key /\ seen.revision = c.revision
        /\ seen.shown = c.shown /\ seen.calls = c.calls /\ (seen.tool => CalledOnce(c))
    <3>1. (completed /\ text) \in BOOLEAN /\ (completed /\ CalledOnce(c)) \in BOOLEAN
      BY DEF CalledOnce
    <3> QED BY <1>1, <3>1 DEF CallType
  <2>4. /\ d \in CallType /\ d.key = c.key /\ d.revision = c.revision /\ d.at = "disposing"
        /\ d.shown = c.shown /\ (d.tool => d.calls = <<"child">>)
    <3> HIDE DEF seen
    <3> QED BY <1>1, <2>2 DEF CallType, CalledOnce
  <2>5. /\ Set(p, d) /\ At(p, "running")
        /\ UNCHANGED <<now, disk, revision, operations, forgetting, disposed, qualified, forgets, lost>>
    BY <1>4, <2>1 DEF Answers
  <2> HIDE DEF d
  <2> QED BY <1>1, <2>4, <2>5, CallGoesOn DEF At
<1>5. CASE ChildDisposed(p)
  <2>1. CASE Passed(c) /\ ~c.aborted /\ c.wanted # {}
    <3> DEFINE d == [c EXCEPT !.at = "probing"]
    <3>1. /\ d \in CallType /\ d.key = c.key /\ d.revision = c.revision /\ d.at = "probing"
          /\ Passed(d) /\ d.tool = c.tool /\ d.calls = c.calls
      BY <1>1, <2>1 DEF CallType, Passed
    <3>2. /\ Set(p, d)
          /\ UNCHANGED <<now, disk, revision, operations, forgetting, disposed, qualified, forgets, lost>>
      BY <1>5, <2>1 DEF ChildDisposed
    <3> HIDE DEF d
    <3> QED BY <1>1, <3>1, <3>2, CallGoesOn
  <2>2. CASE ~(Passed(c) /\ ~c.aborted /\ c.wanted # {})
    BY <1>1, <1>5, <2>2, CallCloses DEF ChildDisposed, At
  <2> QED BY <2>1, <2>2
<1>6. CASE DisposalFailed(p)
  <2>1. CASE Closing(c, p)
    BY <1>1, <1>6, <2>1, CallCloses DEF DisposalFailed, At
  <2> DEFINE d == [c EXCEPT !.transport = FALSE, !.text = FALSE, !.tool = FALSE]
  <2>2. CASE Closing(d, p)
    <3>1. d \in CallType /\ d.key = c.key /\ d.revision = c.revision /\ d.shown = c.shown
      BY <1>1 DEF CallType
    <3>2. /\ At(p, "disposing") /\ c.shown = {}
          /\ UNCHANGED <<now, disk, revision, forgetting, disposed, qualified, forgets, lost>>
      BY <1>1, <1>6 DEF DisposalFailed, At
    <3> HIDE DEF d
    <3> QED BY <1>1, <2>2, <3>1, <3>2, CallCloses
  <2> QED BY <1>6, <2>1, <2>2 DEF DisposalFailed
<1>7. CASE ProbeCapability(p)
  <2>1. CASE c.aborted \/ c.wanted = {}
    BY <1>1, <1>7, <2>1, CallCloses DEF ProbeCapability, At
  <2>2. CASE ~(c.aborted \/ c.wanted = {})
    <3>1. PICK capability \in c.wanted, completed \in BOOLEAN :
            \E solved \in Grades(capability) :
              Set(p, [c EXCEPT !.wanted = @ \ {capability},
                               !.shown = IF completed /\ solved THEN @ \cup {capability} ELSE @])
      BY <1>7, <2>2 DEF ProbeCapability
    <3>2. PICK solved \in Grades(capability) :
              Set(p, [c EXCEPT !.wanted = @ \ {capability},
                               !.shown = IF completed /\ solved THEN @ \cup {capability} ELSE @])
      BY <3>1
    <3> DEFINE new == IF completed /\ solved THEN c.shown \cup {capability} ELSE c.shown
               d == [c EXCEPT !.wanted = c.wanted \ {capability}, !.shown = new]
    <3>3. new \in SUBSET Capabilities /\ c.wanted \ {capability} \in SUBSET Capabilities
      BY <1>1 DEF CallType
    <3>4. Set(p, d)
      BY <3>2
    <3> HIDE DEF new
    <3>5. /\ d \in CallType /\ d.key = c.key /\ d.revision = c.revision /\ d.at = c.at
          /\ (Passed(d) <=> Passed(c)) /\ d.tool = c.tool /\ d.calls = c.calls
      BY <1>1, <3>3 DEF CallType, Passed
    <3>6. /\ At(p, "probing")
          /\ UNCHANGED <<now, disk, revision, operations, forgetting, disposed, qualified, forgets, lost>>
      BY <1>7, <2>2 DEF ProbeCapability
    <3> HIDE DEF d
    <3> QED BY <1>1, <3>4, <3>5, <3>6, CallGoesOn DEF At
  <2> QED BY <2>1, <2>2
<1> QED BY <1>2, <1>3, <1>4, <1>5, <1>6, <1>7 DEF QualificationStep

(* An abort and a call of the echo tool, which is remembered, change neither. *)
LEMMA AbortEchoPreserves ==
  ASSUME EvidenceInv, NEW p \in Probers, NEW caller \in {"child", "other"},
         AbortQualification(p) \/ Echo(p, caller)
  PROVE  EvidenceInv'
<1> USE DEF EvidenceInv
<1> DEFINE c == probe[p]
<1>1. CASE AbortQualification(p)
  <2> DEFINE d == [c EXCEPT !.aborted = TRUE]
  <2>1. Open(p) /\ c \in CallType
    BY <1>1, ProbeTypes DEF AbortQualification
  <2>2. /\ d \in CallType /\ d.key = c.key /\ d.revision = c.revision /\ d.at = c.at
        /\ d.shown = c.shown /\ (Passed(d) <=> Passed(c))
        /\ d.tool = c.tool /\ d.calls = c.calls
    BY <2>1 DEF CallType, Passed
  <2>3. /\ Set(p, d)
        /\ UNCHANGED <<now, disk, revision, operations, forgetting, disposed, qualified, forgets, lost>>
    BY <1>1 DEF AbortQualification
  <2>4. /\ (At(p, "probing") => Passed(c)) /\ (~At(p, "probing") => c.shown = {})
        /\ c.tool => c.at \in {"disposing", "probing"} /\ c.calls = <<"child">>
    BY <2>1 DEF EvidenceEarned, At
  <2> HIDE DEF d
  <2> QED BY <2>1, <2>2, <2>3, <2>4, CallGoesOn DEF At
<1>2. CASE Echo(p, caller)
  <2> DEFINE calls == Append(c.calls, caller)
             d == [c EXCEPT !.calls = calls]
  <2>1. At(p, "running") /\ Open(p) /\ c \in CallType
    BY <1>2, ProbeTypes DEF Echo, At, Open
  <2>2. calls \in Seq({"child", "other"})
    <3>1. c.calls \in Seq({"child", "other"})
      BY <2>1 DEF CallType
    <3> QED BY <3>1, AppendProperties
  <2>3. Set(p, d)
    BY <1>2 DEF Echo
  <2> HIDE DEF calls
  <2>4. /\ d \in CallType /\ d.key = c.key /\ d.revision = c.revision /\ d.at = c.at
        /\ d.shown = c.shown /\ d.tool = c.tool
    BY <2>1, <2>2 DEF CallType
  <2>5. /\ c.shown = {} /\ ~c.tool
        /\ UNCHANGED <<now, disk, revision, operations, forgetting, disposed, qualified, forgets, lost>>
    BY <1>2, <2>1 DEF Echo, EvidenceEarned, At
  <2> HIDE DEF d
  <2> QED BY <2>1, <2>3, <2>4, <2>5, CallGoesOn DEF At
<1> QED BY <1>1, <1>2
-----------------------------------------------------------------------------
(* Every step that no other lemma shows to lose anything leaves the history as it is, and a
   deletion with what it has. *)
LEMMA NextPreservesEvidence ==
  EvidenceInv /\ [Next]_vars => EvidenceInv'
<1> SUFFICES ASSUME EvidenceInv, [Next]_vars
             PROVE  EvidenceInv'
  OBVIOUS
<1>1. CASE UNCHANGED vars
  BY <1>1 DEF vars, EvidenceInv, TypeOK, EvidenceEarned, OnePerKey, WhoAsksWaits, RevisionStands,
              At, Open
<1>2. CASE Tick
  <2>1. now' \in 0 .. MaxTime
    BY <1>2, EvidenceAssumption DEF Tick, EvidenceInv, TypeOK
  <2> QED BY <1>2, <2>1 DEF Tick, EvidenceInv, TypeOK, EvidenceEarned, OnePerKey, WhoAsksWaits,
              RevisionStands, At, Open
<1>3. CASE StoreReads \/ StoreSaves \/ StoreLists \/ StoreRemoves
  BY <1>3, StoreReadsPreserves, StoreSavesPreserves, DeletionPreserves
<1>4. CASE ReadFails \/ SaveFails \/ ForgetFails
  BY <1>4, FailurePreserves, DeletionPreserves
<1>5. CASE DisposeManager
  BY <1>5, DisposePreserves
<1>6. CASE \E p \in Probers, k \in Keys, wanted \in SUBSET Capabilities, a \in Attestations :
             Qualify(p, k, wanted, a)
  BY <1>6, QualifyPreserves
<1>7. CASE \E p \in Probers : QualificationStep(p) \/ AbortQualification(p)
  BY <1>7, StepPreserves, AbortEchoPreserves
<1>8. CASE \E p \in Probers, caller \in {"child", "other"} : Echo(p, caller)
  BY <1>8, AbortEchoPreserves
<1>9. CASE \E all \in BOOLEAN, routes \in SUBSET Keys : Forget(all, routes)
  BY <1>9, ForgetPreserves
<1> QED BY <1>1, <1>2, <1>3, <1>4, <1>5, <1>6, <1>7, <1>8, <1>9 DEF Next, StoreStep

(* Whatever is qualified, aborted, disposed or deleted at the same time: what is saved is
   earned by a route that passed, every call waits for one answer of the store at a time, and
   the revision it has read stands until it saves. *)
THEOREM EvidenceSafe == Spec => []EvidenceInv
<1>1. Init => EvidenceInv
  BY InitEvidence
<1>2. EvidenceInv /\ [Next]_vars => EvidenceInv'
  BY NextPreservesEvidence
<1> QED BY <1>1, <1>2, PTL DEF Spec

(* A deletion that stands still in its loop: what it still has to remove, and the one removal
   the store owes it, stay due, whatever else is asked of the store. *)
LEMMA DeletionWaits ==
  ASSUME EvidenceInv, ResultsKept, UNCHANGED <<disk, lost>>,
         forgetting.at = "removing" => forgetting' = forgetting,
         forgetting.at # "removing" => forgetting'.at # "removing",
         \A i \in DOMAIN operations' : operations'[i].op = "remove" =>
           \E j \in DOMAIN operations : operations[j] = operations'[i]
  PROVE  ResultsKept'
<1> QED BY DEF ResultsKept, DeletionsAreDue, Removes, Valid

(* The steps of the calls, of their questions to the store and of the clock, none of which
   adds a removal. *)
LEMMA OthersLoseNothing ==
  ASSUME EvidenceInv, ResultsKept, Next, ~StoreSaves, ~StoreLists, ~StoreRemoves
  PROVE  ResultsKept'
<1> DEFINE n == Len(operations)
<1>1. operations \in Seq(OperationType) /\ DOMAIN operations = 1 .. n /\ n \in Nat
  BY LenProperties DEF EvidenceInv, TypeOK
<1>2. ASSUME NEW o \in OperationType, o.op # "remove", operations' = Append(operations, o)
      PROVE  \A i \in DOMAIN operations' : operations'[i].op = "remove" =>
               \E j \in DOMAIN operations : operations[j] = operations'[i]
  <2>1. /\ DOMAIN operations' = 1 .. n + 1 /\ operations'[n + 1] = o
        /\ \A i \in 1 .. n : operations'[i] = operations[i]
    BY <1>1, <1>2, QueueAppend
  <2> QED BY <1>1, <1>2, <2>1
<1>3. ASSUME operations # <<>>, operations' = Tail(operations)
      PROVE  \A i \in DOMAIN operations' : operations'[i].op = "remove" =>
               \E j \in DOMAIN operations : operations[j] = operations'[i]
  <2>1. /\ DOMAIN operations' = 1 .. n - 1 /\ \A i \in 1 .. n - 1 : operations'[i] = operations[i + 1]
    BY <1>3, QueueTail DEF EvidenceInv
  <2> QED BY <1>1, <2>1
<1> HIDE DEF n
<1>4. CASE Tick \/ DisposeManager
  BY <1>4, DeletionWaits DEF Tick, DisposeManager
<1>5. CASE \E p \in Probers, caller \in {"child", "other"} : Echo(p, caller)
  BY <1>5, DeletionWaits DEF Echo
<1>6. ASSUME NEW p \in Probers, AbortQualification(p) \/ StartChild(p) \/ Answers(p)
      PROVE  ResultsKept'
  BY <1>6, DeletionWaits DEF AbortQualification, StartChild, Answers
<1>7. ASSUME NEW p \in Probers, StartFails(p) \/ ChildDisposed(p) \/ DisposalFailed(p)
                                 \/ ProbeCapability(p)
      PROVE  ResultsKept'
  <2>1. UNCHANGED <<disk, lost, forgetting>> /\ Open(p)
    BY <1>7 DEF StartFails, ChildDisposed, DisposalFailed, ProbeCapability, Open, At
  <2>2. UNCHANGED operations \/ \E call : Closing(call, p) /\ call.key = probe[p].key
    <3>1. CASE StartFails(p) \/ ChildDisposed(p) \/ ProbeCapability(p)
      BY <3>1 DEF StartFails, ChildDisposed, ProbeCapability
    <3> DEFINE d == [probe[p] EXCEPT !.transport = FALSE, !.text = FALSE, !.tool = FALSE]
    <3>2. probe[p] \in CallType
      BY <2>1, ProbeTypes DEF EvidenceInv, Open, At
    <3>3. d.key = probe[p].key
      BY <3>2 DEF CallType
    <3>4. CASE DisposalFailed(p)
      BY <3>3, <3>4 DEF DisposalFailed
    <3> QED BY <1>7, <3>1, <3>4
  <2>3. CASE UNCHANGED operations
    BY <2>1, <2>3, DeletionWaits
  <2>4. ASSUME NEW call, Closing(call, p), call.key = probe[p].key
        PROVE  ResultsKept'
    <3>1. [op |-> "save", by |-> p, key |-> call.key] \in OperationType
      BY <2>1, <2>4, ProbeTypes DEF EvidenceInv, OperationType, Open, At
    <3> QED BY <1>2, <2>1, <2>4, <3>1, DeletionWaits DEF Closing
  <2> QED BY <2>2, <2>3, <2>4
<1>8. ASSUME NEW p \in Probers, NEW k \in Keys, NEW wanted \in SUBSET Capabilities,
             NEW a \in Attestations, Qualify(p, k, wanted, a)
      PROVE  ResultsKept'
  <2>1. [op |-> "read", by |-> p, key |-> k] \in OperationType
    BY DEF OperationType
  <2> QED BY <1>2, <1>8, <2>1, DeletionWaits DEF Qualify
<1>9. ASSUME NEW all \in BOOLEAN, NEW routes \in SUBSET Keys, Forget(all, routes)
      PROVE  ResultsKept'
  <2>1. [op |-> "entries"] \in OperationType
    BY DEF OperationType
  <2> QED BY <1>2, <1>9, <2>1, DeletionWaits DEF Forget
<1>10. CASE StoreReads \/ ReadFails \/ SaveFails
  BY <1>3, <1>10, DeletionWaits DEF StoreReads, ReadFails, SaveFails, Pending
<1>11. CASE ForgetFails
  BY <1>11 DEF ForgetFails, NoForget, ResultsKept, DeletionsAreDue
<1> QED BY <1>4, <1>5, <1>6, <1>7, <1>8, <1>9, <1>10, <1>11 DEF Next, StoreStep, QualificationStep

(* The steps of a deletion: it begins with what had expired, and goes on with what it has.  The
   one removal it has asked for is the one that is carried out. *)
LEMMA DeletionKeepsResults ==
  ASSUME EvidenceInv, ResultsKept, StoreLists \/ StoreRemoves
  PROVE  ResultsKept'
<1> DEFINE t == Tail(operations)
<1>1. /\ operations # <<>> /\ Deleting(Operation.op) /\ Operation = operations[1]
      /\ 1 \in DOMAIN operations /\ t \in Seq(OperationType)
  BY QueueTail DEF StoreLists, StoreRemoves, Pending, Deleting, EvidenceInv
<1>2. /\ Len(t) \in Nat /\ DOMAIN t = 1 .. Len(t)
      /\ \A i \in DOMAIN t : t[i].op # "remove"
  BY <1>1, RestIsAsked
<1>3. ASSUME NEW sweep \in ForgetType, sweep.at = "removing", RemoveNext(sweep, t),
             sweep.all \/ \A k \in sweep.left :
               disk'[k] # None /\ Expires(disk'[k]) > sweep.since => k \in sweep.renewed,
             lost' \subseteq {"overtaken"}
      PROVE  ResultsKept'
  <2>1. sweep \in [at : {"removing"}, left : SUBSET Keys, all : BOOLEAN, since : 0 .. MaxTime,
                   renewed : SUBSET Keys]
    BY <1>3 DEF ForgetType, NoForget
  <2>2. CASE forgetting' = NoForget
    BY <1>3, <2>2 DEF ResultsKept, DeletionsAreDue, NoForget
  <2>3. ASSUME NEW k \in sweep.left, forgetting' = [sweep EXCEPT !.left = @ \ {k}],
               operations' = Append(t, [op |-> "remove", key |-> k])
        PROVE  ResultsKept'
    <3> DEFINE o == [op |-> "remove", key |-> k]
    <3>1. o \in OperationType /\ o.key = k
      BY <2>1 DEF OperationType
    <3>2. /\ DOMAIN operations' = 1 .. Len(t) + 1 /\ operations'[Len(t) + 1] = o
          /\ \A i \in 1 .. Len(t) : operations'[i] = t[i]
      BY <1>1, <2>3, <3>1, QueueAppend
    <3> HIDE DEF o, t
    <3>3. \A l : Removes(l)' => l = k
      BY <1>2, <3>1, <3>2 DEF Removes
    <3>4. /\ forgetting'.left = sweep.left \ {k} /\ forgetting'.all = sweep.all
          /\ forgetting'.since = sweep.since /\ forgetting'.renewed = sweep.renewed
      BY <2>1, <2>3
    <3>5. ASSUME ~sweep.all, NEW l \in Keys, l \in sweep.left, Valid(l, sweep.since)'
          PROVE  l \in sweep.renewed
      <4>1. disk'[l] # None /\ Expires(disk'[l]) > sweep.since
        BY <3>5 DEF Valid, Expires
      <4> QED BY <1>3, <3>5, <4>1
    <3> QED BY <1>3, <3>3, <3>4, <3>5 DEF ResultsKept, DeletionsAreDue, Valid, Expires
  <2> QED BY <1>3, <2>2, <2>3 DEF RemoveNext
<1> HIDE DEF t
<1>4. CASE StoreLists
  <2> DEFINE sweep == [at |-> "removing", left |-> {k \in Keys : Chosen(k)}, all |-> forgetting.all,
                       since |-> forgetting.since, renewed |-> {}]
  <2>1. forgetting.at = "listing"
    BY <1>1, <1>4 DEF StoreLists, Pending, EvidenceInv, WhoAsksWaits
  <2>2. sweep \in ForgetType
    BY <2>1 DEF EvidenceInv, TypeOK, ForgetType, NoForget
  <2>3. RemoveNext(sweep, t) /\ UNCHANGED <<disk, lost>>
    BY <1>4 DEF StoreLists, t
  <2>4. sweep.all \/ \A k \in sweep.left :
          disk'[k] # None /\ Expires(disk'[k]) > sweep.since => k \in sweep.renewed
    BY <2>3 DEF Chosen, Valid
  <2>5. lost' \subseteq {"overtaken"} /\ sweep.at = "removing"
    BY <2>3 DEF ResultsKept
  <2> HIDE DEF sweep
  <2> QED BY <1>3, <2>2, <2>3, <2>4, <2>5
<1>5. CASE StoreRemoves
  <2>1. forgetting.at = "removing" /\ Removes(Operation.key) /\ Operation.key \in Keys
    BY <1>1, <1>5, OperationTypes, QueueTail DEF StoreRemoves, Pending, EvidenceInv, WhoAsksWaits, Removes
  <2>2. \A l \in Keys : disk'[l] = None \/ disk'[l] = disk[l]
    BY <1>5 DEF StoreRemoves, EvidenceInv, TypeOK
  <2>3. forgetting \in ForgetType /\ RemoveNext(forgetting, t)
    BY <1>5 DEF EvidenceInv, TypeOK, StoreRemoves, t
  <2>4. forgetting.left \subseteq Keys
    BY <2>1, <2>3 DEF ForgetType, NoForget
  <2>5. forgetting.all \/ \A k \in forgetting.left :
          disk'[k] # None /\ Expires(disk'[k]) > forgetting.since => k \in forgetting.renewed
    BY <2>1, <2>2, <2>4 DEF ResultsKept, DeletionsAreDue, Valid
  <2>6. lost' \subseteq {"overtaken"}
    BY <1>5, <2>1 DEF StoreRemoves, HowLost, ResultsKept, DeletionsAreDue
  <2> QED BY <1>3, <2>1, <2>3, <2>5, <2>6
<1> QED BY <1>4, <1>5

(* An answer that is saved while a deletion awaits a removal is one it does not know of. *)
LEMMA SavingKeepsResults ==
  ASSUME EvidenceInv, ResultsKept, StoreSaves
  PROVE  ResultsKept'
<1>1. /\ UNCHANGED lost /\ operations' = Tail(operations) /\ operations # <<>>
      /\ \A k \in Keys : disk'[k] = disk[k] \/ k = Operation.key
      /\ forgetting' = IF forgetting.at = "removing"
                       THEN [forgetting EXCEPT !.renewed = @ \cup {Operation.key}]
                       ELSE forgetting
  BY StoreSavesPreserves DEF StoreSaves, Pending
<1>2. CASE forgetting.at # "removing"
  BY <1>1, <1>2 DEF ResultsKept, DeletionsAreDue
<1>3. CASE forgetting.at = "removing"
  <2>1. forgetting \in [at : {"removing"}, left : SUBSET Keys, all : BOOLEAN,
                        since : 0 .. MaxTime, renewed : SUBSET Keys]
    BY <1>3 DEF EvidenceInv, TypeOK, ForgetType, NoForget
  <2>2. /\ forgetting'.left = forgetting.left /\ forgetting'.all = forgetting.all
        /\ forgetting'.since = forgetting.since
        /\ forgetting'.renewed = forgetting.renewed \cup {Operation.key}
    BY <1>1, <1>3, <2>1
  <2>3. ASSUME NEW k, Removes(k)'
        PROVE  Removes(k)
    <3>1. PICK i \in DOMAIN operations' : operations'[i].op = "remove" /\ operations'[i].key = k
      BY <2>3 DEF Removes
    <3>2. /\ i + 1 \in DOMAIN operations /\ operations'[i] = operations[i + 1]
      BY <1>1, <3>1, QueueTail DEF EvidenceInv
    <3> QED BY <3>1, <3>2 DEF Removes
  <2>4. ASSUME ~forgetting'.all, NEW k \in Keys, k \in forgetting'.left \/ Removes(k)',
               disk'[k] # None, Expires(disk'[k]) > forgetting'.since
        PROVE  k \in forgetting'.renewed
    BY <1>1, <1>3, <2>2, <2>3, <2>4 DEF ResultsKept, DeletionsAreDue, Valid
  <2> QED BY <1>1, <2>4 DEF ResultsKept, DeletionsAreDue, Valid, Expires, None
<1> QED BY <1>2, <1>3

(* No conflict of revisions ever throws away what a qualification has found, and a deletion of
   expired evidence takes nothing else but an answer that overtook it. *)
THEOREM ResultsNeverLost == Spec => []ResultsKept
<1>1. Init => EvidenceInv /\ ResultsKept
  BY InitEvidence
<1>2. EvidenceInv /\ ResultsKept /\ [Next]_vars => EvidenceInv' /\ ResultsKept'
  <2>1. ASSUME EvidenceInv, ResultsKept, UNCHANGED vars
        PROVE  ResultsKept'
    BY <2>1, DeletionWaits DEF vars
  <2> QED BY <2>1, NextPreservesEvidence, OthersLoseNothing, DeletionKeepsResults, SavingKeepsResults
<1> QED BY <1>1, <1>2, PTL DEF Spec
-----------------------------------------------------------------------------
(* The names of runs: what kind each is, and that no two of one call are the same. *)
LEMMA NamesOfRuns ==
  /\ Origin \in Names /\ Origin[1] = "work" /\ NoName \notin Names
  /\ \A n \in Cycles, what \in {"review", "revise", "compact"} :
       <<what, n>> \in Names /\ <<what, n>>[1] = what /\ <<what, n>> # Origin
  /\ \A name \in Names : name = Origin \/ \E n \in Cycles, what \in {"review", "revise", "compact"} :
       name = <<what, n>>
  /\ \A name \in Names : name[1] # "absent"
<1>1. ASSUME NEW name \in Names
      PROVE  name = Origin \/ \E n \in Cycles, what \in {"review", "revise", "compact"} : name = <<what, n>>
  BY DEF Names
<1>2. ASSUME NEW n \in Cycles, NEW what \in {"review", "revise", "compact"}
      PROVE  <<what, n>> \in Names /\ <<what, n>>[1] = what /\ <<what, n>> # Origin
  BY DEF Names, Origin
<1>3. Origin \in Names /\ Origin[1] = "work" /\ NoName \notin Names
  BY DEF Names, Origin, NoName
<1>4. ASSUME NEW name \in Names PROVE name[1] # "absent"
  BY <1>1, <1>2, <1>3
<1> QED BY <1>1, <1>2, <1>3, <1>4

(* The call goes on to another await, or ends, and keeps the rest of what it knows. *)
LEMMA GotoMeans ==
  ASSUME LoopTypeOK, NEW l \in Labels, Goto(l)
  PROVE  /\ DOMAIN loop' = DOMAIN NoLoop /\ loop'.at = l
         /\ loop'.cycle = loop.cycle /\ loop'.subject = loop.subject
         /\ loop'.context = loop.context /\ loop'.stopped = loop.stopped
BY DEF LoopTypeOK, Goto, NoLoop

(* It ends, and says how. *)
LEMMA LeaveMeans ==
  ASSUME LoopTypeOK, NEW s, Leave(s)
  PROVE  /\ DOMAIN loop' = DOMAIN NoLoop /\ loop'.at = "done" /\ loop'.stopped = s
         /\ loop'.cycle = loop.cycle /\ loop'.subject = loop.subject
         /\ loop'.context = loop.context
BY DEF LoopTypeOK, Leave, NoLoop

(* A call that chooses a route keeps its subject. *)
LEMMA ChooseMeans ==
  ASSUME LoopTypeOK, NEW l \in Labels, NEW c, loop' = [loop EXCEPT !.at = l, !.chosen = c]
  PROVE  /\ DOMAIN loop' = DOMAIN NoLoop /\ loop'.at = l
         /\ loop'.cycle = loop.cycle /\ loop'.subject = loop.subject
         /\ loop'.context = loop.context /\ loop'.stopped = loop.stopped
BY DEF LoopTypeOK, NoLoop

(* A launch: refused, or a run that did not exist begins. *)
LEMMA LaunchMeans ==
  ASSUME LoopTypeOK, NEW name \in Names, NEW s, NEW c, NEW q, NEW l \in Labels,
         Launch(name, s, c, q, l)
  PROVE  \/ /\ runs[name] = Absent /\ ~closed /\ ~aborted /\ (s # NoName => Reviewable(s))
            /\ DOMAIN runs' = Names /\ DOMAIN runs'[name] = Fields
            /\ runs'[name] # Absent /\ runs'[name].kind = name[1]
            /\ runs'[name].state = "RUNNING" /\ runs'[name].reviews = s
            /\ runs'[name].request = q
            /\ \A other \in Names : other # name => runs'[other] = runs[other]
            /\ Goto(l)
         \/ runs' = runs /\ Leave("REFUSED")
<1>1. CASE runs' = runs /\ Leave("REFUSED")
  BY <1>1
<1>2. CASE ~(runs' = runs /\ Leave("REFUSED"))
  <2> DEFINE r == [kind |-> name[1], state |-> "RUNNING", text |-> FALSE,
                   provider |-> ProviderOf(loop.chosen.route),
                   independent |-> loop.chosen.independent,
                   reviews |-> s, context |-> c, request |-> q,
                   verdict |-> Unreadable, reply |-> Prose, applied |-> FALSE]
  <2>1. Accepted(name, s, c) /\ runs' = [runs EXCEPT ![name] = r] /\ Goto(l)
    BY <1>2 DEF Launch
  <2>2. runs[name] = Absent /\ ~closed /\ ~aborted /\ (s # NoName => Reviewable(s))
    BY <2>1 DEF Accepted
  <2>3. /\ DOMAIN r = Fields /\ r.kind = name[1] /\ r.state = "RUNNING"
        /\ r.reviews = s /\ r.request = q
    BY DEF Fields
  <2>4. r # Absent
    BY <2>3, NamesOfRuns DEF Absent
  <2>5. /\ DOMAIN runs' = Names /\ runs'[name] = r
        /\ \A other \in Names : other # name => runs'[other] = runs[other]
    BY <2>1 DEF LoopTypeOK
  <2> HIDE DEF r
  <2> QED BY <2>1, <2>2, <2>3, <2>4, <2>5
<1> QED BY <1>1, <1>2

(* A run that exists is written again: it is of the same kind, and the others stay. *)
LEMMA WriteMeans ==
  ASSUME LoopTypeOK, NEW name \in Names, runs[name] # Absent,
         NEW r, DOMAIN r = Fields, r.kind = runs[name].kind,
         runs' = [runs EXCEPT ![name] = r]
  PROVE  /\ DOMAIN runs' = Names /\ runs'[name] = r /\ runs'[name] # Absent
         /\ DOMAIN runs'[name] = Fields /\ runs'[name].kind = name[1]
         /\ \A other \in Names : other # name => runs'[other] = runs[other]
<1>1. runs[name].kind = name[1] /\ name[1] # "absent"
  BY NamesOfRuns DEF LoopTypeOK
<1> QED BY <1>1 DEF LoopTypeOK, Absent
-----------------------------------------------------------------------------
(* While the call stands where it is, with its runs, what holds of it goes on to hold. *)
LEMMA CallStands ==
  ASSUME LoopInv, UNCHANGED <<task, runs, loop>>
  PROVE  ResultIsJudged' /\ SubjectStands' /\ AwaitedStands' /\ JudgmentStands'
<1>1. ResultIsJudged'
  BY DEF LoopInv, ResultIsJudged, ReviewOf
<1>2. SubjectStands'
  BY DEF LoopInv, LoopStands, SubjectStands, OfTheTask
<1>3. AwaitedStands'
  BY DEF LoopInv, LoopStands, AwaitedStands, Running, ReviewOf, OfTheTask
<1>4. JudgmentStands'
  BY DEF LoopInv, LoopStands, JudgmentStands, ReviewOf
<1> QED BY <1>1, <1>2, <1>3, <1>4

(* What a call that goes on has to show. *)
LEMMA GoesOnStands ==
  ASSUME loop'.at # "done", LoopTypeOK', SubjectStands', AwaitedStands', JudgmentStands',
         released' => aborted'
  PROVE  LoopInv'
BY DEF LoopInv, LoopStands, ResultIsJudged

(* What a call that ends has to show: its subject is an answer, whatever the end is. *)
Judged ==
  loop.stopped \in {"VERIFIED", "UNCONVERGED"} /\ ReviewOf(loop.cycle) # Absent =>
    /\ ReviewOf(loop.cycle).reviews = loop.subject
    /\ ReviewOf(loop.cycle).state = "COMPLETED"
    /\ loop.stopped = "VERIFIED" <=> ReviewOf(loop.cycle).reply.verdict = "verified"
    /\ loop.stopped = "VERIFIED" =>
         /\ ReviewOf(loop.cycle).reply.onObjective
         /\ "blocker" \notin ToSet(ReviewOf(loop.cycle).reply.findings)

(* A call that has ended and shows that stands. *)
LEMMA EndsStand ==
  ASSUME loop'.at = "done", LoopTypeOK', SubjectStands', Judged'
  PROVE  LoopInv'
<1>1. AwaitedStands' /\ JudgmentStands'
  BY DEF AwaitedStands, JudgmentStands
<1>2. ASSUME loop'.subject # Origin, runs'[loop'.subject] # Absent
      PROVE  /\ runs'[loop'.subject].kind = "revise"
             /\ runs'[loop'.subject].state = "COMPLETED"
             /\ RoleOf(task') # "review" => runs'[loop'.subject].request = "task"
  <2>1. runs'[loop'.subject].kind = "revise"
    BY <1>2, NamesOfRuns DEF SubjectStands, LoopTypeOK
  <2>2. runs'[loop'.subject].state = "COMPLETED" /\ OfTheTask(loop.subject)'
    BY <1>2 DEF SubjectStands
  <2> QED BY <2>1, <2>2 DEF OfTheTask
<1>3. ResultIsJudged'
  BY <1>2 DEF ResultIsJudged, Judged
<1> QED BY <1>1, <1>3 DEF LoopInv, LoopStands

(* A refusal, or a route that is not to be had, ends the call and nothing else. *)
LEMMA LeavesStand ==
  ASSUME LoopInv, Steady, UNCHANGED runs, NEW s, Leave(s), loop.at # "done",
         s \notin {"VERIFIED", "UNCONVERGED", "DELEGATED"}
  PROVE  LoopInv'
<1>1. LoopTypeOK /\ SubjectStands
  BY DEF LoopInv, LoopStands
<1>2. /\ DOMAIN loop' = DOMAIN NoLoop /\ loop'.at = "done" /\ loop'.stopped = s
      /\ loop'.cycle = loop.cycle /\ loop'.subject = loop.subject /\ loop'.context = loop.context
  BY <1>1, LeaveMeans
<1>3. LoopTypeOK'
  BY <1>1, <1>2 DEF LoopTypeOK, Steady, worldVars, Labels
<1>4. SubjectStands'
  BY <1>1, <1>2 DEF SubjectStands, Steady, OfTheTask, BeforeTheLoop
<1>5. Judged'
  BY <1>2 DEF Judged
<1> QED BY <1>2, <1>3, <1>4, <1>5, EndsStand
-----------------------------------------------------------------------------
(* In a cycle the runs of the cycle have names of their own, which are not the subject's. *)
LEMMA InACycle ==
  ASSUME LoopTypeOK, SubjectStands, loop.at \notin BeforeTheLoop \cup {"done"}
  PROVE  /\ loop.cycle \in Cycles /\ loop.cycle > 0
         /\ \A what \in {"review", "revise", "compact"} :
              <<what, loop.cycle>> \in Names /\ <<what, loop.cycle>>[1] = what
                /\ <<what, loop.cycle>> # Origin
         /\ <<"review", loop.cycle>> # loop.subject /\ <<"compact", loop.cycle>> # loop.subject
         /\ loop.at \notin {"compact", "compacting"} => <<"revise", loop.cycle>> # loop.subject
         /\ <<"review", loop.cycle>> # <<"revise", loop.cycle>>
         /\ <<"compact", loop.cycle>> # <<"revise", loop.cycle>>
<1>1. loop.cycle \in Cycles /\ loop.cycle > 0
  BY IterateAssumption DEF LoopTypeOK, SubjectStands, Cycles
<1>2. /\ <<"review", loop.cycle>> # loop.subject /\ <<"compact", loop.cycle>> # loop.subject
      /\ loop.at \notin {"compact", "compacting"} => <<"revise", loop.cycle>> # loop.subject
  BY <1>1 DEF SubjectStands, Origin, Cycles
<1> QED BY <1>1, <1>2, NamesOfRuns

(* The world, the caller's signal and the plugin touch neither the call nor its runs. *)
LEMMA WorldStands ==
  ASSUME LoopInv,
         TimePasses \/ Abort \/ Release \/ DisposeOwners
           \/ \E key \in KnownKeys : Requalified(key) \/ EvidenceForgotten(key)
  PROVE  LoopInv'
<1> USE DEF worldVars
<1>1. LoopTypeOK /\ LoopStands
  BY DEF LoopInv
<1>2. UNCHANGED <<task, runs, loop>> /\ time' \in 0 .. LastTime
  BY <1>1, IterateAssumption
     DEF TimePasses, Abort, Release, DisposeOwners, Requalified, EvidenceForgotten, Change, LoopTypeOK
<1>3. \A q, r \in evidence' : q.key = r.key => q = r
  <2>1. CASE UNCHANGED evidence
    BY <1>1, <2>1 DEF LoopTypeOK
  <2>2. ASSUME NEW key \in KnownKeys, Requalified(key) \/ EvidenceForgotten(key)
        PROVE  \A q, r \in evidence' : q.key = r.key => q = r
    <3>1. PICK records : /\ evidence' = (evidence \ Matching(evidence, key)) \cup records
                         /\ records = {} \/ \E available \in BOOLEAN : records = {Record(key, time, available)}
      BY <2>2 DEF Requalified, EvidenceForgotten, Change
    <3>2. \A q, r \in records : q.key = key /\ q = r
      <4>1. \A available \in BOOLEAN : Record(key, time, available).key = key
        BY DEF Record
      <4> QED BY <3>1, <4>1
    <3>3. \A q \in evidence \ Matching(evidence, key) : q \in evidence /\ q.key # key
      BY DEF Matching
    <3>4. \A q, r \in evidence : q.key = r.key => q = r
      BY <1>1 DEF LoopTypeOK
    <3> QED BY <3>1, <3>2, <3>3, <3>4
  <2> QED BY <2>1, <2>2 DEF TimePasses, Abort, Release, DisposeOwners
<1>4. aborted' \in BOOLEAN /\ released' \in BOOLEAN /\ closed' \in BOOLEAN
  BY <1>1 DEF TimePasses, Abort, Release, DisposeOwners, Requalified, EvidenceForgotten, Change, LoopTypeOK
<1>5. released' => aborted' \/ loop'.at \in {"idle", "done"}
  BY <1>1, <1>2 DEF TimePasses, Abort, Release, DisposeOwners, Requalified, EvidenceForgotten, Change,
                    LoopStands
<1>6. LoopTypeOK'
  BY <1>1, <1>2, <1>3, <1>4 DEF LoopTypeOK
<1> QED BY <1>2, <1>5, <1>6, CallStands DEF LoopInv, LoopStands

(* A run that is deleted is none that the call waits for, since nothing runs then. *)
LEMMA ForgetStands ==
  ASSUME LoopInv, NEW name \in Names, ForgetRun(name)
  PROVE  LoopInv'
<1>1. LoopTypeOK /\ LoopStands /\ ResultIsJudged
  BY DEF LoopInv
<1>2. /\ UNCHANGED <<task, time, evidence, changes, loop, aborted, released, closed>> /\ Running = {}
      /\ DOMAIN runs' = Names /\ runs'[name] = Absent
      /\ \A other \in Names : other # name => runs'[other] = runs[other]
  BY <1>1 DEF ForgetRun, worldVars, LoopTypeOK
<1>3. \A other \in Names : runs'[other] # Absent => runs'[other] = runs[other] /\ runs[other] # Absent
  BY <1>2
<1>4. LoopTypeOK'
  BY <1>1, <1>2, <1>3 DEF LoopTypeOK
<1>5. SubjectStands'
  BY <1>1, <1>2, <1>3, NamesOfRuns DEF LoopStands, LoopTypeOK, SubjectStands, OfTheTask
<1>6. AwaitedStands'
  BY <1>1, <1>2 DEF LoopStands, AwaitedStands
<1>7. loop.cycle > 0 => <<"review", loop.cycle>> \in Names
  <2>1. loop.cycle > 0 => loop.cycle \in Cycles
    BY <1>1, IterateAssumption DEF LoopTypeOK, Cycles
  <2> QED BY <2>1, NamesOfRuns
<1>8. loop.at \in {"choose", "revise"} => loop.cycle > 0
  BY <1>1 DEF LoopStands, SubjectStands, LoopTypeOK, BeforeTheLoop
<1>9. JudgmentStands'
  BY <1>1, <1>2, <1>3, <1>7, <1>8 DEF LoopStands, JudgmentStands, ReviewOf
<1>10. ResultIsJudged'
  BY <1>1, <1>2, <1>3, <1>7 DEF ResultIsJudged, ReviewOf, LoopTypeOK
<1> QED BY <1>1, <1>2, <1>4, <1>5, <1>6, <1>9, <1>10 DEF LoopInv, LoopStands
-----------------------------------------------------------------------------
(* The task is delegated. *)
LEMMA DelegateStands ==
  ASSUME LoopInv, Delegate
  PROVE  LoopInv'
<1>1. LoopTypeOK
  BY DEF LoopInv
<1>2. /\ DOMAIN loop' = DOMAIN NoLoop /\ loop'.at = "delegate" /\ loop'.cycle = 0
      /\ loop'.subject = Origin /\ loop'.context = NoName
      /\ runs' = runs /\ runs[Origin] = Absent /\ ~released
      /\ UNCHANGED <<task, time, evidence, changes, aborted, released, closed>>
  BY DEF Delegate, NoLoop, Steady, worldVars
<1>3. LoopTypeOK'
  BY <1>1, <1>2, NamesOfRuns, IterateAssumption DEF LoopTypeOK, Labels
<1>4. SubjectStands' /\ AwaitedStands' /\ JudgmentStands'
  BY <1>2 DEF SubjectStands, AwaitedStands, JudgmentStands, BeforeTheLoop
<1> QED BY <1>2, <1>3, <1>4, GoesOnStands

(* The delegation is launched: its record is the original run, and asks for the task. *)
LEMMA DelegateLaunchStands ==
  ASSUME LoopInv, DelegateLaunch
  PROVE  LoopInv'
<1>1. LoopTypeOK /\ SubjectStands /\ loop.at = "delegate" /\ loop.cycle = 0 /\ loop.subject = Origin
  BY DEF LoopInv, LoopStands, SubjectStands, DelegateLaunch, BeforeTheLoop
<1>2. CASE UNCHANGED runs /\ (Leave("UNAVAILABLE") \/ Leave("REFUSED"))
  BY <1>1, <1>2, LeavesStand DEF DelegateLaunch
<1>3. CASE ~(UNCHANGED runs /\ (Leave("UNAVAILABLE") \/ Leave("REFUSED")))
  <2>1. Launch(Origin, NoName, NoName, "task", "delegated") /\ Steady
    BY <1>3 DEF DelegateLaunch
  <2>2. /\ ~aborted /\ DOMAIN runs' = Names /\ DOMAIN runs'[Origin] = Fields
        /\ runs'[Origin] # Absent /\ runs'[Origin].kind = Origin[1]
        /\ runs'[Origin].state = "RUNNING" /\ runs'[Origin].request = "task"
        /\ \A other \in Names : other # Origin => runs'[other] = runs[other]
        /\ Goto("delegated")
    BY <1>1, <1>3, <2>1, LaunchMeans, NamesOfRuns DEF Labels
  <2>3. /\ DOMAIN loop' = DOMAIN NoLoop /\ loop'.at = "delegated" /\ loop'.cycle = 0
        /\ loop'.subject = Origin /\ loop'.context = loop.context
    BY <1>1, <2>2, GotoMeans DEF Labels
  <2>4. LoopTypeOK'
    BY <1>1, <2>1, <2>2, <2>3, NamesOfRuns DEF LoopTypeOK, Labels, Steady, worldVars
  <2>5. SubjectStands' /\ AwaitedStands' /\ JudgmentStands'
    BY <2>2, <2>3, NamesOfRuns DEF SubjectStands, AwaitedStands, JudgmentStands, BeforeTheLoop, Running
  <2>6. released' => aborted'
    BY <1>1, <2>1 DEF LoopInv, LoopStands, Steady
  <2> QED BY <2>3, <2>4, <2>5, <2>6, GoesOnStands
<1> QED BY <1>2, <1>3

(* It ends, and its record stays one of the task. *)
LEMMA DelegatedStands ==
  ASSUME LoopInv, Delegated
  PROVE  LoopInv'
<1>1. /\ LoopTypeOK /\ SubjectStands /\ loop.at = "delegated" /\ loop.cycle = 0
      /\ loop.subject = Origin /\ runs[Origin] # Absent
  BY DEF LoopInv, LoopStands, SubjectStands, Delegated, BeforeTheLoop, AwaitedStands, Running, Absent
<1>2. PICK r : /\ runs' = [runs EXCEPT ![Origin] = r] /\ DOMAIN r = Fields
               /\ r.kind = runs[Origin].kind /\ r.request = runs[Origin].request
  <2>1. PICK e, text, route : runs' = [runs EXCEPT ![Origin] =
                   [@ EXCEPT !.state = e, !.text = text, !.provider = ProviderOf(route)]]
    BY Zenon DEF Delegated
  <2> DEFINE r == [runs[Origin] EXCEPT !.state = e, !.text = text, !.provider = ProviderOf(route)]
  <2>2. DOMAIN r = Fields /\ r.kind = runs[Origin].kind /\ r.request = runs[Origin].request
    BY <1>1, NamesOfRuns DEF LoopTypeOK, Fields
  <2>3. runs' = [runs EXCEPT ![Origin] = r]
    BY <2>1
  <2> QED BY <2>2, <2>3
<1>3. /\ DOMAIN runs' = Names /\ runs'[Origin] = r /\ runs'[Origin] # Absent
      /\ runs'[Origin].kind = Origin[1]
      /\ \A other \in Names : other # Origin => runs'[other] = runs[other]
  BY <1>1, <1>2, NamesOfRuns, WriteMeans
<1>4. /\ DOMAIN loop' = DOMAIN NoLoop /\ loop'.at = "done" /\ loop'.stopped = "DELEGATED"
      /\ loop'.cycle = 0 /\ loop'.subject = Origin /\ loop'.context = loop.context
  BY <1>1, LeaveMeans DEF Delegated
<1>5. LoopTypeOK'
  BY <1>1, <1>2, <1>3, <1>4 DEF LoopTypeOK, Labels, Delegated, Steady, worldVars
<1>6. SubjectStands'
  BY <1>1, <1>2, <1>3, <1>4 DEF SubjectStands
<1>7. Judged'
  BY <1>4 DEF Judged
<1> QED BY <1>4, <1>5, <1>6, <1>7, EndsStand
-----------------------------------------------------------------------------
(* The loop begins, with the run that was delegated. *)
LEMMA IterateStands ==
  ASSUME LoopInv, Iterate
  PROVE  LoopInv'
<1>1. LoopTypeOK /\ SubjectStands /\ loop.cycle = 0 /\ loop.subject = Origin
  BY DEF LoopInv, LoopStands, SubjectStands, Iterate
<1>2. /\ DOMAIN loop' = DOMAIN NoLoop /\ loop'.cycle = 0 /\ loop'.subject = Origin
      /\ loop'.context = NoName
      /\ loop'.at = "compactor" \/ (loop'.at = "done" /\ loop'.stopped = "REFUSED")
      /\ UNCHANGED <<task, time, evidence, changes, runs, released, closed>>
      /\ ~released /\ aborted' = FALSE
  BY DEF Iterate, NoLoop, worldVars
<1>3. LoopTypeOK'
  BY <1>1, <1>2, NamesOfRuns, IterateAssumption DEF LoopTypeOK, Labels
<1>4. SubjectStands'
  BY <1>1, <1>2 DEF SubjectStands, BeforeTheLoop
<1>5. CASE loop'.at = "compactor"
  <2>1. AwaitedStands' /\ JudgmentStands'
    BY <1>5 DEF AwaitedStands, JudgmentStands
  <2> QED BY <1>2, <1>3, <1>4, <1>5, <2>1, GoesOnStands
<1>6. CASE loop'.at = "done" /\ loop'.stopped = "REFUSED"
  BY <1>3, <1>4, <1>6, EndsStand DEF Judged
<1> QED BY <1>2, <1>5, <1>6

(* The first cycle begins, with the original run as its subject. *)
LEMMA CompactorStands ==
  ASSUME LoopInv, Compactor
  PROVE  LoopInv'
<1>1. LoopTypeOK /\ SubjectStands /\ loop.at = "compactor" /\ loop.cycle = 0 /\ loop.subject = Origin
  BY DEF LoopInv, LoopStands, SubjectStands, Compactor, BeforeTheLoop
<1>2. /\ DOMAIN loop' = DOMAIN NoLoop /\ loop'.at = "subject" /\ loop'.cycle = 1
      /\ loop'.subject = Origin /\ loop'.context = loop.context /\ runs' = runs
      /\ UNCHANGED <<task, time, evidence, changes, aborted, released, closed>>
  BY <1>1 DEF Compactor, LoopTypeOK, NoLoop, Steady, worldVars
<1>3. LoopTypeOK'
  BY <1>1, <1>2, IterateAssumption DEF LoopTypeOK, Labels
<1>4. SubjectStands' /\ AwaitedStands' /\ JudgmentStands'
  BY <1>1, <1>2 DEF SubjectStands, AwaitedStands, JudgmentStands, BeforeTheLoop, OfTheTask
<1>5. released' => aborted'
  BY <1>1, <1>2 DEF LoopInv, LoopStands
<1> QED BY <1>2, <1>3, <1>4, <1>5, GoesOnStands

(* A call that has chosen a route for its next run keeps what it knows. *)
LEMMA ChoiceStands ==
  ASSUME LoopInv, Steady, UNCHANGED runs, NEW c,
         NEW l \in {"review", "revise"}, loop' = [loop EXCEPT !.at = l, !.chosen = c],
         loop.at \in {"subject", "choose"}, l = "revise" => loop.at = "choose"
  PROVE  LoopInv'
<1>1. LoopTypeOK /\ SubjectStands
  BY DEF LoopInv, LoopStands
<1>2. /\ DOMAIN loop' = DOMAIN NoLoop /\ loop'.at = l /\ loop'.cycle = loop.cycle
      /\ loop'.subject = loop.subject /\ loop'.context = loop.context
  BY <1>1, ChooseMeans DEF Labels
<1>3. LoopTypeOK'
  BY <1>1, <1>2 DEF LoopTypeOK, Labels, Steady, worldVars
<1>4. SubjectStands'
  BY <1>1, <1>2 DEF SubjectStands, BeforeTheLoop, OfTheTask, Steady
<1>5. AwaitedStands' /\ JudgmentStands'
  BY <1>1, <1>2 DEF LoopInv, LoopStands, AwaitedStands, JudgmentStands, ReviewOf
<1>6. released' => aborted'
  BY DEF LoopInv, LoopStands, Steady
<1> QED BY <1>2, <1>3, <1>4, <1>5, <1>6, GoesOnStands

(* A reviewer is chosen, or none is to be had. *)
LEMMA ReviewStands ==
  ASSUME LoopInv, Review
  PROVE  LoopInv'
<1>1. PICK c : \/ Leave("REFUSED") \/ Leave("REVIEW_UNAVAILABLE")
               \/ loop' = [loop EXCEPT !.at = "review", !.chosen = c]
  BY DEF Review
<1>2. Steady /\ UNCHANGED runs /\ loop.at = "subject"
  BY DEF Review
<1> QED BY <1>1, <1>2, LeavesStand, ChoiceStands

(* A reviser is chosen: the judgment that asked for it stands. *)
LEMMA ChooseStands ==
  ASSUME LoopInv, Choose
  PROVE  LoopInv'
<1>1. PICK c : \/ Leave("REFUSED") \/ Leave("REVISE_UNAVAILABLE")
               \/ loop' = [loop EXCEPT !.at = "revise", !.chosen = c]
  BY DEF Choose
<1>2. Steady /\ UNCHANGED runs /\ loop.at = "choose"
  BY DEF Choose
<1> QED BY <1>1, <1>2, LeavesStand, ChoiceStands
-----------------------------------------------------------------------------
(* A run of the cycle is launched about the subject, and the call waits for it; or it is
   refused, and the call ends.  A reviser's request is the original one, since the subject
   it continues is there and is an answer to that. *)
LEMMA RunLaunchStands ==
  ASSUME LoopInv, Steady, NEW c, NEW q,
         NEW what \in {"review", "revise", "compact"}, NEW l \in {"reviewing", "revising", "compacting"},
         \/ what = "review" /\ loop.at = "review" /\ l = "reviewing"
         \/ what = "revise" /\ loop.at = "revise" /\ l = "revising"
              /\ (RoleOf(task) # "review" => q = RequestOf(loop.subject))
         \/ what = "compact" /\ loop.at = "compact" /\ l = "compacting",
         Launch(<<what, loop.cycle>>, loop.subject, c, q, l)
  PROVE  LoopInv'
<1> DEFINE name == <<what, loop.cycle>>
<1>1. LoopTypeOK /\ SubjectStands
  BY DEF LoopInv, LoopStands
<1>2. /\ name \in Names /\ name # loop.subject /\ name # Origin /\ name[1] = what
      /\ loop.cycle > 0 /\ loop.cycle \in Cycles /\ loop.subject \in Names
      /\ loop.subject # NoName
  <2>1. loop.at \notin BeforeTheLoop \cup {"done"}
    BY DEF BeforeTheLoop
  <2> QED BY <1>1, <2>1, InACycle, NamesOfRuns DEF LoopTypeOK
<1> HIDE DEF name
<1>3. CASE runs' = runs /\ Leave("REFUSED")
  BY <1>3, LeavesStand
<1>4. CASE ~(runs' = runs /\ Leave("REFUSED"))
  <2>1. /\ ~aborted /\ Reviewable(loop.subject)
        /\ DOMAIN runs' = Names /\ DOMAIN runs'[name] = Fields
        /\ runs'[name] # Absent /\ runs'[name].kind = name[1]
        /\ runs'[name].state = "RUNNING" /\ runs'[name].reviews = loop.subject
        /\ runs'[name].request = q
        /\ \A other \in Names : other # name => runs'[other] = runs[other]
        /\ Goto(l)
    <3>1. Launch(name, loop.subject, c, q, l)
      BY DEF name
    <3>2. l \in Labels
      BY DEF Labels
    <3> QED BY <1>1, <1>2, <1>4, <3>1, <3>2, LaunchMeans
  <2>2. /\ DOMAIN loop' = DOMAIN NoLoop /\ loop'.at = l /\ loop'.cycle = loop.cycle
        /\ loop'.subject = loop.subject /\ loop'.context = loop.context
    BY <1>1, <2>1, GotoMeans DEF Labels
  <2>3. UNCHANGED <<task, time, evidence, changes, aborted, released, closed>>
    BY DEF Steady, worldVars
  <2>4. LoopTypeOK'
    BY <1>1, <1>2, <2>1, <2>2, <2>3 DEF LoopTypeOK, Labels
  <2>5. runs'[loop.subject] = runs[loop.subject]
    BY <1>2, <2>1
  <2>6. SubjectStands'
    BY <1>1, <1>2, <2>2, <2>3, <2>5 DEF SubjectStands, BeforeTheLoop, OfTheTask
  <2>7. name \in Running'
    BY <1>2, <2>1, NamesOfRuns DEF Running
  <2>8. l = "revising" /\ RoleOf(task) # "review" => runs'[name].request = "task"
    <3>1. CASE l = "revising" /\ RoleOf(task) # "review"
      <4>1. runs[loop.subject] # Absent
        BY <2>1 DEF Reviewable, Absent
      <4>2. runs[loop.subject].request = "task"
        BY <1>1, <3>1, <4>1 DEF SubjectStands, OfTheTask
      <4> QED BY <2>1, <3>1, <4>1, <4>2 DEF RequestOf
    <3> QED BY <3>1
  <2>9. AwaitedStands'
    BY <2>1, <2>2, <2>3, <2>7, <2>8 DEF AwaitedStands, ReviewOf, OfTheTask, name
  <2>10. JudgmentStands'
    BY <2>2 DEF JudgmentStands
  <2>11. released' => aborted'
    BY <2>3 DEF LoopInv, LoopStands
  <2> QED BY <2>2, <2>4, <2>6, <2>9, <2>10, <2>11, GoesOnStands
<1> QED BY <1>3, <1>4

(* The three launches of a cycle are of this form. *)
LEMMA LaunchesStand ==
  ASSUME LoopInv, ReviewLaunch \/ ReviseLaunch \/ CompactLaunch
  PROVE  LoopInv'
<1>1. CASE ReviewLaunch
  BY <1>1, RunLaunchStands DEF ReviewLaunch
<1>2. CASE ReviseLaunch
  BY <1>2, RunLaunchStands DEF ReviseLaunch
<1>3. CASE CompactLaunch
  BY <1>3, RunLaunchStands DEF CompactLaunch
<1> QED BY <1>1, <1>2, <1>3
-----------------------------------------------------------------------------
(* A run of the cycle that the call waits for is written as it ends: it exists, and is
   neither the subject nor another run of the cycle. *)
LEMMA RunEnds ==
  ASSUME LoopInv, NEW what \in {"review", "revise", "compact"},
         \/ what = "review" /\ loop.at = "reviewing"
         \/ what = "revise" /\ loop.at = "revising"
         \/ what = "compact" /\ loop.at = "compacting",
         NEW r, DOMAIN r = DOMAIN runs[<<what, loop.cycle>>],
         r.kind = runs[<<what, loop.cycle>>].kind,
         runs' = [runs EXCEPT ![<<what, loop.cycle>>] = r]
  PROVE  /\ DOMAIN r = Fields /\ DOMAIN runs' = Names /\ runs'[<<what, loop.cycle>>] = r
         /\ \A name \in Names : runs'[name] # Absent =>
              DOMAIN runs'[name] = Fields /\ runs'[name].kind = name[1]
         /\ \A other \in Names : other # <<what, loop.cycle>> => runs'[other] = runs[other]
<1> DEFINE name == <<what, loop.cycle>>
<1>1. LoopTypeOK /\ SubjectStands /\ AwaitedStands
  BY DEF LoopInv, LoopStands
<1>2. name \in Names /\ runs[name] # Absent
  BY <1>1 DEF AwaitedStands, Running, Absent
<1>3. DOMAIN r = Fields /\ runs[name].kind = name[1]
  BY <1>1, <1>2 DEF LoopTypeOK
<1> HIDE DEF name
<1>4. /\ DOMAIN runs' = Names /\ runs'[name] = r /\ runs'[name] # Absent
      /\ DOMAIN runs'[name] = Fields /\ runs'[name].kind = name[1]
      /\ \A other \in Names : other # name => runs'[other] = runs[other]
  <2>1. runs' = [runs EXCEPT ![name] = r] /\ r.kind = runs[name].kind
    BY DEF name
  <2> QED BY <1>1, <1>2, <1>3, <2>1, WriteMeans
<1>5. \A other \in Names : runs'[other] # Absent =>
        DOMAIN runs'[other] = Fields /\ runs'[other].kind = other[1]
  BY <1>1, <1>4 DEF LoopTypeOK
<1> QED BY <1>3, <1>4, <1>5 DEF name

(* What the decision of a cycle says of the review that led to it. *)
LEMMA Decisions ==
  ASSUME NEW state, NEW reply, NEW verdict, NEW decision, NEW cycle \in Nat,
         verdict = IF state = "INTERRUPTED_UNKNOWN" THEN Unreadable ELSE ParseVerdict(reply),
         decision = LoopDecision(verdict, state, cycle, MaxCycles)
  PROVE  /\ decision # "DELEGATED"
         /\ decision = "REVISING" =>
              /\ cycle < MaxCycles /\ state = "COMPLETED"
              /\ verdict.verdict \in Revisable /\ verdict.contradictions = {}
         /\ decision \in {"VERIFIED", "UNCONVERGED"} =>
              /\ state = "COMPLETED"
              /\ decision = "VERIFIED" <=> reply.verdict = "verified"
              /\ decision = "VERIFIED" => reply.onObjective /\ "blocker" \notin ToSet(reply.findings)
<1>1. decision # "DELEGATED"
  BY DEF LoopDecision
<1>2. decision \in {"REVISING", "VERIFIED", "UNCONVERGED"} =>
        /\ state = "COMPLETED" /\ verdict.verdict # "none" /\ verdict.contradictions = {}
        /\ decision = "VERIFIED" <=> verdict.verdict = "verified"
        /\ decision # "VERIFIED" => verdict.verdict # "needs-clarification"
        /\ decision = "REVISING" => ~(cycle >= MaxCycles)
  BY DEF LoopDecision
<1>3. verdict.verdict # "none" =>
        /\ verdict.verdict = reply.verdict /\ reply.verdict \in Verdicts
        /\ verdict.contradictions = Contradictions(reply)
  BY DEF ParseVerdict, Unreadable
<1>4. Contradictions(reply) = {} /\ reply.verdict = "verified" =>
        reply.onObjective /\ "blocker" \notin ToSet(reply.findings)
  BY DEF Contradictions
<1>5. ~(cycle >= MaxCycles) => cycle < MaxCycles
  BY IterateAssumption
<1>6. decision = "REVISING" =>
        /\ cycle < MaxCycles /\ state = "COMPLETED"
        /\ verdict.verdict \in Revisable /\ verdict.contradictions = {}
  BY <1>2, <1>3, <1>5 DEF Verdicts, Revisable
<1>7. decision \in {"VERIFIED", "UNCONVERGED"} =>
        /\ state = "COMPLETED"
        /\ decision = "VERIFIED" <=> reply.verdict = "verified"
        /\ decision = "VERIFIED" => reply.onObjective /\ "blocker" \notin ToSet(reply.findings)
  BY <1>2, <1>3, <1>4
<1> QED BY <1>1, <1>6, <1>7

(* The review ends: the loop revises for a coherent verdict that asks for it, or hands the
   subject back with the verdict on that very subject. *)
LEMMA ReviewedStands ==
  ASSUME LoopInv, Reviewed
  PROVE  LoopInv'
<1> DEFINE name == <<"review", loop.cycle>>
<1>1. /\ LoopTypeOK /\ SubjectStands /\ AwaitedStands /\ loop.at = "reviewing"
      /\ runs[name].reviews = loop.subject
  BY DEF LoopInv, LoopStands, Reviewed, AwaitedStands, ReviewOf
<1>2. loop.cycle \in Cycles /\ loop.cycle \in Nat /\ name \in Names /\ name # loop.subject /\ loop.cycle > 0
  BY <1>1, InACycle DEF BeforeTheLoop, Cycles
<1>3. PICK state, reply, verdict, decision :
        /\ verdict = IF state = "INTERRUPTED_UNKNOWN" THEN Unreadable ELSE ParseVerdict(reply)
        /\ decision = LoopDecision(verdict, state, loop.cycle, MaxCycles)
        /\ runs' = [runs EXCEPT ![name] =
                      [@ EXCEPT !.state = state, !.text = TRUE, !.verdict = verdict, !.reply = reply]]
        /\ IF decision = "REVISING" THEN loop' = [loop EXCEPT !.at = "choose"] ELSE Leave(decision)
  BY Zenon DEF Reviewed
<1>4. PICK r : /\ runs' = [runs EXCEPT ![name] = r] /\ DOMAIN r = DOMAIN runs[name]
               /\ r.kind = runs[name].kind /\ r.reviews = runs[name].reviews
               /\ r.state = state /\ r.verdict = verdict /\ r.reply = reply
  <2> DEFINE r == [runs[name] EXCEPT !.state = state, !.text = TRUE, !.verdict = verdict, !.reply = reply]
  <2>1. runs' = [runs EXCEPT ![name] = r]
    BY <1>3
  <2>2. DOMAIN runs[name] = Fields
    BY <1>1, <1>2 DEF LoopTypeOK, AwaitedStands, Running, Absent
  <2>3. /\ DOMAIN r = DOMAIN runs[name] /\ r.kind = runs[name].kind /\ r.reviews = runs[name].reviews
        /\ r.state = state /\ r.verdict = verdict /\ r.reply = reply
    BY <2>2 DEF Fields
  <2> QED BY <2>1, <2>3
<1>5. /\ DOMAIN runs' = Names /\ runs'[name] = r
      /\ \A other \in Names : runs'[other] # Absent =>
           DOMAIN runs'[other] = Fields /\ runs'[other].kind = other[1]
      /\ \A other \in Names : other # name => runs'[other] = runs[other]
  BY <1>1, <1>4, RunEnds
<1>6. UNCHANGED <<task, time, evidence, changes, aborted, released, closed>>
  BY DEF Reviewed, Steady, worldVars
<1>7. /\ DOMAIN loop' = DOMAIN NoLoop /\ loop'.cycle = loop.cycle /\ loop'.subject = loop.subject
      /\ loop'.context = loop.context
      /\ decision = "REVISING" => loop'.at = "choose"
      /\ decision # "REVISING" => loop'.at = "done" /\ loop'.stopped = decision
  <2>1. CASE decision = "REVISING"
    BY <1>1, <1>3, <2>1 DEF LoopTypeOK, NoLoop
  <2>2. CASE decision # "REVISING"
    BY <1>1, <1>3, <2>2, LeaveMeans
  <2> QED BY <2>1, <2>2
<1> HIDE DEF name
<1>8. LoopTypeOK'
  BY <1>1, <1>5, <1>6, <1>7 DEF LoopTypeOK, Labels
<1>9. runs'[loop.subject] = runs[loop.subject]
  BY <1>1, <1>2, <1>5 DEF LoopTypeOK
<1>10. /\ decision # "DELEGATED"
       /\ decision = "REVISING" =>
            /\ loop.cycle < MaxCycles /\ state = "COMPLETED"
            /\ verdict.verdict \in Revisable /\ verdict.contradictions = {}
       /\ decision \in {"VERIFIED", "UNCONVERGED"} =>
            /\ state = "COMPLETED"
            /\ decision = "VERIFIED" <=> reply.verdict = "verified"
            /\ decision = "VERIFIED" => reply.onObjective /\ "blocker" \notin ToSet(reply.findings)
  BY <1>2, <1>3, Decisions
<1>11. SubjectStands'
  BY <1>1, <1>2, <1>6, <1>7, <1>9, <1>10 DEF SubjectStands, BeforeTheLoop, OfTheTask
<1>12. ReviewOf(loop.cycle)' = r
  BY <1>5, <1>7 DEF ReviewOf, name
<1>13. CASE decision = "REVISING"
  <2>1. AwaitedStands'
    BY <1>7, <1>13 DEF AwaitedStands
  <2>2. JudgmentStands'
    BY <1>1, <1>4, <1>7, <1>10, <1>12, <1>13 DEF JudgmentStands
  <2>3. released' => aborted'
    BY <1>1, <1>6 DEF LoopInv, LoopStands
  <2> QED BY <1>7, <1>8, <1>11, <1>13, <2>1, <2>2, <2>3, GoesOnStands
<1>14. CASE decision # "REVISING"
  <2>1. Judged'
    BY <1>1, <1>4, <1>7, <1>10, <1>12, <1>14 DEF Judged
  <2> QED BY <1>7, <1>8, <1>11, <1>14, <2>1, EndsStand
<1> QED BY <1>13, <1>14
-----------------------------------------------------------------------------
(* The loop goes on with the next cycle, or has had its last; its subject is then the one
   it names. *)
LEMMA NextCycleMeans ==
  ASSUME LoopTypeOK, loop.cycle \in Cycles, NEW subject, NEW context, NextCycle(subject, context)
  PROVE  /\ DOMAIN loop' = DOMAIN NoLoop /\ loop'.subject = subject
         /\ \/ /\ loop'.at = "done" /\ loop'.stopped = "REVISING"
               /\ loop'.cycle = loop.cycle /\ loop'.context = loop.context
            \/ /\ loop'.at = "subject" /\ loop'.cycle = loop.cycle + 1 /\ loop'.cycle \in Cycles
               /\ loop'.context = context
<1>1. CASE loop.cycle = MaxCycles
  BY <1>1 DEF NextCycle, LoopTypeOK, NoLoop
<1>2. CASE loop.cycle # MaxCycles
  <2>1. loop.cycle + 1 \in Cycles
    BY <1>2, IterateAssumption DEF Cycles
  <2> QED BY <1>2, <2>1 DEF NextCycle, LoopTypeOK, NoLoop
<1> QED BY <1>1, <1>2

(* A call that moves on stands, when what it moves on with is the original run or a finished
   revision of this cycle or an earlier one. *)
LEMMA MovesOnStands ==
  ASSUME LoopInv, Steady, loop.cycle \in Cycles, loop.at # "done", loop.at # "idle",
         NEW subject, NEW context \in Names \cup {NoName}, NextCycle(subject, context),
         DOMAIN runs' = Names,
         \A name \in Names : runs'[name] # Absent =>
           DOMAIN runs'[name] = Fields /\ runs'[name].kind = name[1],
         subject = Origin \/ \E n \in Cycles : n <= loop.cycle /\ subject = <<"revise", n>>,
         runs'[subject] # Absent =>
           IF subject = Origin THEN runs'[Origin].request = "task"
           ELSE /\ runs'[subject].state = "COMPLETED"
                /\ RoleOf(task) # "review" => runs'[subject].request = "task"
  PROVE  LoopInv'
<1>1. LoopTypeOK /\ (released => aborted)
  BY DEF LoopInv, LoopStands
<1>2. /\ DOMAIN loop' = DOMAIN NoLoop /\ loop'.subject = subject
      /\ \/ /\ loop'.at = "done" /\ loop'.stopped = "REVISING"
            /\ loop'.cycle = loop.cycle /\ loop'.context = loop.context
         \/ /\ loop'.at = "subject" /\ loop'.cycle = loop.cycle + 1 /\ loop'.cycle \in Cycles
            /\ loop'.context = context
  BY <1>1, NextCycleMeans
<1>3. UNCHANGED <<task, time, evidence, changes, aborted, released, closed>>
  BY DEF Steady, worldVars
<1>4. subject \in Names
  BY NamesOfRuns
<1>5. loop'.cycle \in 0 .. MaxCycles /\ loop'.cycle > 0
  BY <1>2, IterateAssumption DEF Cycles
<1>6. LoopTypeOK'
  BY <1>1, <1>2, <1>3, <1>4, <1>5 DEF LoopTypeOK, Labels
<1>7. SubjectStands'
  <2>1. subject # Origin =>
          \E n \in Cycles : subject = <<"revise", n>> /\ (n < loop'.cycle \/ (n = loop'.cycle /\ loop'.at = "done"))
    BY <1>2, IterateAssumption DEF Cycles
  <2>2. loop'.at \notin BeforeTheLoop /\ (loop'.at = "done" => loop'.stopped # "DELEGATED")
    BY <1>2 DEF BeforeTheLoop
  <2>3. runs'[subject] # Absent =>
          IF subject = Origin THEN runs'[Origin].request = "task"
          ELSE runs'[subject].state = "COMPLETED" /\ (RoleOf(task') # "review" => runs'[subject].request = "task")
    BY <1>3
  <2> QED BY <1>2, <1>5, <2>1, <2>2, <2>3 DEF SubjectStands, OfTheTask
<1>8. CASE loop'.at = "done"
  <2>1. Judged'
    BY <1>2, <1>8 DEF Judged
  <2> QED BY <1>6, <1>7, <1>8, <2>1, EndsStand
<1>9. CASE loop'.at = "subject"
  <2>1. AwaitedStands' /\ JudgmentStands' /\ (released' => aborted')
    BY <1>1, <1>3, <1>9 DEF AwaitedStands, JudgmentStands
  <2> QED BY <1>6, <1>7, <1>9, <2>1, GoesOnStands
<1> QED BY <1>2, <1>8, <1>9

(* The revision ends: unfinished, the subject stays what it was; finished, it is the next. *)
LEMMA RevisedStands ==
  ASSUME LoopInv, Revised
  PROVE  LoopInv'
<1> DEFINE name == <<"revise", loop.cycle>>
<1>1. /\ LoopTypeOK /\ SubjectStands /\ AwaitedStands /\ loop.at = "revising"
      /\ RoleOf(task) # "review" => runs[name].request = "task"
      /\ released => aborted
  BY DEF LoopInv, LoopStands, Revised, AwaitedStands, OfTheTask
<1>2. /\ loop.cycle \in Cycles /\ loop.cycle \in Nat /\ name \in Names /\ name # loop.subject
      /\ name # Origin /\ loop.cycle > 0
  BY <1>1, InACycle DEF BeforeTheLoop, Cycles
<1>3. PICK state, text :
        /\ runs' = [runs EXCEPT ![name] = [@ EXCEPT !.state = state, !.text = text]]
        /\ IF state # "COMPLETED" THEN Leave("REVISION_INCOMPLETE")
           ELSE IF loop.compactor.status = "SELECTED" /\ loop.cycle < MaxCycles
                THEN loop' = [loop EXCEPT !.at = "compact", !.chosen = loop.compactor,
                                          !.subject = name, !.context = NoName]
                ELSE NextCycle(name, NoName)
  BY Zenon DEF Revised
<1>4. PICK r : /\ runs' = [runs EXCEPT ![name] = r] /\ DOMAIN r = DOMAIN runs[name]
               /\ r.kind = runs[name].kind /\ r.request = runs[name].request /\ r.state = state
  <2> DEFINE r == [runs[name] EXCEPT !.state = state, !.text = text]
  <2>1. runs' = [runs EXCEPT ![name] = r]
    BY <1>3
  <2>2. DOMAIN runs[name] = Fields
    BY <1>1, <1>2 DEF LoopTypeOK, AwaitedStands, Running, Absent
  <2>3. /\ DOMAIN r = DOMAIN runs[name] /\ r.kind = runs[name].kind /\ r.request = runs[name].request
        /\ r.state = state
    BY <2>2 DEF Fields
  <2> QED BY <2>1, <2>3
<1>5. /\ DOMAIN runs' = Names /\ runs'[name] = r
      /\ \A other \in Names : runs'[other] # Absent =>
           DOMAIN runs'[other] = Fields /\ runs'[other].kind = other[1]
      /\ \A other \in Names : other # name => runs'[other] = runs[other]
  BY <1>1, <1>4, RunEnds
<1>6. Steady /\ UNCHANGED <<task, time, evidence, changes, aborted, released, closed>>
  BY DEF Revised, Steady, worldVars
<1>7. runs'[loop.subject] = runs[loop.subject]
  BY <1>1, <1>2, <1>5 DEF LoopTypeOK
<1>8. state = "COMPLETED" =>
        runs'[name].state = "COMPLETED" /\ (RoleOf(task) # "review" => runs'[name].request = "task")
  BY <1>1, <1>4, <1>5
<1>9. CASE state # "COMPLETED"
  <2>1. /\ DOMAIN loop' = DOMAIN NoLoop /\ loop'.at = "done" /\ loop'.stopped = "REVISION_INCOMPLETE"
        /\ loop'.cycle = loop.cycle /\ loop'.subject = loop.subject /\ loop'.context = loop.context
    BY <1>1, <1>3, <1>9, LeaveMeans
  <2>2. LoopTypeOK'
    BY <1>1, <1>5, <1>6, <2>1 DEF LoopTypeOK, Labels
  <2>3. SubjectStands'
    BY <1>1, <1>2, <1>6, <1>7, <2>1 DEF SubjectStands, BeforeTheLoop, OfTheTask
  <2> QED BY <2>1, <2>2, <2>3, EndsStand DEF Judged
<1>10. CASE state = "COMPLETED" /\ NextCycle(name, NoName)
  BY <1>1, <1>2, <1>5, <1>6, <1>8, <1>10, MovesOnStands
<1>11. CASE state = "COMPLETED" /\ ~NextCycle(name, NoName)
  <2>1. loop' = [loop EXCEPT !.at = "compact", !.chosen = loop.compactor, !.subject = name, !.context = NoName]
    BY <1>3, <1>11
  <2>2. /\ DOMAIN loop' = DOMAIN NoLoop /\ loop'.at = "compact" /\ loop'.cycle = loop.cycle
        /\ loop'.subject = name /\ loop'.context = NoName
    BY <1>1, <2>1 DEF LoopTypeOK, NoLoop
  <2>3. LoopTypeOK'
    BY <1>1, <1>2, <1>5, <1>6, <2>2 DEF LoopTypeOK, Labels
  <2>4. SubjectStands'
    BY <1>2, <1>6, <1>8, <1>11, <2>2 DEF SubjectStands, BeforeTheLoop, OfTheTask
  <2>5. AwaitedStands' /\ JudgmentStands' /\ (released' => aborted')
    BY <1>1, <1>6, <2>2 DEF AwaitedStands, JudgmentStands
  <2> QED BY <2>2, <2>3, <2>4, <2>5, GoesOnStands
<1> QED BY <1>3, <1>9, <1>10, <1>11

(* The compaction ends, and touches the context only. *)
LEMMA CompactedStands ==
  ASSUME LoopInv, Compacted
  PROVE  LoopInv'
<1> DEFINE name == <<"compact", loop.cycle>>
<1>1. /\ LoopTypeOK /\ SubjectStands /\ AwaitedStands /\ loop.at = "compacting"
  BY DEF LoopInv, LoopStands, Compacted
<1>2. loop.cycle \in Cycles /\ loop.cycle \in Nat /\ name \in Names /\ name # loop.subject
  BY <1>1, InACycle DEF BeforeTheLoop, Cycles
<1>3. PICK state, applied, ended :
        /\ runs' = [runs EXCEPT ![name] =
                      [@ EXCEPT !.state = ended, !.text = TRUE, !.applied = applied]]
        /\ NextCycle(loop.subject, IF applied THEN name ELSE NoName)
  BY Zenon DEF Compacted
<1>4. PICK r : runs' = [runs EXCEPT ![name] = r] /\ DOMAIN r = DOMAIN runs[name] /\ r.kind = runs[name].kind
  <2> DEFINE r == [runs[name] EXCEPT !.state = ended, !.text = TRUE, !.applied = applied]
  <2>1. runs' = [runs EXCEPT ![name] = r]
    BY <1>3
  <2>2. DOMAIN runs[name] = Fields
    BY <1>1, <1>2 DEF LoopTypeOK, AwaitedStands, Running, Absent
  <2>3. DOMAIN r = DOMAIN runs[name] /\ r.kind = runs[name].kind
    BY <2>2 DEF Fields
  <2> QED BY <2>1, <2>3
<1>5. /\ DOMAIN runs' = Names
      /\ \A other \in Names : runs'[other] # Absent =>
           DOMAIN runs'[other] = Fields /\ runs'[other].kind = other[1]
      /\ \A other \in Names : other # name => runs'[other] = runs[other]
  BY <1>1, <1>4, RunEnds
<1>6. runs'[loop.subject] = runs[loop.subject]
  BY <1>1, <1>2, <1>5 DEF LoopTypeOK
<1>7. loop.subject = Origin \/ \E n \in Cycles : n <= loop.cycle /\ loop.subject = <<"revise", n>>
  BY <1>1, <1>2 DEF SubjectStands, Cycles
<1>8. runs'[loop.subject] # Absent =>
        IF loop.subject = Origin THEN runs'[Origin].request = "task"
        ELSE /\ runs'[loop.subject].state = "COMPLETED"
             /\ RoleOf(task) # "review" => runs'[loop.subject].request = "task"
  BY <1>1, <1>6 DEF SubjectStands, OfTheTask
<1>9. (IF applied THEN name ELSE NoName) \in Names \cup {NoName} /\ Steady
  BY <1>2 DEF Compacted
<1> HIDE DEF name
<1> QED BY <1>1, <1>2, <1>3, <1>5, <1>7, <1>8, <1>9, MovesOnStands
-----------------------------------------------------------------------------
(* The invariant holds at first, and every step keeps it. *)
LEMMA LoopBegins == LoopInit => LoopInv
<1> SUFFICES ASSUME LoopInit PROVE LoopInv
  OBVIOUS
<1>1. /\ loop.at = "idle" /\ loop.cycle = 0 /\ loop.subject = Origin /\ loop.context = NoName
      /\ DOMAIN loop = DOMAIN NoLoop /\ loop.stopped = "none"
  BY DEF LoopInit, NoLoop
<1>2. \A q, r \in evidence : q.key = r.key => q = r
  <2> DEFINE first(key) == Record(key, 1 - Validity, TRUE)
  <2>1. \A key \in KnownKeys : first(key).key = key
    BY DEF Record
  <2>2. evidence = {first(key) : key \in KnownKeys}
    BY DEF LoopInit
  <2> HIDE DEF first
  <2> QED BY <2>1, <2>2
<1>3. LoopTypeOK
  <2>1. time \in 0 .. LastTime /\ 0 \in 0 .. MaxCycles
    BY IterateAssumption DEF LoopInit
  <2>2. DOMAIN runs = Names /\ \A name \in Names : runs[name] = Absent
    BY DEF LoopInit
  <2> QED BY <1>1, <1>2, <2>1, <2>2, NamesOfRuns DEF LoopInit, LoopTypeOK, Labels
<1>4. LoopStands
  BY <1>1, NamesOfRuns
     DEF LoopInit, LoopStands, SubjectStands, AwaitedStands, JudgmentStands, BeforeTheLoop
<1> QED BY <1>1, <1>3, <1>4 DEF LoopInv, ResultIsJudged

(* Every action, and a step that changes nothing. *)
LEMMA LoopGoesOn == LoopInv /\ [LoopNext]_loopVars => LoopInv'
<1> SUFFICES ASSUME LoopInv, [LoopNext]_loopVars PROVE LoopInv'
  OBVIOUS
<1>1. CASE Delegate \/ DelegateLaunch \/ Delegated
  BY <1>1, DelegateStands, DelegateLaunchStands, DelegatedStands
<1>2. CASE Iterate \/ Compactor \/ Review \/ Choose
  BY <1>2, IterateStands, CompactorStands, ReviewStands, ChooseStands
<1>3. CASE ReviewLaunch \/ ReviseLaunch \/ CompactLaunch
  BY <1>3, LaunchesStand
<1>4. CASE Reviewed \/ Revised \/ Compacted
  BY <1>4, ReviewedStands, RevisedStands, CompactedStands
<1>5. CASE TimePasses \/ Abort \/ Release \/ DisposeOwners
             \/ \E key \in KnownKeys : Requalified(key) \/ EvidenceForgotten(key)
  BY <1>5, WorldStands
<1>6. CASE \E name \in Names : ForgetRun(name)
  BY <1>6, ForgetStands
<1>7. CASE UNCHANGED loopVars
  <2>1. UNCHANGED <<task, time, evidence, changes, runs, loop, aborted, released, closed>>
    BY <1>7 DEF loopVars, worldVars
  <2>2. LoopTypeOK' /\ (released' => aborted' \/ loop'.at \in {"idle", "done"})
    BY <2>1 DEF LoopInv, LoopStands, LoopTypeOK
  <2> QED BY <2>1, <2>2, CallStands DEF LoopInv, LoopStands
<1> QED BY <1>1, <1>2, <1>3, <1>4, <1>5, <1>6, <1>7 DEF LoopNext, Step

(* What the loop hands back was judged: at its end its subject is the run it was given or a
   finished revision of it, and a VERIFIED is a finished review's, of that very answer,
   with the objective met and no blocker declared.  (The loop of orchestrator_iterate in
   src/src/plugin.mjs, for any tasks, replies, evidence and moments at which runs are
   deleted, the call is aborted or the plugin unloaded.) *)
THEOREM LoopIsJudged == LoopSpec => []LoopInv
BY LoopBegins, LoopGoesOn, PTL DEF LoopSpec

(* Which runs a step of the plugin can add: the one it launches, and none once the tools are
   unregistered or the owners disposed. *)
LEMMA OnlyLaunchesAdd ==
  ASSUME LoopInv, LoopNext, NEW name \in Names, runs[name] = Absent, runs'[name] # Absent
  PROVE  /\ ~released /\ ~closed
         /\ \/ DelegateLaunch /\ name = Origin
            \/ ReviewLaunch /\ name = <<"review", loop.cycle>>
            \/ ReviseLaunch /\ name = <<"revise", loop.cycle>> /\ runs'[name].reviews = loop.subject
            \/ CompactLaunch /\ name = <<"compact", loop.cycle>>
<1>1. LoopTypeOK /\ SubjectStands /\ AwaitedStands /\ LoopStands
  BY DEF LoopInv, LoopStands
<1>2. CASE DelegateLaunch
  <2>1. runs' # runs
    OBVIOUS
  <2>2. Launch(Origin, NoName, NoName, "task", "delegated") /\ loop.at = "delegate"
    BY <1>2, <2>1 DEF DelegateLaunch
  <2>3. /\ ~closed /\ ~aborted
        /\ \A other \in Names : other # Origin => runs'[other] = runs[other]
    BY <1>1, <2>1, <2>2, LaunchMeans, NamesOfRuns DEF Labels
  <2> QED BY <1>1, <1>2, <2>2, <2>3 DEF LoopStands
<1>3. ASSUME NEW what \in {"review", "revise", "compact"}, NEW c, NEW q,
             NEW l \in Labels, loop.at = what, Launch(<<what, loop.cycle>>, loop.subject, c, q, l)
      PROVE  ~released /\ ~closed /\ name = <<what, loop.cycle>> /\ runs'[name].reviews = loop.subject
  <2>1. runs' # runs
    OBVIOUS
  <2>2. <<what, loop.cycle>> \in Names
    BY <1>1, <1>3, InACycle DEF BeforeTheLoop
  <2>3. /\ ~closed /\ ~aborted /\ runs'[<<what, loop.cycle>>].reviews = loop.subject
        /\ \A other \in Names : other # <<what, loop.cycle>> => runs'[other] = runs[other]
    BY <1>1, <1>3, <2>1, <2>2, LaunchMeans
  <2> QED BY <1>1, <1>3, <2>3 DEF LoopStands
<1>4. CASE ReviewLaunch
  BY <1>3, <1>4 DEF ReviewLaunch, Labels
<1>5. CASE ReviseLaunch
  BY <1>3, <1>5 DEF ReviseLaunch, Labels
<1>6. CASE CompactLaunch
  BY <1>3, <1>6 DEF CompactLaunch, Labels
<1>7. CASE ~(DelegateLaunch \/ ReviewLaunch \/ ReviseLaunch \/ CompactLaunch)
  <2>1. runs' # runs
    OBVIOUS
  <2>2. Delegated \/ Reviewed \/ Revised \/ Compacted \/ \E other \in Names : ForgetRun(other)
    BY <1>7, <2>1
       DEF LoopNext, Step, Delegate, Iterate, Compactor, Review, Choose, Abort, Release, DisposeOwners,
           TimePasses, Requalified, EvidenceForgotten, Change
  <2>3. ASSUME NEW other \in Names, NEW r, runs' = [runs EXCEPT ![other] = r],
               runs[other] # Absent \/ r = Absent
        PROVE  FALSE
    BY <1>1, <2>3 DEF LoopTypeOK
  <2>4. CASE \E other \in Names : ForgetRun(other)
    BY <2>3, <2>4 DEF ForgetRun
  <2>5. CASE Delegated
    <3>1. Origin \in Names /\ runs[Origin] # Absent
      BY <1>1, <2>5, NamesOfRuns DEF Delegated, AwaitedStands, Running, Absent
    <3>2. PICK r : runs' = [runs EXCEPT ![Origin] = r]
      BY <2>5, Zenon DEF Delegated
    <3> QED BY <2>3, <3>1, <3>2
  <2>6. CASE Reviewed
    <3>1. <<"review", loop.cycle>> \in Names /\ runs[<<"review", loop.cycle>>] # Absent
      BY <1>1, <2>6 DEF Reviewed, AwaitedStands, Running, Absent
    <3>2. PICK r : runs' = [runs EXCEPT ![<<"review", loop.cycle>>] = r]
      BY <2>6, Zenon DEF Reviewed
    <3> QED BY <2>3, <3>1, <3>2
  <2>7. CASE Revised
    <3>1. <<"revise", loop.cycle>> \in Names /\ runs[<<"revise", loop.cycle>>] # Absent
      BY <1>1, <2>7 DEF Revised, AwaitedStands, Running, Absent
    <3>2. PICK r : runs' = [runs EXCEPT ![<<"revise", loop.cycle>>] = r]
      BY <2>7, Zenon DEF Revised
    <3> QED BY <2>3, <3>1, <3>2
  <2>8. CASE Compacted
    <3>1. <<"compact", loop.cycle>> \in Names /\ runs[<<"compact", loop.cycle>>] # Absent
      BY <1>1, <2>8 DEF Compacted, AwaitedStands, Running, Absent
    <3>2. PICK r : runs' = [runs EXCEPT ![<<"compact", loop.cycle>>] = r]
      BY <2>8, Zenon DEF Compacted
    <3> QED BY <2>3, <3>1, <3>2
  <2> QED BY <2>2, <2>4, <2>5, <2>6, <2>7, <2>8
<1> QED BY <1>2, <1>4, <1>5, <1>6, <1>7

(* A revision is earned: it is launched while the judgment of the cycle's review stands. *)
LEMMA LaunchIsEarned ==
  ASSUME LoopInv, LoopNext
  PROVE  /\ \A n \in Cycles : runs[<<"revise", n>>] = Absent /\ runs'[<<"revise", n>>] # Absent =>
              /\ n < MaxCycles
              /\ ReviewOf(n) # Absent =>
                   /\ ReviewOf(n).state = "COMPLETED"
                   /\ ReviewOf(n).reviews = runs'[<<"revise", n>>].reviews
                   /\ ReviewOf(n).verdict.verdict \in Revisable
                   /\ ReviewOf(n).verdict.contradictions = {}
         /\ released \/ closed => \A name \in Names : runs[name] = Absent => runs'[name] = Absent
<1>1. ASSUME NEW n \in Cycles, runs[<<"revise", n>>] = Absent, runs'[<<"revise", n>>] # Absent
      PROVE  /\ n < MaxCycles
             /\ ReviewOf(n) # Absent =>
                  /\ ReviewOf(n).state = "COMPLETED"
                  /\ ReviewOf(n).reviews = runs'[<<"revise", n>>].reviews
                  /\ ReviewOf(n).verdict.verdict \in Revisable
                  /\ ReviewOf(n).verdict.contradictions = {}
  <2>1. <<"revise", n>> \in Names
    BY NamesOfRuns
  <2>2. ReviseLaunch /\ <<"revise", n>> = <<"revise", loop.cycle>> /\ runs'[<<"revise", n>>].reviews = loop.subject
    BY <1>1, <2>1, OnlyLaunchesAdd DEF Origin
  <2>3. n = loop.cycle /\ loop.at = "revise"
    BY <2>2 DEF ReviseLaunch
  <2> QED BY <2>2, <2>3 DEF LoopInv, LoopStands, JudgmentStands
<1>2. ASSUME released \/ closed, NEW name \in Names, runs[name] = Absent
      PROVE  runs'[name] = Absent
  BY <1>2, OnlyLaunchesAdd
<1> QED BY <1>1, <1>2

(* Nothing is launched that was not earned.  (The cycle of orchestrator_iterate, and release()
   and the owners' effect in src/src/plugin.mjs.) *)
THEOREM LaunchesAreEarned == LoopSpec => LaunchesEarned
<1>1. LoopInv /\ [LoopNext]_loopVars =>
        [\A n \in Cycles : runs[<<"revise", n>>] = Absent /\ runs'[<<"revise", n>>] # Absent =>
           /\ n < MaxCycles
           /\ ReviewOf(n) # Absent =>
                /\ ReviewOf(n).state = "COMPLETED"
                /\ ReviewOf(n).reviews = runs'[<<"revise", n>>].reviews
                /\ ReviewOf(n).verdict.verdict \in Revisable
                /\ ReviewOf(n).verdict.contradictions = {}]_loopVars
  BY LaunchIsEarned
<1>2. LoopInv /\ [LoopNext]_loopVars =>
        [released \/ closed => \A name \in Names : runs[name] = Absent => runs'[name] = Absent]_loopVars
  BY LaunchIsEarned
<1> QED BY <1>1, <1>2, LoopIsJudged, PTL DEF LoopSpec, LaunchesEarned, ReviseEarned, QuietAfterUnload
=============================================================================
