--------------------------- MODULE DispatchProofs ---------------------------
(***************************************************************************)
(* The safety properties of Dispatch and of the Admission it extends.      *)
(* First of Admission alone, for every set of keys, every number of slots  *)
(* and every queue limit: the inductive invariant IInv, what follows from  *)
(* it, and that Admission implements FifoPool.  Then of Dispatch, for      *)
(* every set of runs, every number of slots, rounds and alternates, and    *)
(* every set of options: the inductive invariant RunInv, that children     *)
(* have owners, that no review dangles, and what a step may never do.      *)
(***************************************************************************)
EXTENDS Dispatch, FiniteSetTheorems, SequenceTheorems, TLAPS
-----------------------------------------------------------------------------
(* Removing the i-th element of a sequence keeps the others in order. *)
LEMMA RemoveAtProperties ==
  ASSUME NEW S, NEW s \in Seq(S), NEW i \in DOMAIN s
  PROVE  /\ RemoveAt(s, i) \in Seq(S)
         /\ Len(RemoveAt(s, i)) = Len(s) - 1
         /\ \A j \in 1 .. Len(s) - 1 :
              RemoveAt(s, i)[j] = IF j < i THEN s[j] ELSE s[j + 1]
<1> DEFINE front == SubSeq(s, 1, i - 1)
           back == SubSeq(s, i + 1, Len(s))
<1>1. /\ Len(s) \in Nat
      /\ i \in 1 .. Len(s)
      /\ \A j \in 1 .. Len(s) : s[j] \in S
  BY LenProperties, ElementOfSeq
<1>2. /\ front \in Seq(S)
      /\ Len(front) = i - 1
      /\ \A j \in 1 .. i - 1 : front[j] = s[j]
  <2>1. \A j \in 1 .. i - 1 : s[j] \in S
    BY <1>1
  <2>2. /\ front \in Seq(S)
        /\ Len(front) = IF 1 <= i - 1 THEN (i - 1) - 1 + 1 ELSE 0
        /\ \A j \in 1 .. (i - 1) - 1 + 1 : front[j] = s[1 + j - 1]
    BY <1>1, <2>1, SubSeqProperties
  <2> QED BY <1>1, <2>2
<1>3. /\ back \in Seq(S)
      /\ Len(back) = Len(s) - i
      /\ \A j \in 1 .. Len(s) - i : back[j] = s[j + i]
  <2>1. \A j \in i + 1 .. Len(s) : s[j] \in S
    BY <1>1
  <2>2. /\ back \in Seq(S)
        /\ Len(back) = IF i + 1 <= Len(s) THEN Len(s) - (i + 1) + 1 ELSE 0
        /\ \A j \in 1 .. Len(s) - (i + 1) + 1 : back[j] = s[(i + 1) + j - 1]
    BY <1>1, <2>1, SubSeqProperties
  <2> QED BY <1>1, <2>2
<1>4. /\ front \o back \in Seq(S)
      /\ Len(front \o back) = Len(front) + Len(back)
      /\ \A j \in 1 .. Len(front) + Len(back) :
           (front \o back)[j] = IF j <= Len(front) THEN front[j] ELSE back[j - Len(front)]
  BY <1>2, <1>3, ConcatProperties
<1>5. RemoveAt(s, i) = front \o back
  BY DEF RemoveAt
<1> HIDE DEF front, back
<1>6. Len(front) + Len(back) = Len(s) - 1
  BY <1>1, <1>2, <1>3
<1>7. ASSUME NEW j \in 1 .. Len(s) - 1
      PROVE  (front \o back)[j] = IF j < i THEN s[j] ELSE s[j + 1]
  <2>1. CASE j < i
    BY <1>1, <1>2, <1>4, <1>6, <2>1
  <2>2. CASE ~(j < i)
    <3>1. j - Len(front) \in 1 .. Len(s) - i /\ j - Len(front) + i = j + 1
      BY <1>1, <1>2, <2>2
    <3>2. (front \o back)[j] = back[j - Len(front)]
      BY <1>1, <1>2, <1>4, <1>6, <2>2, SMTT(30)
    <3> QED BY <1>3, <2>2, <3>1, <3>2
  <2> QED BY <2>1, <2>2
<1> QED BY <1>4, <1>5, <1>6, <1>7

(* A key that becomes active takes one slot ... *)
LEMMA HolderGained ==
  ASSUME TypeOK, FiniteHolders, NEW k \in Runs, leases[k] # "active",
         leases' = [leases EXCEPT ![k] = "active"]
  PROVE  /\ FiniteHolders'
         /\ Cardinality(Holders') = Cardinality(Holders) + 1
<1>1. Holders' = Holders \cup {k} /\ k \notin Holders
  BY DEF TypeOK, Holders
<1> QED BY <1>1, FS_AddElement DEF FiniteHolders

(* ... and an active key that stops being active gives one back. *)
LEMMA HolderLost ==
  ASSUME TypeOK, FiniteHolders, NEW k \in Runs, leases[k] = "active",
         leases' = [leases EXCEPT ![k] = "absent"]
  PROVE  /\ FiniteHolders'
         /\ Cardinality(Holders') = Cardinality(Holders) - 1
<1>1. Holders' = Holders \ {k} /\ k \in Holders
  BY DEF TypeOK, Holders
<1> QED BY <1>1, FS_RemoveElement DEF FiniteHolders

(* Splicing a waiting key out leaves the queue of the others. *)
LEMMA WithdrawnProperties ==
  ASSUME TypeOK, QueueAccounting, NEW k \in Runs, leases[k] = "pending"
  PROVE  /\ Withdrawn(k) \in Seq(Runs)
         /\ Len(Withdrawn(k)) = Len(pending) - 1
         /\ ToSet(Withdrawn(k)) = ToSet(pending) \ {k}
         /\ \A i, j \in DOMAIN Withdrawn(k) : Withdrawn(k)[i] = Withdrawn(k)[j] => i = j
         /\ \E i \in DOMAIN pending : Withdrawn(k) = RemoveAt(pending, i)
<1>1. pending \in Seq(Runs) /\ Len(pending) \in Nat /\ DOMAIN pending = 1 .. Len(pending)
  BY LenProperties DEF TypeOK
<1>2. \A i, j \in DOMAIN pending : pending[i] = pending[j] => i = j
  BY DEF QueueAccounting
<1>3. PICK n \in DOMAIN pending : pending[n] = k /\ Withdrawn(k) = RemoveAt(pending, n)
  <2>1. k \in ToSet(pending)
    BY DEF QueueAccounting
  <2>2. \E i \in DOMAIN pending : pending[i] = k
    BY <2>1 DEF ToSet
  <2> DEFINE m == CHOOSE i \in DOMAIN pending : pending[i] = k
  <2>3. m \in DOMAIN pending /\ pending[m] = k
    BY <2>2
  <2>4. Withdrawn(k) = RemoveAt(pending, m)
    BY <2>1, SMTT(30) DEF Withdrawn
  <2> QED BY <2>3, <2>4
<1> DEFINE rest == RemoveAt(pending, n)
<1>4. /\ rest \in Seq(Runs)
      /\ Len(rest) = Len(pending) - 1
      /\ \A j \in 1 .. Len(pending) - 1 :
           rest[j] = IF j < n THEN pending[j] ELSE pending[j + 1]
  BY <1>1, RemoveAtProperties
<1>5. DOMAIN rest = 1 .. Len(pending) - 1
  BY <1>4, LenProperties
<1> HIDE DEF rest
<1>6. ASSUME NEW i \in DOMAIN rest, NEW j \in DOMAIN rest, rest[i] = rest[j]
      PROVE  i = j
  <2> DEFINE place(a) == IF a < n THEN a ELSE a + 1
  <2>1. \A a \in DOMAIN rest : place(a) \in DOMAIN pending /\ rest[a] = pending[place(a)]
    BY <1>1, <1>4, <1>5
  <2>2. place(i) = place(j)
    <3> HIDE DEF place
    <3> QED BY <1>2, <1>6, <2>1
  <2>3. i \in Nat /\ j \in Nat /\ n \in Nat
    BY <1>1, <1>5
  <2> QED BY <2>2, <2>3
<1>7. ToSet(rest) = ToSet(pending) \ {k}
  <2>1. ASSUME NEW x \in ToSet(rest)
        PROVE  x \in ToSet(pending) \ {k}
    <3>1. PICK j \in 1 .. Len(pending) - 1 : x = rest[j]
      BY <1>5 DEF ToSet
    <3>2. CASE j < n
      BY <1>1, <1>2, <1>3, <1>4, <3>1, <3>2 DEF ToSet
    <3>3. CASE ~(j < n)
      <4>1. j + 1 \in DOMAIN pending /\ j + 1 # n /\ x = pending[j + 1]
        BY <1>1, <1>4, <3>1, <3>3
      <4> QED BY <1>2, <1>3, <4>1 DEF ToSet
    <3> QED BY <3>2, <3>3
  <2>2. ASSUME NEW x \in ToSet(pending) \ {k}
        PROVE  x \in ToSet(rest)
    <3>1. PICK j \in DOMAIN pending : x = pending[j] /\ j # n
      BY <1>3 DEF ToSet
    <3>2. CASE j < n
      <4>1. j \in 1 .. Len(pending) - 1 /\ rest[j] = x
        BY <1>1, <1>4, <3>1, <3>2
      <4> QED BY <1>5, <4>1 DEF ToSet
    <3>3. CASE ~(j < n)
      <4>1. j - 1 \in 1 .. Len(pending) - 1 /\ rest[j - 1] = x
        BY <1>1, <1>4, <3>1, <3>3
      <4> QED BY <1>5, <4>1 DEF ToSet
    <3> QED BY <3>2, <3>3
  <2> QED BY <2>1, <2>2
<1> QED BY <1>3, <1>4, <1>6, <1>7 DEF rest
-----------------------------------------------------------------------------
(* The actions that leave the leases and the queue as they are. *)
LEMMA LeasesUntouched ==
  ASSUME IInv,
         UNCHANGED <<leases, pending, active, aborted, awaited>>,
         draining' \in BOOLEAN, deleting' \in BOOLEAN,
         closed' = closed, disposeDone' \in BOOLEAN,
         ~draining' /\ draining => ~DrainContinues,
         deleting' => NoLeases,
         disposeDone' => closed /\ ~deleting' /\ NoLeases
  PROVE  IInv'
<1> USE DEF IInv
<1>1. TypeOK'
  BY DEF TypeOK
<1>2. Holders' = Holders
  BY DEF Holders
<1>3. FiniteHolders' /\ SlotAccounting'
  BY <1>2 DEF FiniteHolders, SlotAccounting
<1>4. QueueAccounting'
  BY DEF QueueAccounting
<1>5. WorkConserving'
  <2>1. closed => pending = <<>>
    BY DEF ShutQueue
  <2>2. active \in Nat /\ active <= Slots /\ Slots \in Nat
    BY SlotsAssumption DEF SlotAccounting, TypeOK
  <2> QED BY <2>1, <2>2 DEF WorkConserving, DrainContinues, TypeOK
<1>6. DeletionExclusive' /\ DisposeComplete' /\ ShutQueue'
  BY DEF DeletionExclusive, DisposeComplete, ShutQueue, NoLeases
<1> QED BY <1>1, <1>3, <1>4, <1>5, <1>6

(* Taking a lease, at once or in the queue. *)
LEMMA ReserveStep ==
  ASSUME IInv, NEW k \in Runs, NEW queue \in BOOLEAN, Reserve(k, queue)
  PROVE  IInv'
<1> USE DEF IInv
<1>1. /\ leases[k] = "absent" /\ leases \in [Runs -> LeaseStatus]
      /\ ~draining /\ ~closed /\ ~deleting
      /\ UNCHANGED <<aborted, draining, deleting, closed, awaited, disposeDone>>
  BY DEF Reserve, Admissible, TypeOK
<1>2. pending \in Seq(Runs) /\ Len(pending) \in Nat /\ DOMAIN pending = 1 .. Len(pending)
  BY LenProperties DEF TypeOK
<1>3. active \in Nat /\ active <= Slots /\ Slots \in Nat
  BY SlotsAssumption DEF TypeOK, SlotAccounting
<1>4. k \notin aborted /\ k \notin ToSet(pending)
  BY <1>1 DEF QueueAccounting
<1>5. ~disposeDone
  BY <1>1 DEF DisposeComplete
<1>6. DeletionExclusive' /\ DisposeComplete' /\ ShutQueue'
  BY <1>1, <1>5 DEF DeletionExclusive, DisposeComplete, ShutQueue
<1>7. CASE MustWait
  <2>1. /\ leases' = [leases EXCEPT ![k] = "pending"]
        /\ pending' = Append(pending, k)
        /\ active' = active
        /\ Len(pending) < QueueLimit
    BY <1>7 DEF Reserve, Admissible
  <2>2. /\ pending' \in Seq(Runs)
        /\ Len(pending') = Len(pending) + 1
        /\ \A i \in 1 .. Len(pending) : pending'[i] = pending[i]
        /\ pending'[Len(pending) + 1] = k
        /\ DOMAIN pending' = 1 .. Len(pending) + 1
    BY <1>2, <2>1, AppendProperties, LenProperties
  <2>3. TypeOK'
    BY <1>1, <2>1, <2>2 DEF TypeOK, LeaseStatus
  <2>4. Holders' = Holders
    BY <1>1, <2>1 DEF Holders
  <2>5. FiniteHolders' /\ SlotAccounting'
    BY <2>1, <2>4 DEF FiniteHolders, SlotAccounting
  <2>6. ToSet(pending') = ToSet(pending) \cup {k}
    BY <1>2, <2>2 DEF ToSet
  <2>7. \A x \in Runs : leases'[x] = "pending" <=> x \in ToSet(pending')
    BY <1>1, <2>1, <2>6 DEF QueueAccounting
  <2>8. \A i, j \in DOMAIN pending' : pending'[i] = pending'[j] => i = j
    <3>1. \A i \in 1 .. Len(pending) : pending[i] # k
      BY <1>2, <1>4 DEF ToSet
    <3> QED BY <1>2, <2>2, <3>1 DEF QueueAccounting
  <2>9. Len(pending') <= QueueLimit
    BY <1>2, <2>1, <2>2, QueueLimitAssumption
  <2>10. \A x \in aborted' : leases'[x] \in {"active", "cancelled"}
    BY <1>1, <1>4, <2>1 DEF QueueAccounting, TypeOK
  <2>11. QueueAccounting'
    BY <2>7, <2>8, <2>9, <2>10 DEF QueueAccounting
  <2>12. active = Slots
    BY <1>1, <1>3, <1>7 DEF MustWait, WorkConserving
  <2>13. WorkConserving'
    BY <2>1, <2>12 DEF WorkConserving
  <2> QED BY <1>6, <2>3, <2>5, <2>11, <2>13
<1>8. CASE ~MustWait
  <2>1. /\ leases' = [leases EXCEPT ![k] = "active"]
        /\ active' = active + 1
        /\ pending' = pending
    BY <1>8 DEF Reserve, Admissible
  <2>2. pending = <<>> /\ active < Slots
    BY <1>3, <1>8 DEF MustWait
  <2>3. TypeOK'
    BY <1>1, <1>3, <2>1 DEF TypeOK, LeaseStatus
  <2>4. FiniteHolders' /\ SlotAccounting'
    <3>1. FiniteHolders' /\ Cardinality(Holders') = Cardinality(Holders) + 1
      BY <1>1, <2>1, HolderGained
    <3> QED BY <1>3, <2>1, <2>2, <3>1 DEF SlotAccounting
  <2>5. QueueAccounting'
    BY <1>1, <1>4, <2>1 DEF QueueAccounting, TypeOK
  <2>6. WorkConserving'
    BY <2>1, <2>2 DEF WorkConserving
  <2> QED BY <1>6, <2>3, <2>4, <2>5, <2>6
<1> QED BY <1>7, <1>8

(* Aborting the scope of a waiting lease or of one already admitted. *)
LEMMA AbortStep ==
  ASSUME IInv, NEW k \in Runs, Abort(k)
  PROVE  IInv'
<1> USE DEF IInv
<1>1. /\ leases[k] # "absent" /\ leases \in [Runs -> LeaseStatus]
      /\ aborted' = aborted \cup {k}
      /\ UNCHANGED <<active, draining, deleting, closed, awaited, disposeDone>>
  BY DEF Abort, TypeOK
<1>2. ~deleting /\ ~disposeDone
  BY <1>1 DEF DeletionExclusive, DisposeComplete, NoLeases
<1>3. DeletionExclusive' /\ DisposeComplete'
  BY <1>1, <1>2 DEF DeletionExclusive, DisposeComplete
<1>4. CASE leases[k] = "pending"
  <2>1. /\ leases' = [leases EXCEPT ![k] = "cancelled"]
        /\ pending' = Withdrawn(k)
    BY <1>4 DEF Abort
  <2>2. /\ pending' \in Seq(Runs)
        /\ Len(pending') = Len(pending) - 1
        /\ ToSet(pending') = ToSet(pending) \ {k}
        /\ \A i, j \in DOMAIN pending' : pending'[i] = pending'[j] => i = j
    BY <1>4, <2>1, WithdrawnProperties
  <2>3. TypeOK'
    BY <1>1, <2>1, <2>2 DEF TypeOK, LeaseStatus
  <2>4. Holders' = Holders
    BY <1>1, <1>4, <2>1 DEF Holders
  <2>5. FiniteHolders' /\ SlotAccounting'
    BY <1>1, <2>4 DEF FiniteHolders, SlotAccounting
  <2>6. Len(pending) \in Nat /\ pending # <<>> /\ Len(pending') <= QueueLimit
    <3>1. pending \in Seq(Runs) /\ Len(pending) \in Nat /\ Len(pending) <= QueueLimit
      BY LenProperties DEF TypeOK, QueueAccounting
    <3>2. k \in ToSet(pending)
      BY <1>4 DEF QueueAccounting
    <3>3. pending # <<>>
      BY <3>2 DEF ToSet
    <3> QED BY <2>2, <3>1, <3>3, QueueLimitAssumption
  <2>7. \A x \in Runs : leases'[x] = "pending" <=> x \in ToSet(pending')
    BY <1>1, <2>1, <2>2 DEF QueueAccounting
  <2>8. \A x \in aborted' : leases'[x] \in {"active", "cancelled"}
    BY <1>1, <2>1 DEF QueueAccounting, TypeOK
  <2>9. QueueAccounting'
    BY <2>2, <2>6, <2>7, <2>8 DEF QueueAccounting
  <2>10. WorkConserving' /\ ShutQueue'
    BY <1>1, <2>1, <2>6 DEF WorkConserving, ShutQueue
  <2> QED BY <1>3, <2>3, <2>5, <2>9, <2>10
<1>5. CASE leases[k] # "pending"
  <2>1. UNCHANGED <<leases, pending>>
    BY <1>5 DEF Abort
  <2>2. leases[k] \in {"active", "cancelled"}
    BY <1>1, <1>5 DEF LeaseStatus
  <2>3. TypeOK' /\ Holders' = Holders
    BY <1>1, <2>1 DEF TypeOK, Holders
  <2>4. FiniteHolders' /\ SlotAccounting'
    BY <1>1, <2>3 DEF FiniteHolders, SlotAccounting
  <2>5. QueueAccounting'
    BY <1>1, <2>1, <2>2 DEF QueueAccounting
  <2>6. WorkConserving' /\ ShutQueue'
    BY <1>1, <2>1 DEF WorkConserving, ShutQueue
  <2> QED BY <1>3, <2>3, <2>4, <2>5, <2>6
<1> QED BY <1>4, <1>5

(* Giving a lease back, which starts the drain. *)
LEMMA ReleaseStep ==
  ASSUME IInv, NEW k \in Runs, Release(k)
  PROVE  IInv'
<1> USE DEF IInv
<1>1. /\ leases[k] \in {"active", "cancelled"} /\ leases \in [Runs -> LeaseStatus]
      /\ leases' = [leases EXCEPT ![k] = "absent"]
      /\ aborted' = aborted \ {k}
      /\ awaited' = awaited \ {k}
      /\ draining'
      /\ draining' \in BOOLEAN
      /\ UNCHANGED <<pending, deleting, closed, disposeDone>>
  BY DEF Release, TypeOK
<1>2. FiniteHolders' /\ SlotAccounting' /\ active' \in Nat
  <2>1. CASE leases[k] = "active"
    <3>1. FiniteHolders' /\ Cardinality(Holders') = Cardinality(Holders) - 1
      BY <1>1, <2>1, HolderLost
    <3>2. Cardinality(Holders') \in Nat
      BY <3>1, FS_CardinalityType DEF FiniteHolders
    <3>3. active' = active - 1 /\ active \in Nat /\ Slots \in Nat
      BY <2>1, SlotsAssumption DEF Release, TypeOK
    <3> QED BY <3>1, <3>2, <3>3 DEF SlotAccounting
  <2>2. CASE leases[k] # "active"
    <3>1. Holders' = Holders
      BY <1>1, <2>2 DEF Holders
    <3>2. active' = active
      BY <2>2 DEF Release
    <3> QED BY <3>1, <3>2 DEF FiniteHolders, SlotAccounting, TypeOK
  <2> QED BY <2>1, <2>2
<1>3. TypeOK'
  BY <1>1, <1>2 DEF TypeOK, LeaseStatus
<1>4. QueueAccounting'
  BY <1>1 DEF QueueAccounting, TypeOK
<1>5. WorkConserving' /\ ShutQueue'
  BY <1>1 DEF WorkConserving, ShutQueue
<1>6. DeletionExclusive' /\ DisposeComplete'
  BY <1>1 DEF DeletionExclusive, DisposeComplete, NoLeases
<1> QED BY <1>2, <1>3, <1>4, <1>5, <1>6

(* The head of the queue is a waiting key, and dropping it leaves the queue of
   the others. *)
LEMMA HeadProperties ==
  ASSUME TypeOK, QueueAccounting, pending # <<>>
  PROVE  /\ Head(pending) \in Runs
         /\ leases[Head(pending)] = "pending"
         /\ Head(pending) \notin aborted
         /\ Tail(pending) \in Seq(Runs)
         /\ Len(Tail(pending)) <= QueueLimit
         /\ ToSet(Tail(pending)) = ToSet(pending) \ {Head(pending)}
         /\ \A i, j \in DOMAIN Tail(pending) : Tail(pending)[i] = Tail(pending)[j] => i = j
<1>1. /\ pending \in Seq(Runs) /\ Len(pending) \in Nat \ {0}
      /\ DOMAIN pending = 1 .. Len(pending)
      /\ Len(pending) <= QueueLimit
  BY LenProperties, EmptySeq DEF TypeOK, QueueAccounting
<1>2. /\ Tail(pending) \in Seq(Runs)
      /\ Len(Tail(pending)) = Len(pending) - 1
      /\ \A i \in 1 .. Len(pending) - 1 : Tail(pending)[i] = pending[i + 1]
      /\ DOMAIN Tail(pending) = 1 .. Len(pending) - 1
  BY <1>1, HeadTailProperties, LenProperties
<1>3. Head(pending) = pending[1] /\ 1 \in DOMAIN pending
  BY <1>1
<1>4. Head(pending) \in Runs /\ Head(pending) \in ToSet(pending)
  BY <1>1, <1>3, ElementOfSeq DEF ToSet
<1>5. leases[Head(pending)] = "pending" /\ Head(pending) \notin aborted
  BY <1>4 DEF QueueAccounting
<1>6. ToSet(Tail(pending)) = ToSet(pending) \ {Head(pending)}
  <2>1. ASSUME NEW x \in ToSet(Tail(pending))
        PROVE  x \in ToSet(pending) \ {Head(pending)}
    <3>1. PICK i \in 1 .. Len(pending) - 1 : x = pending[i + 1]
      BY <1>2 DEF ToSet
    <3>2. i + 1 \in DOMAIN pending /\ i + 1 # 1
      BY <1>1
    <3> QED BY <1>3, <3>1, <3>2 DEF ToSet, QueueAccounting
  <2>2. ASSUME NEW x \in ToSet(pending) \ {Head(pending)}
        PROVE  x \in ToSet(Tail(pending))
    <3>1. PICK i \in DOMAIN pending : x = pending[i] /\ i # 1
      BY <1>3 DEF ToSet
    <3>2. i - 1 \in 1 .. Len(pending) - 1 /\ Tail(pending)[i - 1] = x
      BY <1>1, <1>2, <3>1
    <3> QED BY <1>2, <3>2 DEF ToSet
  <2> QED BY <2>1, <2>2
<1>7. \A i, j \in DOMAIN Tail(pending) : Tail(pending)[i] = Tail(pending)[j] => i = j
  BY <1>1, <1>2 DEF QueueAccounting
<1> QED BY <1>1, <1>2, <1>4, <1>5, <1>6, <1>7, QueueLimitAssumption

(* One iteration of drain's loop: the head of the queue is admitted.  Its scope
   cannot have aborted, so the cancelling branch is never taken. *)
LEMMA DrainNextStep ==
  ASSUME IInv, DrainNext
  PROVE  IInv'
<1> DEFINE k == Head(pending)
<1> USE DEF IInv
<1>1. /\ ~closed /\ active < Slots /\ pending # <<>>
      /\ draining
      /\ pending' = Tail(pending)
      /\ UNCHANGED <<aborted, draining, deleting, closed, awaited, disposeDone>>
  BY DEF DrainNext, DrainContinues
<1>2. /\ k \in Runs
      /\ leases[k] = "pending" /\ leases \in [Runs -> LeaseStatus]
      /\ k \notin aborted
      /\ pending' \in Seq(Runs)
      /\ Len(pending') <= QueueLimit
      /\ ToSet(pending') = ToSet(pending) \ {k}
      /\ \A i, j \in DOMAIN pending' : pending'[i] = pending'[j] => i = j
  BY <1>1, HeadProperties DEF TypeOK
<1>3. leases' = [leases EXCEPT ![k] = "active"] /\ active' = active + 1
  BY <1>2 DEF DrainNext
<1> HIDE DEF k
<1>4. active \in Nat /\ Slots \in Nat
  BY SlotsAssumption DEF TypeOK
<1>5. TypeOK'
  BY <1>1, <1>2, <1>3, <1>4 DEF TypeOK, LeaseStatus
<1>6. FiniteHolders' /\ SlotAccounting'
  <2>1. FiniteHolders' /\ Cardinality(Holders') = Cardinality(Holders) + 1
    BY <1>2, <1>3, HolderGained
  <2> QED BY <1>1, <1>3, <1>4, <2>1 DEF SlotAccounting
<1>7. QueueAccounting'
  <2>1. \A x \in Runs : leases'[x] = "pending" <=> x \in ToSet(pending')
    BY <1>2, <1>3 DEF QueueAccounting
  <2>2. \A x \in aborted' : leases'[x] \in {"active", "cancelled"}
    BY <1>1, <1>2, <1>3 DEF QueueAccounting, TypeOK
  <2> QED BY <1>2, <2>1, <2>2 DEF QueueAccounting
<1>8. WorkConserving' /\ ShutQueue'
  BY <1>1 DEF WorkConserving, ShutQueue
<1>9. DeletionExclusive' /\ DisposeComplete'
  BY <1>1, <1>2 DEF DeletionExclusive, DisposeComplete, NoLeases
<1> QED BY <1>5, <1>6, <1>7, <1>8, <1>9

(* Closing the dispatcher: the waiters are cancelled, the holders are awaited. *)
LEMMA DisposeStep ==
  ASSUME IInv, Dispose
  PROVE  IInv'
<1> USE DEF IInv
<1>1. /\ leases \in [Runs -> LeaseStatus]
      /\ ~closed /\ closed' /\ closed' \in BOOLEAN
      /\ awaited' = {k \in Runs : leases[k] # "absent"}
      /\ aborted' = aborted \cup {k \in Runs : leases[k] # "absent"}
      /\ leases' = [k \in Runs |-> IF leases[k] = "pending" THEN "cancelled" ELSE leases[k]]
      /\ pending' = <<>>
      /\ UNCHANGED <<active, draining, deleting, disposeDone>>
  BY DEF Dispose, TypeOK
<1>2. TypeOK'
  BY <1>1, EmptySeq DEF TypeOK, LeaseStatus
<1>3. Holders' = Holders
  BY <1>1 DEF Holders
<1>4. FiniteHolders' /\ SlotAccounting'
  BY <1>1, <1>3 DEF FiniteHolders, SlotAccounting
<1>5. QueueAccounting'
  <2>1. /\ DOMAIN pending' = {} /\ ToSet(pending') = {} /\ Len(pending') = 0
        /\ \A k \in Runs : leases'[k] # "pending"
    BY <1>1 DEF ToSet
  <2>2. \A k \in aborted' : leases'[k] \in {"active", "cancelled"}
    BY <1>1 DEF QueueAccounting, TypeOK, LeaseStatus
  <2> QED BY <2>1, <2>2, QueueLimitAssumption DEF QueueAccounting
<1>6. WorkConserving' /\ ShutQueue'
  BY <1>1 DEF WorkConserving, ShutQueue
<1>7. DeletionExclusive' /\ DisposeComplete'
  BY <1>1 DEF DeletionExclusive, DisposeComplete, NoLeases
<1> QED BY <1>2, <1>4, <1>5, <1>6, <1>7
-----------------------------------------------------------------------------
(* A new dispatcher has no lease. *)
LEMMA InitEstablishes == AdmissionInit => IInv
<1> SUFFICES ASSUME AdmissionInit PROVE IInv
  OBVIOUS
<1>1. Holders = {} /\ ToSet(pending) = {} /\ DOMAIN pending = {} /\ Len(pending) = 0
  BY DEF AdmissionInit, Holders, ToSet
<1>2. TypeOK
  BY EmptySeq DEF AdmissionInit, TypeOK, LeaseStatus
<1>3. FiniteHolders /\ SlotAccounting
  BY <1>1, FS_EmptySet, SlotsAssumption DEF AdmissionInit, FiniteHolders, SlotAccounting
<1>4. QueueAccounting
  BY <1>1, QueueLimitAssumption DEF AdmissionInit, QueueAccounting
<1> QED
  BY <1>2, <1>3, <1>4
  DEF AdmissionInit, IInv, WorkConserving, DeletionExclusive, DisposeComplete, ShutQueue

(* Every operation preserves the invariant. *)
LEMMA NextPreserves == IInv /\ [AdmissionNext]_admissionVars => IInv'
<1> SUFFICES ASSUME IInv, [AdmissionNext]_admissionVars PROVE IInv'
  OBVIOUS
<1>1. ASSUME NEW k \in Runs, NEW queue \in BOOLEAN, Reserve(k, queue) PROVE IInv'
  BY <1>1, ReserveStep
<1>2. ASSUME NEW k \in Runs, Abort(k) PROVE IInv'
  BY <1>2, AbortStep
<1>3. ASSUME NEW k \in Runs, Release(k) PROVE IInv'
  BY <1>3, ReleaseStep
<1>4. CASE DrainNext
  BY <1>4, DrainNextStep
<1>5. CASE Dispose
  BY <1>5, DisposeStep
<1>6. CASE DrainEnd
  <2>1. disposeDone => closed /\ ~deleting /\ NoLeases
    BY DEF IInv, DisposeComplete
  <2>2. deleting => NoLeases
    BY DEF IInv, DeletionExclusive
  <2> QED BY <1>6, <2>1, <2>2, LeasesUntouched DEF DrainEnd, IInv, TypeOK
<1>7. CASE BeginDeletion
  <2>1. ~disposeDone
    BY <1>7 DEF BeginDeletion, IInv, DisposeComplete
  <2> QED BY <1>7, <2>1, LeasesUntouched DEF BeginDeletion, IInv, TypeOK
<1>8. CASE EndDeletion
  <2>1. ~disposeDone
    BY <1>8 DEF EndDeletion, IInv, DisposeComplete
  <2> QED BY <1>8, <2>1, LeasesUntouched DEF EndDeletion, IInv, TypeOK
<1>9. CASE DisposeSettles
  <2>1. NoLeases /\ ~deleting
    BY <1>9 DEF DisposeSettles, NoLeases, IInv, ShutQueue
  <2> QED BY <1>9, <2>1, LeasesUntouched DEF DisposeSettles, IInv, TypeOK
<1>10. CASE UNCHANGED admissionVars
  <2>1. disposeDone => closed /\ ~deleting /\ NoLeases
    BY DEF IInv, DisposeComplete
  <2>2. deleting => NoLeases
    BY DEF IInv, DeletionExclusive
  <2> QED BY <1>10, <2>1, <2>2, LeasesUntouched DEF admissionVars, IInv, TypeOK
<1> QED
  BY <1>1, <1>2, <1>3, <1>4, <1>5, <1>6, <1>7, <1>8, <1>9, <1>10 DEF AdmissionNext

(* The inductive invariant holds in every reachable state. *)
THEOREM InductiveInvariant == Spec => []IInv
BY InitEstablishes, NextPreserves, PTL DEF Spec

(* The state keeps its type: the counter of slots never goes below zero. *)
THEOREM TypeCorrect == Spec => []TypeOK
<1>1. IInv => TypeOK
  BY DEF IInv
<1> QED BY <1>1, InductiveInvariant, PTL

(* At any number of slots the counter is the number of running leases, and at
   most Slots assignments run at once. *)
THEOREM SlotsNeverOvercommitted == Spec => []SlotAccounting
<1>1. IInv => SlotAccounting
  BY DEF IInv
<1> QED BY <1>1, InductiveInvariant, PTL

(* The queue holds exactly the waiting leases, once each and within its limit. *)
THEOREM QueueNeverLosesAWaiter == Spec => []QueueAccounting
<1>1. IInv => QueueAccounting
  BY DEF IInv
<1> QED BY <1>1, InductiveInvariant, PTL

(* Between calls nobody waits beside a free slot. *)
THEOREM NoIdleSlot == Spec => []WorkConserving
<1>1. IInv => WorkConserving
  BY DEF IInv
<1> QED BY <1>1, InductiveInvariant, PTL

(* A deletion in progress and a lease exclude each other. *)
THEOREM DeletionExcludesLeases == Spec => []DeletionExclusive
<1>1. IInv => DeletionExclusive
  BY DEF IInv
<1> QED BY <1>1, InductiveInvariant, PTL

(* Disposal has resolved only when nothing is held any more. *)
THEOREM DisposalIsComplete == Spec => []DisposeComplete
<1>1. IInv => DisposeComplete
  BY DEF IInv
<1> QED BY <1>1, InductiveInvariant, PTL

(* Nobody overtakes a waiter. *)
THEOREM AdmissionIsFifo == Spec => FifoAdmission
<1>1. IInv /\ [AdmissionNext]_admissionVars => [FifoStep]_admissionVars
  <2> SUFFICES ASSUME IInv, AdmissionNext,
                      NEW k \in Runs, leases[k] # "active", leases'[k] = "active"
               PROVE  \/ leases[k] = "absent" /\ pending = <<>>
                      \/ leases[k] = "pending" /\ k = Head(pending)
    BY DEF FifoStep
  <2>1. leases \in [Runs -> LeaseStatus]
    BY DEF IInv, TypeOK
  <2>2. ASSUME NEW r \in Runs, NEW queue \in BOOLEAN, Reserve(r, queue)
        PROVE  leases[k] = "absent" /\ pending = <<>>
    BY <2>1, <2>2 DEF Reserve, Admissible, MustWait
  <2>3. ASSUME NEW r \in Runs, Abort(r) \/ Release(r)
        PROVE  FALSE
    BY <2>1, <2>3 DEF Abort, Release
  <2>4. CASE DrainNext
    <3>1. pending # <<>>
      BY <2>4 DEF DrainNext, DrainContinues
    <3>2. Head(pending) \in Runs /\ leases[Head(pending)] = "pending"
      BY <3>1, HeadProperties DEF IInv
    <3> QED BY <2>1, <2>4, <3>2 DEF DrainNext
  <2>5. CASE DrainEnd \/ BeginDeletion \/ EndDeletion \/ DisposeSettles
    BY <2>5 DEF DrainEnd, BeginDeletion, EndDeletion, DisposeSettles
  <2>6. CASE Dispose
    BY <2>1, <2>6 DEF Dispose
  <2> QED BY <2>2, <2>3, <2>4, <2>5, <2>6 DEF AdmissionNext
<1> QED BY <1>1, InductiveInvariant, PTL DEF Spec, FifoAdmission

(* After dispose() no lease is taken and none becomes active. *)
THEOREM DisposedAdmitsNobody == Spec => ClosedStaysShut
<1>1. IInv /\ [AdmissionNext]_admissionVars => [ShutStep]_admissionVars
  <2> SUFFICES ASSUME IInv, AdmissionNext, closed,
                      NEW k \in Runs, leases'[k] # leases[k]
               PROVE  leases'[k] = "absent"
    BY DEF ShutStep
  <2>1. leases \in [Runs -> LeaseStatus] /\ pending = <<>>
    BY DEF IInv, TypeOK, ShutQueue
  <2>2. \A r \in Runs : leases[r] # "pending"
    BY <2>1 DEF IInv, QueueAccounting, ToSet
  <2>3. ASSUME NEW r \in Runs, Abort(r) \/ Release(r)
        PROVE  leases'[k] = "absent"
    BY <2>1, <2>2, <2>3 DEF Abort, Release
  <2>4. ~DrainNext /\ ~Dispose /\ \A r \in Runs, queue \in BOOLEAN : ~Reserve(r, queue)
    BY DEF DrainNext, DrainContinues, Dispose, Reserve, Admissible
  <2>5. ~(DrainEnd \/ BeginDeletion \/ EndDeletion \/ DisposeSettles)
    BY DEF DrainEnd, BeginDeletion, EndDeletion, DisposeSettles
  <2> QED BY <2>3, <2>4, <2>5 DEF AdmissionNext
<1> QED BY <1>1, InductiveInvariant, PTL DEF Spec, ClosedStaysShut
-----------------------------------------------------------------------------
(* A new dispatcher is an empty pool. *)
LEMMA PoolInit == AdmissionInit => Pool!Init
<1>1. AdmissionInit => Holders = {}
  BY DEF AdmissionInit, Holders
<1> QED BY <1>1 DEF AdmissionInit, Pool!Init

(* FifoPool's library operators are Admission's. *)
LEMMA SameLibrary ==
  /\ \A S : Pool!Cardinality(S) = Cardinality(S)
  /\ \A s, i : Pool!RemoveAt(s, i) = RemoveAt(s, i)
  /\ \A s : Pool!ToSet(s) = ToSet(s)
<1>1. \A S : Pool!Cardinality(S) = Cardinality(S)
  BY Zenon DEF Pool!Cardinality, Cardinality
<1>2. \A s, i : Pool!RemoveAt(s, i) = RemoveAt(s, i)
  BY Zenon DEF Pool!RemoveAt, RemoveAt
<1>3. \A s : Pool!ToSet(s) = ToSet(s)
  BY Zenon DEF Pool!ToSet, ToSet
<1> QED BY <1>1, <1>2, <1>3

(* Every operation is an operation of the pool or leaves it as it is. *)
LEMMA PoolStep == IInv /\ [AdmissionNext]_admissionVars => [Pool!Next]_(Pool!vars)
<1> SUFFICES ASSUME IInv, [AdmissionNext]_admissionVars
             PROVE  Pool!Next \/ UNCHANGED <<Holders, pending, ~closed>>
  BY DEF Pool!vars
<1>1. leases \in [Runs -> LeaseStatus] /\ active = Cardinality(Holders)
      /\ active \in Nat /\ Slots \in Nat /\ active <= Slots
  BY SlotsAssumption DEF IInv, TypeOK, SlotAccounting
<1>2. ASSUME NEW k \in Runs, NEW queue \in BOOLEAN, Reserve(k, queue)
      PROVE  Pool!Next
  <2>1. k \notin Holders /\ k \notin ToSet(pending) /\ ~closed /\ ~draining
    BY <1>2 DEF Reserve, Admissible, Holders, IInv, QueueAccounting
  <2>2. CASE MustWait
    <3>1. Holders' = Holders /\ pending' = Append(pending, k) /\ Len(pending) < QueueLimit
      BY <1>1, <1>2, <2>2 DEF Reserve, Admissible, Holders
    <3>2. Cardinality(Holders) = Slots
      BY <1>1, <2>1, <2>2 DEF MustWait, IInv, WorkConserving
    <3>3. Pool!Join(k)
      BY <1>2, <2>1, <3>1, <3>2, SameLibrary DEF Pool!Join, Pool!Waiting, Reserve, Admissible
    <3> QED BY <3>3 DEF Pool!Next
  <2>3. CASE ~MustWait
    <3>1. Holders' = Holders \cup {k} /\ pending' = pending
      BY <1>1, <1>2, <2>3 DEF Reserve, Admissible, Holders
    <3>2. Pool!Enter(k)
      BY <1>1, <1>2, <2>1, <2>3, <3>1, SameLibrary DEF Pool!Enter, MustWait, Reserve, Admissible
    <3> QED BY <3>2 DEF Pool!Next
  <2> QED BY <2>2, <2>3
<1>3. ASSUME NEW k \in Runs, Abort(k)
      PROVE  Pool!Next \/ UNCHANGED <<Holders, pending, ~closed>>
  <2>1. CASE leases[k] = "pending"
    <3>1. Holders' = Holders /\ pending' = Withdrawn(k) /\ closed' = closed
      BY <1>1, <1>3, <2>1 DEF Abort, Holders
    <3>2. \E i \in DOMAIN pending : Withdrawn(k) = RemoveAt(pending, i)
      BY <2>1, WithdrawnProperties DEF IInv
    <3>3. \E i \in DOMAIN pending : Pool!Quit(i)
      BY <3>1, <3>2, SameLibrary DEF Pool!Quit
    <3> QED BY <3>3 DEF Pool!Next
  <2>2. CASE leases[k] # "pending"
    BY <1>3, <2>2 DEF Abort, Holders
  <2> QED BY <2>1, <2>2
<1>4. ASSUME NEW k \in Runs, Release(k)
      PROVE  Pool!Next \/ UNCHANGED <<Holders, pending, ~closed>>
  <2>1. CASE leases[k] = "active"
    <3>1. k \in Holders /\ Holders' = Holders \ {k}
      BY <1>1, <1>4, <2>1 DEF Release, Holders
    <3>2. Pool!Leave(k)
      BY <1>4, <3>1 DEF Pool!Leave, Release
    <3> QED BY <3>2 DEF Pool!Next
  <2>2. CASE leases[k] # "active"
    BY <1>1, <1>4, <2>2 DEF Release, Holders
  <2> QED BY <2>1, <2>2
<1>5. CASE DrainNext
  <2> DEFINE k == Head(pending)
  <2>1. pending # <<>> /\ ~closed /\ active < Slots
    BY <1>5 DEF DrainNext, DrainContinues
  <2>2. k \in Runs /\ leases[k] = "pending" /\ k \notin aborted
    BY <2>1, HeadProperties DEF IInv
  <2>3. /\ leases' = [leases EXCEPT ![k] = "active"]
        /\ pending' = Tail(pending)
        /\ closed' = closed
    BY <1>5, <2>2 DEF DrainNext
  <2>4. Holders' = Holders \cup {k}
    <3> HIDE DEF k
    <3> QED BY <1>1, <2>2, <2>3 DEF Holders
  <2>5. Pool!Admit
    BY <1>1, <2>1, <2>3, <2>4, SameLibrary DEF Pool!Admit
  <2> QED BY <2>5 DEF Pool!Next
<1>6. CASE Dispose
  <2>1. Holders' = Holders /\ pending' = <<>> /\ closed'
    BY <1>1, <1>6 DEF Dispose, Holders
  <2>2. Pool!Close
    BY <2>1 DEF Pool!Close
  <2> QED BY <2>2 DEF Pool!Next
<1>7. CASE DrainEnd \/ BeginDeletion \/ EndDeletion \/ DisposeSettles
  BY <1>7 DEF DrainEnd, BeginDeletion, EndDeletion, DisposeSettles, Holders
<1>8. CASE UNCHANGED admissionVars
  BY <1>8 DEF admissionVars, Holders
<1> QED BY <1>2, <1>3, <1>4, <1>5, <1>6, <1>7, <1>8 DEF AdmissionNext

(* The leases of the dispatcher implement the first-come first-served pool. *)
THEOREM AdmissionImplementsPool == Spec => PoolSpec
<1>1. Spec => Pool!Init /\ [][Pool!Next]_(Pool!vars)
  BY PoolInit, PoolStep, InductiveInvariant, PTL DEF Spec
<1> QED BY <1>1 DEF PoolSpec, Pool!Spec
-----------------------------------------------------------------------------
(* One more revision on a log. *)
LEMMA Extended ==
  ASSUME NEW S, NEW s \in Seq(S), NEW e \in S
  PROVE  /\ Append(s, e) \in Seq(S) /\ Append(s, e) # <<>>
         /\ Last(Append(s, e)) = e /\ Len(Append(s, e)) = Len(s) + 1 /\ Front(Append(s, e)) = s
         /\ ToSet(Append(s, e)) = ToSet(s) \cup {e}
<1>1. Len(s) \in Nat /\ DOMAIN s = 1 .. Len(s)
  BY LenProperties
<1>2. /\ Append(s, e) \in Seq(S) /\ Append(s, e) # <<>> /\ Len(Append(s, e)) = Len(s) + 1
      /\ DOMAIN Append(s, e) = 1 .. Len(s) + 1
      /\ \A i \in 1 .. Len(s) : Append(s, e)[i] = s[i]
      /\ Append(s, e)[Len(s) + 1] = e
  BY AppendProperties, LenProperties
<1>3. Last(Append(s, e)) = e
  BY <1>2 DEF Last
<1>4. Front(Append(s, e)) = s
  <2>1. SubSeq(Append(s, e), 1, Len(s)) = [i \in 1 .. Len(s) |-> Append(s, e)[i]]
    BY <1>1, <1>2
  <2>2. s = [i \in 1 .. Len(s) |-> s[i]]
    BY <1>1
  <2> QED BY <1>1, <1>2, <2>1, <2>2 DEF Front
<1>5. ToSet(Append(s, e)) = ToSet(s) \cup {e}
  <2>1. 1 .. Len(s) + 1 = (1 .. Len(s)) \cup {Len(s) + 1}
    BY <1>1
  <2> QED BY <1>1, <1>2, <2>1 DEF ToSet
<1> QED BY <1>2, <1>3, <1>4, <1>5

(* An older end of a log. *)
LEMMA Shortened ==
  ASSUME NEW S, NEW s \in Seq(S), NEW n \in 0 .. Len(s)
  PROVE  /\ SubSeq(s, 1, n) \in Seq(S) /\ Len(SubSeq(s, 1, n)) = n
         /\ ToSet(SubSeq(s, 1, n)) \subseteq ToSet(s)
         /\ IsPrefix(SubSeq(s, 1, n), s)
<1>1. Len(s) \in Nat /\ DOMAIN s = 1 .. Len(s) /\ \A i \in 1 .. Len(s) : s[i] \in S
  BY LenProperties, ElementOfSeq
<1>2. \A i \in 1 .. n : i \in 1 .. Len(s) /\ s[i] \in S
  BY <1>1
<1>3. /\ SubSeq(s, 1, n) \in Seq(S) /\ Len(SubSeq(s, 1, n)) = n
      /\ \A i \in 1 .. n : SubSeq(s, 1, n)[i] = s[i]
  BY <1>1, <1>2, SubSeqProperties
<1>4. ToSet(SubSeq(s, 1, n)) \subseteq ToSet(s)
  BY <1>1, <1>2, <1>3, LenProperties DEF ToSet
<1>5. SubSeq(SubSeq(s, 1, n), 1, n) = SubSeq(s, 1, n)
  BY <1>3, SubSeqFull
<1> QED BY <1>1, <1>3, <1>4, <1>5 DEF IsPrefix

(* The latest revision of a log is one of its revisions. *)
LEMMA LatestIsOne ==
  ASSUME NEW S, NEW s \in Seq(S)
  PROVE  ToSet(s) \subseteq S /\ (s # <<>> => Last(s) \in ToSet(s))
<1>1. Len(s) \in Nat /\ DOMAIN s = 1 .. Len(s) /\ \A i \in 1 .. Len(s) : s[i] \in S
  BY LenProperties, ElementOfSeq
<1>2. s # <<>> => Len(s) \in 1 .. Len(s)
  BY <1>1, EmptySeq
<1> QED BY <1>1, <1>2 DEF ToSet, Last

(* The values that stand for "nothing" are none of the values there are. *)
LEMMA NothingIsNothing ==
  /\ Torn \notin Records /\ NoRecord \notin Records /\ NoChild \notin Children
  /\ NoDeletion.step = "none"
<1> QED BY DispatchAssumption DEF Torn, Records, NoRecord, NoChild, Children, NoDeletion, RecordStates

(* What is readable is the latest of the saved revisions. *)
LEMMA ReadableIsSaved ==
  ASSUME DispatchTypeOK, NEW k \in Runs
  PROVE  /\ Saved(k) \subseteq Records
         /\ disk[k] # <<>> => Latest(k) \in ToSet(disk[k]) /\ Latest(k) \in Records \cup {Torn}
         /\ Readable(k) => Latest(k) \in Saved(k)
         /\ Torn \notin ToSet(disk[k]) /\ disk[k] # <<>> => Readable(k)
<1>1. disk[k] \in Seq(Records \cup {Torn})
  BY DEF DispatchTypeOK
<1>2. ToSet(disk[k]) \subseteq Records \cup {Torn} /\ (disk[k] # <<>> => Last(disk[k]) \in ToSet(disk[k]))
  BY <1>1, LatestIsOne
<1> QED BY <1>2, Zenon DEF Saved, Readable, Latest
-----------------------------------------------------------------------------
(* An operation of the admission control keeps what was shown of it above. *)
LEMMA AdmissionKeeps ==
  ASSUME IInv, UNCHANGED admissionVars \/ AdmissionNext
  PROVE  IInv'
<1> QED BY NextPreserves

(* Nothing of any assignment but k moves. *)
SameElsewhere(k) ==
  \A j \in Runs \ {k} :
    /\ pc'[j] = pc[j] /\ options'[j] = options[j] /\ record'[j] = record[j] /\ index'[j] = index[j]
    /\ returned'[j] = returned[j] /\ started'[j] = started[j] /\ disk'[j] = disk[j]
    /\ (j \in damaged' <=> j \in damaged)

(* What holds of an assignment holds of it still when another one moves, as long as no record
   disappears. *)
LEMMA OthersStand ==
  ASSUME NEW k, \A j \in Runs : AssignmentStands(j), SameElsewhere(k),
         \A s \in Runs : disk[s] # <<>> => disk'[s] # <<>>
  PROVE  \A j \in Runs \ {k} : AssignmentStands(j)'
<1> SUFFICES ASSUME NEW j \in Runs \ {k}
             PROVE  AssignmentStands(j)'
  OBVIOUS
<1>1. /\ pc'[j] = pc[j] /\ options'[j] = options[j] /\ record'[j] = record[j] /\ index'[j] = index[j]
      /\ returned'[j] = returned[j] /\ started'[j] = started[j] /\ disk'[j] = disk[j]
      /\ (j \in damaged' <=> j \in damaged)
  BY DEF SameElsewhere
<1>2. Saved(j)' = Saved(j) /\ Latest(j)' = Latest(j) /\ (Readable(j)' <=> Readable(j))
  BY <1>1 DEF Saved, Latest, Readable
<1>3. AssignmentStands(j)
  OBVIOUS
<1>4. OneTask(j)' /\ Committed(j)' /\ WithinBudget(j)' /\ ReturnStands(j)'
  BY <1>1, <1>2, <1>3 DEF AssignmentStands, OneTask, Committed, WithinBudget, ReturnStands
<1>5. Recorded(j) => RecordStands(j)'
  BY <1>1, <1>3 DEF AssignmentStands, CallStands, RecordStands
<1>6. Recorded(j) => RoundStands(j)'
  BY <1>1, <1>3 DEF AssignmentStands, CallStands, RoundStands
<1>7. Recorded(j) => SavedStands(j)'
  BY <1>1, <1>2, <1>3 DEF AssignmentStands, CallStands, SavedStands
<1>8. CallStands(j)'
  BY <1>1, <1>3, <1>5, <1>6, <1>7 DEF AssignmentStands, CallStands, Recorded
<1> QED BY <1>4, <1>8 DEF AssignmentStands

(* A call that has its lease and goes on: what is left to show of it. *)
LEMMA CallGoesOn ==
  ASSUME RunInv, NEW k \in Runs, pc[k] # "idle", pc'[k] # "idle",
         IInv', DispatchTypeOK', UNCHANGED <<leases, deleting, closed, deletion>>, aborted \subseteq aborted',
         leases[k] # "pending", leases[k] = "cancelled" => pc'[k] = "cleanup",
         child'[k] # NoChild => leases[k] = "active" /\ pc'[k] \in WithChild,
         \A j \in Runs \ {k} : child'[j] = child[j],
         SameElsewhere(k), disk[k] # <<>> => disk'[k] # <<>>,
         AssignmentStands(k)'
  PROVE  RunInv'
<1>1. IInv /\ DispatchTypeOK /\ LeasesStand /\ (\A j \in Runs : AssignmentStands(j)) /\ DeletionStands
  BY DEF RunInv
<1>2. \A j \in Runs : AssignmentStands(j)'
  <2>1. \A s \in Runs : disk[s] # <<>> => disk'[s] # <<>>
    BY DEF SameElsewhere
  <2>2. \A j \in Runs \ {k} : AssignmentStands(j)'
    BY <1>1, <2>1, OthersStand
  <2> QED BY <2>2
<1>3. LeasesStand'
  <2>1. \A j \in Runs \ {k} : pc'[j] = pc[j] /\ child'[j] = child[j]
    BY DEF SameElsewhere
  <2>2. leases[k] \in LeaseStatus
    BY <1>1 DEF DispatchTypeOK, TypeOK
  <2> QED BY <1>1, <2>1, <2>2 DEF LeasesStand, LeaseStatus
<1>4. DeletionStands'
  <2>1. ~deleting
    BY <1>1 DEF LeasesStand, IInv, DeletionExclusive, NoLeases
  <2>2. deletion = NoDeletion /\ deletion'.step # "remove"
    BY <1>1, <2>1, NothingIsNothing DEF LeasesStand
  <2> QED BY <2>2 DEF DeletionStands
<1> QED BY <1>1, <1>2, <1>3, <1>4 DEF RunInv

(* The same without a save and without a start: only the call itself and what it returned
   are left to show. *)
LEMMA CallMoves ==
  ASSUME RunInv, NEW k \in Runs, pc[k] # "idle", pc'[k] # "idle",
         IInv', DispatchTypeOK', UNCHANGED <<leases, deleting, closed, deletion>>, aborted \subseteq aborted',
         leases[k] # "pending", leases[k] = "cancelled" => pc'[k] = "cleanup",
         child'[k] # NoChild => leases[k] = "active" /\ pc'[k] \in WithChild,
         \A j \in Runs \ {k} : child'[j] = child[j],
         SameElsewhere(k), UNCHANGED <<disk, damaged, started>>,
         CallStands(k)', ReturnStands(k)'
  PROVE  RunInv'
<1>1. AssignmentStands(k)
  BY DEF RunInv
<1>2. Saved(k)' = Saved(k) /\ Latest(k)' = Latest(k) /\ (Readable(k)' <=> Readable(k))
  BY DEF Saved, Latest, Readable
<1>3. OneTask(k)' /\ Committed(k)' /\ WithinBudget(k)'
  BY <1>1, <1>2 DEF AssignmentStands, OneTask, Committed, WithinBudget
<1> QED BY <1>3, CallGoesOn DEF AssignmentStands

(* The abort of a scope: the call keeps its lease, and its child, if any, is disposed. *)
LEMMA ScopeAborted ==
  ASSUME RunInv, NEW k \in Runs, leases[k] \in {"active", "cancelled"}, ~draining, AbortScope(k)
  PROVE  /\ IInv' /\ UNCHANGED <<leases, deleting, closed>> /\ aborted' = aborted \cup {k}
         /\ child' \in [Runs -> Children \cup {NoChild}]
         /\ \A j \in Runs \ {k} : child'[j] = child[j]
         /\ child'[k] # NoChild => child[k] # NoChild
<1>1. IInv'
  <2>1. UNCHANGED admissionVars \/ AdmissionNext
    BY DEF AbortScope, AdmissionNext
  <2> QED BY <2>1, AdmissionKeeps DEF RunInv
<1>2. UNCHANGED <<leases, deleting, closed>> /\ aborted' = aborted \cup {k}
  BY DEF AbortScope, Abort, admissionVars
<1>3. child \in [Runs -> Children \cup {NoChild}] /\ child' = BeginDisposal(k)
  BY DEF RunInv, DispatchTypeOK, AbortScope
<1>4. child[k] # NoChild => [child[k] EXCEPT !.disposal = "begun"] \in Children
  BY <1>3 DEF Children
<1>5. /\ child' \in [Runs -> Children \cup {NoChild}]
      /\ \A j \in Runs \ {k} : child'[j] = child[j]
      /\ child'[k] # NoChild => child[k] # NoChild
  BY <1>3, <1>4 DEF BeginDisposal
<1> QED BY <1>1, <1>2, <1>5
-----------------------------------------------------------------------------
(* Where a call stands says which lease it has and whether it can have a child. *)
LEMMA Standing ==
  ASSUME RunInv, NEW k \in Runs
  PROVE  /\ pc[k] \in Labels /\ AssignmentStands(k) /\ CallStands(k)
         /\ pc[k] \notin {"idle", "ready", "cleanup"} => leases[k] = "active"
         /\ pc[k] = "cleanup" => leases[k] \in {"active", "cancelled"}
         /\ pc[k] \notin WithChild => child[k] = NoChild
         /\ child[k] \in Children \cup {NoChild}
<1>1. leases[k] \in {"absent", "pending", "active", "cancelled"}
  BY DEF RunInv, DispatchTypeOK, TypeOK, LeaseStatus
<1> QED BY <1>1 DEF RunInv, LeasesStand, AssignmentStands, DispatchTypeOK

(* Where a call may write its record. *)
LEMMA SaveTargets ==
  /\ SavePoints = {"planSave", "roundSave", "childSave", "resultSave", "movedSave", "limitSave",
                   "reconcileSave", "finalSave", "failSave"}
  /\ AfterSave["planSave"] = "service" /\ AfterSave["roundSave"] = "launch"
  /\ AfterSave["childSave"] = "result" /\ AfterSave["resultSave"] = "disposeRound"
  /\ AfterSave["movedSave"] = "disposeMoved" /\ AfterSave["limitSave"] = "finish"
  /\ AfterSave["reconcileSave"] = "finish" /\ AfterSave["finalSave"] = "cleanup"
  /\ AfterSave["failSave"] = "cleanup"
<1> QED BY DEF SavePoints, AfterSave

(* A step that leaves the saved records alone leaves what was read of them. *)
LEMMA DiskAlone ==
  ASSUME UNCHANGED disk, NEW k
  PROVE  Saved(k)' = Saved(k) /\ Latest(k)' = Latest(k) /\ (Readable(k)' <=> Readable(k))
<1> QED BY DEF Saved, Latest, Readable

(* The label of one call changes. *)
LEMMA Moved ==
  ASSUME DispatchTypeOK, NEW k \in Runs, NEW x \in Labels, Goto(k, x)
  PROVE  pc' \in [Runs -> Labels] /\ pc'[k] = x /\ \A j \in Runs \ {k} : pc'[j] = pc[j]
<1> QED BY DEF DispatchTypeOK, Goto

(* A new state and a new end of a record in memory. *)
LEMMA Rewritten ==
  ASSUME DispatchTypeOK, NEW k \in Runs, record[k] \in Records, NEW a \in RecordStates, NEW b \in BOOLEAN,
         record' = [record EXCEPT ![k].state = a, ![k].finished = b]
  PROVE  /\ record' \in [Runs -> Records \cup {NoRecord}] /\ record'[k] \in Records
         /\ \A j \in Runs \ {k} : record'[j] = record[j]
         /\ record'[k] = [record[k] EXCEPT !.state = a, !.finished = b]
<1>1. [record[k] EXCEPT !.state = a, !.finished = b] \in Records
  BY DEF Records
<1>2. record' = [record EXCEPT ![k] = [record[k] EXCEPT !.state = a, !.finished = b]]
  BY DEF DispatchTypeOK
<1> QED BY <1>1, <1>2 DEF DispatchTypeOK

(* The catch block before there is a record. *)
LEMMA RefuseKeeps ==
  ASSUME RunInv, NEW k \in Runs, ~draining, pc[k] \in {"ready", "lookup", "subject"},
         leases[k] \in {"active", "cancelled"}, Refuse(k), UNCHANGED <<options, index, judged, worldVars>>
  PROVE  RunInv'
<1>1. DispatchTypeOK /\ CallStands(k) /\ child[k] = NoChild
  BY Standing DEF RunInv, WithChild
<1>2. /\ IInv' /\ UNCHANGED <<leases, deleting, closed>> /\ aborted' = aborted \cup {k}
      /\ child' \in [Runs -> Children \cup {NoChild}]
      /\ \A j \in Runs \ {k} : child'[j] = child[j]
      /\ child'[k] = NoChild
  BY <1>1, ScopeAborted DEF Refuse
<1>3. "cleanup" \in Labels
  BY DEF Labels
<1>4. pc' \in [Runs -> Labels] /\ pc'[k] = "cleanup" /\ \A j \in Runs \ {k} : pc'[j] = pc[j]
  BY <1>1, <1>3, Moved DEF Refuse
<1>5. /\ returned' \in [Runs -> RecordStates \cup {None, "REFUSED", "PERSISTENCE_FAILED"}]
      /\ returned'[k] = "REFUSED" /\ \A j \in Runs \ {k} : returned'[j] = returned[j]
  BY <1>1 DEF Refuse, DispatchTypeOK
<1>6. UNCHANGED <<record, options, index, judged, deletion, disk, damaged, expired, started, crashes>>
  BY DEF Refuse, worldVars
<1>7. DispatchTypeOK'
  BY <1>1, <1>2, <1>4, <1>5, <1>6 DEF DispatchTypeOK, IInv
<1>8. CallStands(k)' /\ ReturnStands(k)'
  BY <1>1, <1>4, <1>5, <1>6 DEF CallStands, Recorded, ReturnStands
<1>9. SameElsewhere(k)
  BY <1>4, <1>5, <1>6 DEF SameElsewhere
<1> QED BY <1>2, <1>4, <1>6, <1>7, <1>8, <1>9, CallMoves

(* The catch block once there is a record that can still be saved. *)
LEMMA InterruptKeeps ==
  ASSUME RunInv, NEW k \in Runs, ~draining, Recorded(k), pc[k] # "planSave",
         Interrupt(k, FALSE), UNCHANGED <<options, index, judged, worldVars>>
  PROVE  RunInv'
<1>1. DispatchTypeOK /\ CallStands(k) /\ leases[k] = "active" /\ pc[k] # "idle"
  BY Standing DEF RunInv, Recorded
<1>2. /\ IInv' /\ UNCHANGED <<leases, deleting, closed>> /\ aborted' = aborted \cup {k}
      /\ child' \in [Runs -> Children \cup {NoChild}]
      /\ \A j \in Runs \ {k} : child'[j] = child[j]
  BY <1>1, ScopeAborted DEF Interrupt
<1>3. "failSave" \in Labels /\ "failSave" \in WithChild
  BY SaveTargets DEF Labels, WithChild
<1>4. pc' \in [Runs -> Labels] /\ pc'[k] = "failSave" /\ \A j \in Runs \ {k} : pc'[j] = pc[j]
  BY <1>1, <1>3, Moved DEF Interrupt
<1>5. RecordStands(k) /\ RoundStands(k) /\ SavedStands(k) /\ record[k] \in Records
  BY <1>1, SMTT(30) DEF CallStands, RecordStands
<1>6. /\ record' \in [Runs -> Records \cup {NoRecord}] /\ record'[k] \in Records
      /\ \A j \in Runs \ {k} : record'[j] = record[j]
      /\ record'[k] = [record[k] EXCEPT !.state = "INTERRUPTED_UNKNOWN", !.finished = TRUE]
  BY <1>1, <1>5, Rewritten DEF Interrupt, RecordStates
<1>7. UNCHANGED <<returned, options, index, judged, deletion, disk, damaged, expired, started, crashes>>
  BY DEF Interrupt, worldVars
<1>8. DispatchTypeOK'
  BY <1>1, <1>2, <1>4, <1>6, <1>7 DEF DispatchTypeOK, IInv
<1>9. /\ record'[k].subject = record[k].subject /\ record'[k].write = record[k].write
      /\ record'[k].compact = record[k].compact /\ record'[k].route = record[k].route
      /\ record'[k].evidence = record[k].evidence /\ record'[k].rounds = record[k].rounds
      /\ record'[k].finished /\ record'[k].state = "INTERRUPTED_UNKNOWN"
  BY <1>5, <1>6 DEF Records
<1>10. CallStands(k)'
  <2>1. RecordStands(k)'
    BY <1>4, <1>5, <1>6, <1>7, <1>9 DEF RecordStands
  <2>2. RoundStands(k)'
    BY <1>4, <1>5, <1>7, <1>9 DEF RoundStands, Budget
  <2>3. SavedStands(k)'
    BY <1>4, <1>5, <1>7, <1>9, DiskAlone DEF SavedStands
  <2> QED BY <1>1, <1>4, <1>7, <2>1, <2>2, <2>3 DEF CallStands, Recorded
<1>11. ReturnStands(k)'
  BY <1>1, <1>7 DEF CallStands, ReturnStands, Recorded
<1>12. SameElsewhere(k)
  BY <1>4, <1>6, <1>7 DEF SameElsewhere
<1> QED BY <1>1, <1>2, <1>3, <1>4, <1>7, <1>8, <1>10, <1>11, <1>12, CallMoves
-----------------------------------------------------------------------------
(* A step of an admitted call by itself: its label, its record, its counter or its child
   change, and nothing else does. *)
LEMMA PlainStep ==
  ASSUME RunInv, NEW k \in Runs, pc[k] \notin {"idle", "cleanup"}, leases[k] = "active",
         NEW x \in Labels \ {"idle"}, Goto(k, x),
         record' \in [Runs -> Records \cup {NoRecord}], \A j \in Runs \ {k} : record'[j] = record[j],
         index' \in [Runs -> 0 .. MaxRounds - 1], \A j \in Runs \ {k} : index'[j] = index[j],
         child' \in [Runs -> Children \cup {NoChild}], \A j \in Runs \ {k} : child'[j] = child[j],
         child'[k] # NoChild => x \in WithChild,
         judged' \in [Runs -> Nat],
         UNCHANGED <<admissionVars, options, returned, worldVars>>, CallStands(k)'
  PROVE  RunInv'
<1>1. DispatchTypeOK /\ CallStands(k)
  BY Standing DEF RunInv
<1>2. pc' \in [Runs -> Labels] /\ pc'[k] = x /\ \A j \in Runs \ {k} : pc'[j] = pc[j]
  BY <1>1, Moved
<1>3. UNCHANGED <<leases, deleting, closed, aborted>>
      /\ UNCHANGED <<returned, options, deletion, disk, damaged, expired, started, crashes>>
  BY DEF admissionVars, worldVars
<1>4. IInv'
  BY AdmissionKeeps DEF RunInv
<1>5. DispatchTypeOK'
  BY <1>1, <1>2, <1>3, <1>4 DEF DispatchTypeOK, IInv
<1>6. ReturnStands(k)'
  BY <1>1, <1>3 DEF CallStands, ReturnStands
<1>7. SameElsewhere(k)
  BY <1>2, <1>3 DEF SameElsewhere
<1> QED BY <1>2, <1>3, <1>4, <1>5, <1>6, <1>7, CallMoves

LEMMA ReadyKeeps ==
  ASSUME RunInv, NEW k \in Runs, Ready(k)
  PROVE  RunInv'
<1>1. ~draining /\ pc[k] = "ready" /\ UNCHANGED <<options, index, judged, worldVars>>
  BY DEF Ready, At
<1>2. CASE leases[k] \in {"active", "cancelled"} /\ Refuse(k)
  BY <1>1, <1>2, RefuseKeeps
<1>3. CASE leases[k] = "active" /\ Goto(k, "lookup") /\ UNCHANGED <<admissionVars, record, child, returned>>
  <2>1. "lookup" \in Labels \ {"idle"} /\ CallStands(k) /\ child[k] = NoChild /\ DispatchTypeOK
    BY <1>1, Standing DEF RunInv, Labels, WithChild
  <2>2. pc'[k] = "lookup" /\ UNCHANGED <<options, index, record, child, returned, judged, disk>>
    BY <1>1, <1>3, <2>1, Moved DEF worldVars
  <2>3. CallStands(k)'
    BY <1>1, <2>1, <2>2 DEF CallStands, Recorded
  <2> QED BY <1>1, <1>3, <2>1, <2>2, <2>3, PlainStep DEF DispatchTypeOK
<1> QED BY <1>2, <1>3 DEF Ready

(* The first record of a call: nothing is saved yet, and what it reviews is there. *)
LEMMA PlanKeeps ==
  ASSUME RunInv, NEW k \in Runs, pc[k] \in {"lookup", "subject"}, disk[k] = <<>>, Plan(k),
         options[k].subject \in Runs => disk[options[k].subject] # <<>>,
         judged' \in [Runs -> Nat], UNCHANGED <<options, index, worldVars>>
  PROVE  RunInv'
<1>1. /\ DispatchTypeOK /\ CallStands(k) /\ child[k] = NoChild /\ leases[k] = "active"
      /\ options[k] \in Options /\ index[k] = 0 /\ returned[k] = None
      /\ "planSave" \in Labels \ {"idle"} /\ AssignmentStands(k)
  BY Standing, SaveTargets DEF RunInv, Labels, WithChild, CallStands
<1>2. PICK r : r = [state |-> "PLANNED", rounds |-> 0, parts |-> 0, route |-> 0, evidence |-> 0,
                    subject |-> options[k].subject, write |-> options[k].write,
                    compact |-> options[k].compact, finished |-> FALSE]
  OBVIOUS
<1>3. r \in Records
  <2>1. 0 \in Routes
    BY DispatchAssumption DEF Routes
  <2>2. options[k].subject \in Runs \cup {None, Elsewhere} /\ options[k].write \in BOOLEAN /\ options[k].compact \in BOOLEAN
    BY <1>1, DispatchAssumption
  <2> QED BY <1>2, <2>1, <2>2 DEF Records, RecordStates
<1>4. /\ record' = [record EXCEPT ![k] = r] /\ Goto(k, "planSave")
      /\ UNCHANGED <<admissionVars, child, returned, options, index, disk, damaged, started>> /\ UNCHANGED worldVars
  BY <1>2 DEF Plan, worldVars
<1>5. /\ record' \in [Runs -> Records \cup {NoRecord}] /\ record'[k] = r
      /\ \A j \in Runs \ {k} : record'[j] = record[j]
      /\ pc'[k] = "planSave"
  BY <1>1, <1>3, <1>4, Moved DEF DispatchTypeOK
<1>6. started[k] = 0 /\ k \notin damaged
  BY <1>1 DEF AssignmentStands, Committed, OneTask, DispatchTypeOK
<1>7. Saved(k)' = {} /\ ToSet(disk[k]) = {}
  BY <1>4 DEF Saved, ToSet
<1>8. CallStands(k)'
  <2>1. RecordStands(k)'
    BY <1>2, <1>3, <1>4, <1>5 DEF RecordStands
  <2>2. RoundStands(k)'
    BY <1>1, <1>2, <1>4, <1>5, <1>6, DispatchAssumption DEF RoundStands, Budget
  <2>3. SavedStands(k)'
    BY <1>4, <1>5, <1>6, <1>7 DEF SavedStands
  <2> QED BY <1>1, <1>4, <1>5, <2>1, <2>2, <2>3 DEF CallStands, Recorded
<1> QED BY <1>1, <1>4, <1>5, <1>8, PlainStep DEF DispatchTypeOK

LEMMA LookupKeeps ==
  ASSUME RunInv, NEW k \in Runs, Lookup(k)
  PROVE  RunInv'
<1>1. ~draining /\ pc[k] = "lookup" /\ UNCHANGED <<options, index, judged, worldVars>>
  BY DEF Lookup, At
<1>2. /\ DispatchTypeOK /\ CallStands(k) /\ child[k] = NoChild /\ leases[k] = "active"
  BY <1>1, Standing DEF RunInv, WithChild
<1>3. CASE Refuse(k)
  BY <1>1, <1>2, <1>3, RefuseKeeps
<1>4. CASE disk[k] = <<>> /\ options[k].subject = None /\ Plan(k)
  <2>1. options[k].subject \notin Runs
    BY <1>4, DispatchAssumption
  <2>2. judged' \in [Runs -> Nat]
    BY <1>1, <1>2 DEF DispatchTypeOK
  <2> QED BY <1>1, <1>4, <2>1, <2>2, PlanKeeps
<1>5. CASE disk[k] = <<>> /\ Goto(k, "subject") /\ UNCHANGED <<admissionVars, record, child, returned>>
  <2>1. "subject" \in Labels \ {"idle"}
    BY DEF Labels
  <2>2. pc'[k] = "subject" /\ UNCHANGED <<options, index, record, child, returned, judged, disk>>
    BY <1>1, <1>2, <1>5, <2>1, Moved DEF worldVars
  <2>3. CallStands(k)'
    BY <1>1, <1>2, <1>5, <2>2 DEF CallStands, Recorded
  <2> QED BY <1>1, <1>2, <1>5, <2>1, <2>2, <2>3, PlainStep DEF DispatchTypeOK
<1> QED BY <1>3, <1>4, <1>5 DEF Lookup, Taken

LEMMA LoadSubjectKeeps ==
  ASSUME RunInv, NEW k \in Runs, LoadSubject(k)
  PROVE  RunInv'
<1>1. ~draining /\ pc[k] = "subject" /\ UNCHANGED <<options, index, worldVars>>
  BY DEF LoadSubject, At
<1>2. /\ DispatchTypeOK /\ CallStands(k) /\ leases[k] = "active" /\ disk[k] = <<>>
  BY <1>1, Standing DEF RunInv, CallStands
<1>3. CASE Refuse(k) /\ UNCHANGED judged
  BY <1>1, <1>2, <1>3, RefuseKeeps
<1>4. CASE options[k].subject = Elsewhere /\ Plan(k) /\ UNCHANGED judged
  <2>1. options[k].subject \notin Runs /\ judged' \in [Runs -> Nat]
    BY <1>2, <1>4, DispatchAssumption DEF DispatchTypeOK
  <2> QED BY <1>1, <1>2, <1>4, <2>1, PlanKeeps
<1>5. CASE /\ options[k].subject \in Runs /\ Reviewable(options[k].subject) /\ Plan(k)
           /\ judged' = [judged EXCEPT ![k] = Latest(options[k].subject).parts]
  <2>1. disk[options[k].subject] # <<>> /\ Latest(options[k].subject).parts \in Nat
    BY <1>2, <1>5, ReadableIsSaved DEF Reviewable, Readable, Records
  <2>2. judged' \in [Runs -> Nat]
    BY <1>2, <1>5, <2>1 DEF DispatchTypeOK
  <2> QED BY <1>1, <1>2, <1>5, <2>1, <2>2, PlanKeeps
<1> QED BY <1>3, <1>4, <1>5 DEF LoadSubject
-----------------------------------------------------------------------------
(* One record in memory is replaced. *)
LEMMA Replaced ==
  ASSUME DispatchTypeOK, NEW k \in Runs, NEW r \in Records, record' = [record EXCEPT ![k] = r]
  PROVE  /\ record' \in [Runs -> Records \cup {NoRecord}] /\ record'[k] = r
         /\ \A j \in Runs \ {k} : record'[j] = record[j]
<1> QED BY DEF DispatchTypeOK

(* What a call with a record knows of it. *)
LEMMA RecordFacts ==
  ASSUME RunInv, NEW k \in Runs, Recorded(k)
  PROVE  /\ DispatchTypeOK /\ CallStands(k) /\ leases[k] = "active" /\ options[k] \in Options /\ returned[k] = None
         /\ RecordStands(k) /\ RoundStands(k) /\ SavedStands(k)
         /\ record[k] \in Records /\ record[k].rounds \in Nat /\ record[k].parts \in Nat
         /\ record[k].route \in 0 .. Standby /\ index[k] \in 0 .. MaxRounds - 1 /\ started[k] \in Nat
         /\ MaxRounds \in Nat \ {0} /\ Standby \in Nat
<1>1. DispatchTypeOK /\ CallStands(k) /\ leases[k] = "active"
  BY Standing DEF RunInv, Recorded
<1>2. RecordStands(k) /\ RoundStands(k) /\ SavedStands(k) /\ options[k] \in Options /\ returned[k] = None
  BY <1>1 DEF CallStands, Recorded
<1>3. record[k] \in Records
  BY <1>2 DEF RecordStands
<1>4. record[k].rounds \in Nat /\ record[k].parts \in Nat /\ record[k].route \in 0 .. Standby
  BY <1>3 DEF Records, Routes
<1> QED BY <1>1, <1>2, <1>3, <1>4, DispatchAssumption DEF DispatchTypeOK

LEMMA ServiceKeeps ==
  ASSUME RunInv, NEW k \in Runs, Service(k)
  PROVE  RunInv'
<1>1. ~draining /\ pc[k] = "service" /\ Recorded(k) /\ UNCHANGED <<options, index, judged, worldVars>>
  BY DEF Service, At, Recorded
<1>2. CASE Interrupt(k, FALSE)
  BY <1>1, <1>2, InterruptKeeps
<1>3. CASE Goto(k, "head") /\ UNCHANGED <<admissionVars, record, child, returned>>
  <2>1. "head" \in Labels \ {"idle"} /\ child[k] = NoChild
    BY <1>1, Standing DEF Labels, WithChild
  <2>2. pc'[k] = "head" /\ UNCHANGED <<options, index, record, child, returned, judged, disk, damaged, started>>
    BY <1>1, <1>3, <2>1, Moved, RecordFacts DEF worldVars
  <2>3. CallStands(k)'
    <3>1. RecordStands(k)'
      BY <1>1, <2>2, RecordFacts DEF RecordStands
    <3>2. RoundStands(k)'
      BY <1>1, <2>2, RecordFacts DEF RoundStands, Budget
    <3>3. SavedStands(k)'
      BY <1>1, <2>2, RecordFacts, DiskAlone DEF SavedStands
    <3> QED BY <1>1, <2>2, <3>1, <3>2, <3>3, RecordFacts DEF CallStands, Recorded
  <2> QED BY <1>1, <1>3, <2>1, <2>2, <2>3, PlainStep, RecordFacts DEF DispatchTypeOK
<1> QED BY <1>2, <1>3 DEF Service

LEMMA RoundHeadKeeps ==
  ASSUME RunInv, NEW k \in Runs, RoundHead(k)
  PROVE  RunInv'
<1>1. ~draining /\ pc[k] = "head" /\ Recorded(k) /\ UNCHANGED <<options, index, judged, worldVars>>
  BY DEF RoundHead, At, Recorded
<1>2. child[k] = NoChild /\ {"limitSave", "roundSave"} \subseteq Labels \ {"idle"}
  BY <1>1, Standing, SaveTargets DEF Labels, WithChild
<1>3. CASE Interrupt(k, FALSE)
  BY <1>1, <1>3, InterruptKeeps
<1>4. CASE /\ ~options[k].compact /\ record' = [record EXCEPT ![k].state = "PARTIAL_CONTEXT_LIMIT"]
           /\ Goto(k, "limitSave") /\ UNCHANGED <<admissionVars, child, returned>>
  <2>1. PICK r : r = [record[k] EXCEPT !.state = "PARTIAL_CONTEXT_LIMIT"]
    OBVIOUS
  <2>2. r \in Records /\ r.subject = record[k].subject /\ r.write = record[k].write /\ r.compact = record[k].compact
        /\ r.evidence = record[k].evidence /\ r.route = record[k].route /\ r.rounds = record[k].rounds
        /\ r.finished = record[k].finished
    BY <1>1, <2>1, RecordFacts DEF Records, RecordStates
  <2>3. /\ record' \in [Runs -> Records \cup {NoRecord}] /\ record'[k] = r
        /\ \A j \in Runs \ {k} : record'[j] = record[j]
    BY <1>1, <1>4, <2>1, <2>2, Replaced, RecordFacts DEF DispatchTypeOK
  <2>4. pc'[k] = "limitSave" /\ UNCHANGED <<options, index, child, returned, judged, disk, damaged, started>>
    BY <1>1, <1>2, <1>4, Moved, RecordFacts DEF worldVars
  <2>5. CallStands(k)'
    <3>1. RecordStands(k)'
      BY <1>1, <2>2, <2>3, <2>4, RecordFacts DEF RecordStands
    <3>2. RoundStands(k)'
      BY <1>1, <2>2, <2>3, <2>4, RecordFacts DEF RoundStands, Budget
    <3>3. SavedStands(k)'
      BY <1>1, <2>2, <2>3, <2>4, RecordFacts, DiskAlone DEF SavedStands
    <3> QED BY <1>1, <2>4, <3>1, <3>2, <3>3, RecordFacts DEF CallStands, Recorded
  <2> QED BY <1>1, <1>2, <1>4, <2>3, <2>4, <2>5, PlainStep, RecordFacts DEF DispatchTypeOK
<1>5. CASE Commit(k) /\ UNCHANGED <<admissionVars, child, returned>>
  <2>0. PICK n \in Nat : n = record[k].rounds + 1
    BY <1>1, RecordFacts
  <2>1. PICK r : r = [record[k] EXCEPT !.state = "RUNNING", !.rounds = n]
    OBVIOUS
  <2>2. r \in Records /\ r.subject = record[k].subject /\ r.write = record[k].write /\ r.compact = record[k].compact
        /\ r.evidence = record[k].evidence /\ r.route = record[k].route /\ r.rounds = record[k].rounds + 1
        /\ r.finished = record[k].finished
    BY <1>1, <2>0, <2>1, RecordFacts DEF Records, RecordStates
  <2>3. record' = [record EXCEPT ![k] = r] /\ Goto(k, "roundSave")
    BY <1>1, <1>5, <2>0, <2>1, RecordFacts DEF Commit, DispatchTypeOK
  <2>4. /\ record' \in [Runs -> Records \cup {NoRecord}] /\ record'[k] = r
        /\ \A j \in Runs \ {k} : record'[j] = record[j]
    BY <1>1, <2>2, <2>3, Replaced, RecordFacts
  <2>5. pc'[k] = "roundSave" /\ UNCHANGED <<options, index, child, returned, judged, disk, damaged, started>>
    BY <1>1, <1>2, <1>5, <2>3, Moved, RecordFacts DEF worldVars
  <2>6. CallStands(k)'
    <3>1. RecordStands(k)'
      BY <1>1, <2>2, <2>4, <2>5, RecordFacts DEF RecordStands
    <3>2. RoundStands(k)'
      BY <1>1, <2>2, <2>4, <2>5, RecordFacts DEF RoundStands, Budget
    <3>3. SavedStands(k)'
      BY <1>1, <2>2, <2>4, <2>5, RecordFacts, DiskAlone DEF SavedStands
    <3> QED BY <1>1, <2>5, <3>1, <3>2, <3>3, RecordFacts DEF CallStands, Recorded
  <2> QED BY <1>1, <1>2, <1>5, <2>3, <2>4, <2>5, <2>6, PlainStep, RecordFacts DEF DispatchTypeOK
<1> QED BY <1>3, <1>4, <1>5 DEF RoundHead

(* A child is started under the round that was saved for it. *)
LEMMA LaunchKeeps ==
  ASSUME RunInv, NEW k \in Runs, Launch(k)
  PROVE  RunInv'
<1>1. ~draining /\ pc[k] = "launch" /\ Recorded(k) /\ UNCHANGED <<options, index, judged, deletion, disk, damaged, expired, crashes>>
  BY DEF Launch, At, Recorded
<1>2. CASE Interrupt(k, FALSE) /\ UNCHANGED started
  BY <1>1, <1>2, InterruptKeeps DEF worldVars
<1>3. CASE Goto(k, "starting") /\ started' = [started EXCEPT ![k] = @ + 1]
           /\ UNCHANGED <<admissionVars, record, child, returned>>
  <2>1. "starting" \in Labels /\ child[k] = NoChild /\ AssignmentStands(k)
    BY <1>1, Standing DEF Labels, WithChild
  <2>2. pc' \in [Runs -> Labels] /\ pc'[k] = "starting" /\ \A j \in Runs \ {k} : pc'[j] = pc[j]
    BY <1>1, <1>3, <2>1, Moved, RecordFacts
  <2>3. /\ started' \in [Runs -> Nat] /\ started'[k] = started[k] + 1
        /\ \A j \in Runs \ {k} : started'[j] = started[j]
    BY <1>1, <1>3, RecordFacts DEF DispatchTypeOK
  <2>4. /\ record[k].rounds = started[k] + 1 /\ Latest(k).rounds = record[k].rounds
        /\ started[k] + 1 <= Budget(record[k]) /\ disk[k] # <<>>
    BY <1>1, RecordFacts DEF RoundStands, SavedStands, Budget
  <2>5. CallStands(k)'
    <3>1. RecordStands(k)'
      BY <1>1, <1>3, <2>2, RecordFacts DEF RecordStands
    <3>2. RoundStands(k)'
      BY <1>1, <1>3, <2>2, <2>3, <2>4, RecordFacts DEF RoundStands, Budget
    <3>3. SavedStands(k)'
      BY <1>1, <1>3, <2>2, <2>3, <2>4, RecordFacts, DiskAlone DEF SavedStands
    <3> QED BY <1>1, <1>3, <2>2, <3>1, <3>2, <3>3, RecordFacts DEF CallStands, Recorded
  <2>6. OneTask(k)' /\ Committed(k)' /\ ReturnStands(k)'
    BY <1>1, <1>3, <2>1, <2>3, <2>4, DiskAlone DEF AssignmentStands, OneTask, Committed, ReturnStands
  <2>7. WithinBudget(k)'
    <3>1. \A saved \in Saved(k) : saved.write = record[k].write /\ saved.compact = record[k].compact
      BY <1>1, RecordFacts DEF SavedStands
    <3>2. \A saved \in Saved(k) : started'[k] <= Budget(saved)
      BY <2>3, <2>4, <3>1 DEF Budget
    <3> QED BY <1>1, <3>2, DiskAlone DEF WithinBudget, Budget
  <2>8. IInv' /\ UNCHANGED <<leases, deleting, closed, aborted>>
    BY <1>3, AdmissionKeeps DEF RunInv, admissionVars
  <2>9. DispatchTypeOK'
    BY <1>1, <1>3, <2>2, <2>3, <2>8, RecordFacts DEF DispatchTypeOK, IInv
  <2>10. SameElsewhere(k)
    BY <1>1, <1>3, <2>2, <2>3 DEF SameElsewhere
  <2>11. AssignmentStands(k)'
    BY <2>5, <2>6, <2>7 DEF AssignmentStands
  <2> QED BY <1>1, <1>3, <2>1, <2>2, <2>8, <2>9, <2>10, <2>11, CallGoesOn, RecordFacts
<1> QED BY <1>2, <1>3 DEF Launch

LEMMA StartReturnsKeeps ==
  ASSUME RunInv, NEW k \in Runs, StartReturns(k)
  PROVE  RunInv'
<1>1. ~draining /\ pc[k] = "starting" /\ Recorded(k) /\ Goto(k, "childSave")
      /\ UNCHANGED <<admissionVars, options, record, index, judged, returned, worldVars>>
  BY DEF StartReturns, At, Recorded
<1>2. "childSave" \in Labels \ {"idle"} /\ "childSave" \in WithChild
  BY SaveTargets DEF Labels, WithChild
<1>3. /\ child' \in [Runs -> Children \cup {NoChild}]
      /\ \A j \in Runs \ {k} : child'[j] = child[j]
  BY <1>1, RecordFacts DEF StartReturns, Children, Texts, DispatchTypeOK
<1>4. pc'[k] = "childSave" /\ UNCHANGED <<options, index, record, returned, judged, disk, damaged, started>>
  BY <1>1, <1>2, Moved, RecordFacts DEF worldVars
<1>5. CallStands(k)'
  <2>1. RecordStands(k)'
    BY <1>1, <1>4, RecordFacts DEF RecordStands
  <2>2. RoundStands(k)'
    BY <1>1, <1>4, RecordFacts DEF RoundStands, Budget
  <2>3. SavedStands(k)'
    BY <1>1, <1>4, RecordFacts, DiskAlone DEF SavedStands
  <2> QED BY <1>1, <1>4, <2>1, <2>2, <2>3, RecordFacts DEF CallStands, Recorded
<1> QED BY <1>1, <1>2, <1>3, <1>4, <1>5, PlainStep, RecordFacts DEF DispatchTypeOK

(* A start that fails, a result that cannot be taken, a child that cannot be disposed. *)
LEMMA ThrowsKeeps ==
  ASSUME RunInv, NEW k \in Runs, StartFails(k) \/ ResultThrows(k) \/ DisposalThrows(k)
  PROVE  RunInv'
<1>1. /\ ~draining /\ Recorded(k) /\ pc[k] # "planSave" /\ Interrupt(k, FALSE)
      /\ UNCHANGED <<options, index, judged, worldVars>>
  BY DEF StartFails, ResultThrows, DisposalThrows, At, Recorded
<1> QED BY <1>1, InterruptKeeps
-----------------------------------------------------------------------------
(* A step that moves no call and touches no record leaves every assignment as it stands. *)
LEMMA AllStand ==
  ASSUME RunInv, UNCHANGED <<pc, options, record, index, returned, started, disk, damaged>>
  PROVE  \A j \in Runs : AssignmentStands(j)'
<1>1. SameElsewhere(None)
  BY DEF SameElsewhere
<1>2. \A j \in Runs : AssignmentStands(j)
  BY DEF RunInv
<1>3. \A j \in Runs \ {None} : AssignmentStands(j)'
  BY <1>1, <1>2, OthersStand
<1> QED BY <1>3, DispatchAssumption

(* The native child moves by itself: its result settles, or its disposal does. *)
LEMMA ChildSettles ==
  ASSUME RunInv, NEW k \in Runs, ResultSettles(k) \/ DisposalSettles(k)
  PROVE  RunInv'
<1>1. UNCHANGED <<admissionVars, pc, options, record, index, judged, returned, worldVars>>
  BY DEF ResultSettles, DisposalSettles
<1>2. UNCHANGED <<leases, deleting, closed, aborted, deletion, disk, damaged, expired, started, crashes>>
  BY <1>1 DEF admissionVars, worldVars
<1>3. DispatchTypeOK /\ LeasesStand /\ DeletionStands /\ child \in [Runs -> Children \cup {NoChild}]
  BY DEF RunInv, DispatchTypeOK
<1>4. child[k] # NoChild /\ child[k] \in Children
  BY <1>3 DEF ResultSettles, DisposalSettles, NoChild
<1>5. child' \in [Runs -> Children \cup {NoChild}] /\ \A j \in Runs \ {k} : child'[j] = child[j]
  <2>1. CASE ResultSettles(k)
    <3>1. PICK reason \in StopReasons, text \in Texts :
            child' = [child EXCEPT ![k].result = reason, ![k].text = text]
      BY <2>1 DEF ResultSettles
    <3>2. [child[k] EXCEPT !.result = reason, !.text = text] \in Children
      BY <1>4 DEF Children
    <3>3. child' = [child EXCEPT ![k] = [child[k] EXCEPT !.result = reason, !.text = text]]
      BY <1>3, <3>1
    <3> QED BY <1>3, <3>2, <3>3
  <2>2. CASE DisposalSettles(k)
    <3>1. PICK outcome \in {"done", "failed"} : child' = [child EXCEPT ![k].disposal = outcome]
      BY <2>2 DEF DisposalSettles
    <3>2. [child[k] EXCEPT !.disposal = outcome] \in Children
      BY <1>4 DEF Children
    <3>3. child' = [child EXCEPT ![k] = [child[k] EXCEPT !.disposal = outcome]]
      BY <1>3, <3>1
    <3> QED BY <1>3, <3>2, <3>3
  <2> QED BY <2>1, <2>2
<1>6. IInv'
  BY <1>1, AdmissionKeeps DEF RunInv
<1>7. DispatchTypeOK'
  BY <1>1, <1>2, <1>3, <1>5, <1>6 DEF DispatchTypeOK, IInv
<1>8. LeasesStand' /\ DeletionStands'
  <2>1. LeasesStand'
    BY <1>1, <1>2, <1>3, <1>4, <1>5 DEF LeasesStand
  <2>2. DeletionStands'
    BY <1>1, <1>2, <1>3, DiskAlone DEF DeletionStands, Forgettable, Referees, Readable, Latest
  <2> QED BY <2>1, <2>2
<1>9. \A j \in Runs : AssignmentStands(j)'
  BY <1>1, <1>2, AllStand
<1> QED BY <1>6, <1>7, <1>8, <1>9 DEF RunInv

(* The next route goes out under its own evidence, and its child is counted as one more. *)
LEMMA FailOverKeeps ==
  ASSUME RunInv, NEW k \in Runs, FailOver(k)
  PROVE  RunInv'
<1>1. ~draining /\ pc[k] = "result" /\ Recorded(k) /\ CanFailOver(k) /\ Goto(k, "movedSave")
      /\ UNCHANGED <<admissionVars, options, index, child, judged, returned, worldVars>>
  BY DEF FailOver, At, Recorded
<1>2. "movedSave" \in Labels \ {"idle"} /\ "movedSave" \in WithChild
  BY SaveTargets DEF Labels, WithChild
<1>3. PICK n \in Routes : n = record[k].route + 1
  BY <1>1, RecordFacts DEF CanFailOver, Routes
<1>4. PICK r : r = [record[k] EXCEPT !.route = n, !.evidence = n]
  OBVIOUS
<1>5. r \in Records /\ r.subject = record[k].subject /\ r.write = record[k].write /\ r.compact = record[k].compact
      /\ r.evidence = n /\ r.route = n /\ r.rounds = record[k].rounds
      /\ r.finished = record[k].finished /\ r.state = record[k].state
  BY <1>1, <1>4, RecordFacts DEF Records
<1>6. record' = [record EXCEPT ![k] = r]
  BY <1>1, <1>3, <1>4, RecordFacts DEF FailOver, DispatchTypeOK
<1>7. /\ record' \in [Runs -> Records \cup {NoRecord}] /\ record'[k] = r
      /\ \A j \in Runs \ {k} : record'[j] = record[j]
  BY <1>1, <1>5, <1>6, Replaced, RecordFacts
<1>8. pc'[k] = "movedSave" /\ UNCHANGED <<options, index, child, returned, judged, disk, damaged, started>>
  BY <1>1, <1>2, Moved, RecordFacts DEF worldVars
<1>9. CallStands(k)'
  <2>1. RecordStands(k)'
    BY <1>1, <1>5, <1>7, <1>8, RecordFacts DEF RecordStands
  <2>2. RoundStands(k)'
    <3>1. ~record[k].write /\ ~record[k].compact
      BY <1>1, RecordFacts DEF RecordStands, CanFailOver
    <3> QED BY <1>1, <1>3, <1>5, <1>7, <1>8, <3>1, RecordFacts DEF RoundStands, Budget
  <2>3. SavedStands(k)'
    BY <1>1, <1>5, <1>7, <1>8, RecordFacts, DiskAlone DEF SavedStands
  <2> QED BY <1>1, <1>8, <2>1, <2>2, <2>3, RecordFacts DEF CallStands, Recorded
<1> QED BY <1>1, <1>2, <1>7, <1>8, <1>9, PlainStep, RecordFacts DEF DispatchTypeOK

(* What a child said is taken into the record, of a compaction with its end. *)
LEMMA TakeKeeps ==
  ASSUME RunInv, NEW k \in Runs, TakeResult(k) \/ TakeCompaction(k)
  PROVE  RunInv'
<1>1. ~draining /\ pc[k] = "result" /\ Recorded(k) /\ Goto(k, "resultSave")
      /\ UNCHANGED <<admissionVars, options, index, child, judged, returned, worldVars>>
  BY DEF TakeResult, TakeCompaction, At, Recorded
<1>2. "resultSave" \in Labels \ {"idle"} /\ "resultSave" \in WithChild
  BY SaveTargets DEF Labels, WithChild
<1>3. PICK r \in Records :
        /\ record' = [record EXCEPT ![k] = r]
        /\ r.subject = record[k].subject /\ r.write = record[k].write /\ r.compact = record[k].compact
        /\ r.evidence = record[k].evidence /\ r.route = record[k].route /\ r.rounds = record[k].rounds
        /\ r.finished => record[k].compact \/ record[k].finished
        /\ record[k].compact => r.finished
  <2>1. CASE TakeResult(k)
    <3>1. PICK m \in Nat : m = IF child[k].text = "new" THEN record[k].parts + 1 ELSE record[k].parts
      BY <1>1, RecordFacts
    <3>2. PICK s \in RecordStates : s = ResultState(k)
      BY DEF ResultState, RecordStates
    <3>3. PICK r : r = [record[k] EXCEPT !.state = s, !.parts = m]
      OBVIOUS
    <3>4. record' = [record EXCEPT ![k] = r]
      BY <1>1, <2>1, <3>1, <3>2, <3>3, RecordFacts DEF TakeResult, DispatchTypeOK
    <3>5. r \in Records
        /\ r.subject = record[k].subject /\ r.write = record[k].write /\ r.compact = record[k].compact
        /\ r.evidence = record[k].evidence /\ r.route = record[k].route /\ r.rounds = record[k].rounds
        /\ r.finished = record[k].finished
      BY <1>1, <3>3, RecordFacts DEF Records
    <3>6. ~record[k].compact
      BY <1>1, <2>1, RecordFacts DEF TakeResult, RecordStands
    <3> QED BY <3>4, <3>5, <3>6
  <2>2. CASE TakeCompaction(k)
    <3>1. PICK m \in Nat : m = IF child[k].text = "none" THEN 0 ELSE 1
      OBVIOUS
    <3>2. PICK s \in RecordStates : s = CompactionState(k)
      BY DEF CompactionState, RecordStates
    <3>3. PICK r : r = [record[k] EXCEPT !.state = s, !.finished = TRUE, !.parts = m]
      OBVIOUS
    <3>4. record' = [record EXCEPT ![k] = r]
      BY <1>1, <2>2, <3>1, <3>2, <3>3, RecordFacts DEF TakeCompaction, DispatchTypeOK
    <3>5. r \in Records
        /\ r.subject = record[k].subject /\ r.write = record[k].write /\ r.compact = record[k].compact
        /\ r.evidence = record[k].evidence /\ r.route = record[k].route /\ r.rounds = record[k].rounds
        /\ r.finished
      BY <1>1, <3>3, RecordFacts DEF Records
    <3>6. record[k].compact
      BY <1>1, <2>2, RecordFacts DEF TakeCompaction, RecordStands
    <3> QED BY <3>4, <3>5, <3>6
  <2> QED BY <2>1, <2>2
<1>4. /\ record' \in [Runs -> Records \cup {NoRecord}] /\ record'[k] = r
      /\ \A j \in Runs \ {k} : record'[j] = record[j]
  BY <1>1, <1>3, Replaced, RecordFacts
<1>5. pc'[k] = "resultSave" /\ UNCHANGED <<options, index, child, returned, judged, disk, damaged, started>>
  BY <1>1, <1>2, Moved, RecordFacts DEF worldVars
<1>6. CallStands(k)'
  <2>1. RecordStands(k)'
    BY <1>1, <1>3, <1>4, <1>5, RecordFacts DEF RecordStands
  <2>2. RoundStands(k)'
    BY <1>1, <1>3, <1>4, <1>5, RecordFacts DEF RoundStands, Budget
  <2>3. SavedStands(k)'
    BY <1>1, <1>3, <1>4, <1>5, RecordFacts, DiskAlone DEF SavedStands
  <2> QED BY <1>1, <1>5, <2>1, <2>2, <2>3, RecordFacts DEF CallStands, Recorded
<1> QED BY <1>1, <1>2, <1>4, <1>5, <1>6, PlainStep, RecordFacts DEF DispatchTypeOK

(* A child that is gone leaves its call at a place where it has none. *)
LEMMA DisposedMovedKeeps ==
  ASSUME RunInv, NEW k \in Runs, DisposedMoved(k)
  PROVE  RunInv'
<1>1. ~draining /\ pc[k] = "disposeMoved" /\ Recorded(k) /\ Goto(k, "head")
      /\ UNCHANGED <<admissionVars, options, record, index, judged, returned, worldVars>>
  BY DEF DisposedMoved, At, Recorded
<1>2. "head" \in Labels \ {"idle"}
  BY DEF Labels
<1>3. /\ child' \in [Runs -> Children \cup {NoChild}] /\ child'[k] = NoChild
      /\ \A j \in Runs \ {k} : child'[j] = child[j]
  BY <1>1, RecordFacts DEF DisposedMoved, DispatchTypeOK
<1>4. pc'[k] = "head" /\ UNCHANGED <<options, index, record, returned, judged, disk, damaged, started>>
  BY <1>1, <1>2, Moved, RecordFacts DEF worldVars
<1>5. CallStands(k)'
  <2>1. RecordStands(k)'
    BY <1>1, <1>4, RecordFacts DEF RecordStands
  <2>2. RoundStands(k)'
    BY <1>1, <1>4, RecordFacts DEF RoundStands, Budget
  <2>3. SavedStands(k)'
    BY <1>1, <1>4, RecordFacts, DiskAlone DEF SavedStands
  <2> QED BY <1>1, <1>4, <2>1, <2>2, <2>3, RecordFacts DEF CallStands, Recorded
<1> QED BY <1>1, <1>2, <1>3, <1>4, <1>5, PlainStep, RecordFacts DEF DispatchTypeOK

LEMMA DisposedRoundKeeps ==
  ASSUME RunInv, NEW k \in Runs, DisposedRound(k)
  PROVE  RunInv'
<1>1. ~draining /\ pc[k] = "disposeRound" /\ Recorded(k) /\ ~record[k].compact /\ ~record[k].finished
      /\ UNCHANGED <<admissionVars, options, judged, returned, worldVars>>
  <2>1. ~draining /\ pc[k] = "disposeRound" /\ Recorded(k) /\ ~options[k].compact
        /\ UNCHANGED <<admissionVars, options, judged, returned, worldVars>>
    BY DEF DisposedRound, At, Recorded
  <2> QED BY <2>1, RecordFacts DEF RecordStands
<1>2. {"head", "finish", "reconcileSave"} \subseteq Labels \ {"idle"}
  BY SaveTargets DEF Labels
<1>3. /\ child' \in [Runs -> Children \cup {NoChild}] /\ child'[k] = NoChild
      /\ \A j \in Runs \ {k} : child'[j] = child[j]
  BY <1>1, RecordFacts DEF DisposedRound, DispatchTypeOK
<1>4. UNCHANGED <<options, returned, judged, disk, damaged, started>>
  BY <1>1 DEF worldVars
<1>5. CASE Goto(k, "finish") /\ UNCHANGED <<record, index>>
  <2>1. pc'[k] = "finish"
    BY <1>1, <1>2, <1>5, Moved, RecordFacts
  <2>2. CallStands(k)'
    <3>1. RecordStands(k)'
      BY <1>1, <1>4, <1>5, <2>1, RecordFacts DEF RecordStands
    <3>2. RoundStands(k)'
      BY <1>1, <1>4, <1>5, <2>1, RecordFacts DEF RoundStands, Budget
    <3>3. SavedStands(k)'
      BY <1>1, <1>4, <1>5, <2>1, RecordFacts, DiskAlone DEF SavedStands
    <3> QED BY <1>1, <1>4, <1>5, <2>1, <3>1, <3>2, <3>3, RecordFacts DEF CallStands, Recorded
  <2> QED BY <1>1, <1>2, <1>3, <1>4, <1>5, <2>2, PlainStep, RecordFacts DEF DispatchTypeOK
<1>6. CASE /\ record' = [record EXCEPT ![k].state = "PARTIAL_NEEDS_RECONCILIATION"]
           /\ Goto(k, "reconcileSave") /\ UNCHANGED index
  <2>1. PICK r : r = [record[k] EXCEPT !.state = "PARTIAL_NEEDS_RECONCILIATION"]
    OBVIOUS
  <2>2. r \in Records /\ r.subject = record[k].subject /\ r.write = record[k].write /\ r.compact = record[k].compact
        /\ r.evidence = record[k].evidence /\ r.route = record[k].route /\ r.rounds = record[k].rounds
        /\ r.finished = record[k].finished
    BY <1>1, <2>1, RecordFacts DEF Records, RecordStates
  <2>3. /\ record' \in [Runs -> Records \cup {NoRecord}] /\ record'[k] = r
        /\ \A j \in Runs \ {k} : record'[j] = record[j]
    BY <1>1, <1>6, <2>1, <2>2, Replaced, RecordFacts DEF DispatchTypeOK
  <2>4. pc'[k] = "reconcileSave"
    BY <1>1, <1>2, <1>6, Moved, RecordFacts
  <2>5. CallStands(k)'
    <3>1. RecordStands(k)'
      BY <1>1, <1>4, <1>6, <2>2, <2>3, <2>4, RecordFacts DEF RecordStands
    <3>2. RoundStands(k)'
      BY <1>1, <1>4, <1>6, <2>2, <2>3, <2>4, RecordFacts DEF RoundStands, Budget
    <3>3. SavedStands(k)'
      BY <1>1, <1>4, <1>6, <2>2, <2>3, <2>4, RecordFacts, DiskAlone DEF SavedStands
    <3> QED BY <1>1, <1>4, <1>6, <2>4, <3>1, <3>2, <3>3, RecordFacts DEF CallStands, Recorded
  <2> QED BY <1>1, <1>2, <1>3, <1>4, <1>6, <2>3, <2>5, PlainStep, RecordFacts DEF DispatchTypeOK
<1>7. CASE /\ ~options[k].write /\ index[k] + 1 # MaxRounds
           /\ index' = [index EXCEPT ![k] = @ + 1] /\ Goto(k, "head") /\ UNCHANGED record
  <2>1. /\ index' \in [Runs -> 0 .. MaxRounds - 1] /\ index'[k] = index[k] + 1
        /\ \A j \in Runs \ {k} : index'[j] = index[j]
    <3>1. index[k] + 1 \in 0 .. MaxRounds - 1
      BY <1>1, <1>7, RecordFacts
    <3> QED BY <1>1, <1>7, <3>1, RecordFacts DEF DispatchTypeOK
  <2>2. pc'[k] = "head"
    BY <1>1, <1>2, <1>7, Moved, RecordFacts
  <2>3. CallStands(k)'
    <3>1. RecordStands(k)'
      BY <1>1, <1>4, <1>7, <2>2, RecordFacts DEF RecordStands
    <3>2. RoundStands(k)'
      <4>1. ~record[k].write
        BY <1>1, <1>7, RecordFacts DEF RecordStands
      <4> QED BY <1>1, <1>4, <1>7, <2>1, <2>2, <4>1, RecordFacts DEF RoundStands, Budget
    <3>3. SavedStands(k)'
      BY <1>1, <1>4, <1>7, <2>2, RecordFacts, DiskAlone DEF SavedStands
    <3> QED BY <1>1, <1>4, <1>7, <2>2, <3>1, <3>2, <3>3, RecordFacts DEF CallStands, Recorded
  <2> QED BY <1>1, <1>2, <1>3, <1>4, <1>7, <2>1, <2>3, PlainStep, RecordFacts DEF DispatchTypeOK
<1> QED BY <1>5, <1>6, <1>7 DEF DisposedRound

(* A compaction returns what its record was saved with. *)
LEMMA CompactionReturnsKeeps ==
  ASSUME RunInv, NEW k \in Runs, CompactionReturns(k)
  PROVE  RunInv'
<1>1. ~draining /\ pc[k] = "disposeRound" /\ Recorded(k) /\ options[k].compact /\ Goto(k, "cleanup")
      /\ returned' = [returned EXCEPT ![k] = record[k].state]
      /\ UNCHANGED <<admissionVars, options, record, index, child, judged, worldVars>>
  BY DEF CompactionReturns, At, Recorded
<1>2. "cleanup" \in Labels \ {"idle"} /\ "cleanup" \in WithChild
  BY DEF Labels, WithChild
<1>3. pc' \in [Runs -> Labels] /\ pc'[k] = "cleanup" /\ \A j \in Runs \ {k} : pc'[j] = pc[j]
  BY <1>1, <1>2, Moved, RecordFacts
<1>4. /\ returned' \in [Runs -> RecordStates \cup {None, "REFUSED", "PERSISTENCE_FAILED"}]
      /\ returned'[k] = record[k].state /\ \A j \in Runs \ {k} : returned'[j] = returned[j]
  BY <1>1, RecordFacts DEF DispatchTypeOK, Records
<1>5. UNCHANGED <<leases, deleting, closed, aborted, deletion, disk, damaged, expired, started, crashes>>
  BY <1>1 DEF admissionVars, worldVars
<1>6. IInv'
  BY <1>1, AdmissionKeeps DEF RunInv
<1>7. DispatchTypeOK'
  BY <1>1, <1>3, <1>4, <1>5, <1>6, RecordFacts DEF DispatchTypeOK, IInv
<1>8. CallStands(k)'
  BY <1>1, <1>3, RecordFacts DEF CallStands, Recorded
<1>9. ReturnStands(k)'
  <2>1. record[k].finished /\ Latest(k) = record[k]
    BY <1>1, RecordFacts DEF RecordStands, SavedStands
  <2> QED BY <1>4, <1>5, <2>1, DiskAlone DEF ReturnStands
<1>10. SameElsewhere(k)
  BY <1>1, <1>3, <1>4, <1>5 DEF SameElsewhere
<1> QED BY <1>1, <1>2, <1>3, <1>5, <1>6, <1>7, <1>8, <1>9, <1>10, CallMoves, RecordFacts

LEMMA FinishKeeps ==
  ASSUME RunInv, NEW k \in Runs, Finish(k)
  PROVE  RunInv'
<1>1. ~draining /\ pc[k] = "finish" /\ Recorded(k) /\ Goto(k, "finalSave")
      /\ record' = [record EXCEPT ![k].finished = TRUE]
      /\ UNCHANGED <<admissionVars, options, index, child, judged, returned, worldVars>>
  BY DEF Finish, At, Recorded
<1>2. "finalSave" \in Labels \ {"idle"} /\ child[k] = NoChild
  BY <1>1, Standing, SaveTargets DEF Labels, WithChild
<1>3. PICK r : r = [record[k] EXCEPT !.finished = TRUE]
  OBVIOUS
<1>4. r \in Records /\ r.subject = record[k].subject /\ r.write = record[k].write /\ r.compact = record[k].compact
      /\ r.evidence = record[k].evidence /\ r.route = record[k].route /\ r.rounds = record[k].rounds
      /\ r.finished
  BY <1>1, <1>3, RecordFacts DEF Records
<1>5. /\ record' \in [Runs -> Records \cup {NoRecord}] /\ record'[k] = r
      /\ \A j \in Runs \ {k} : record'[j] = record[j]
  BY <1>1, <1>3, <1>4, Replaced, RecordFacts DEF DispatchTypeOK
<1>6. pc'[k] = "finalSave" /\ UNCHANGED <<options, index, child, returned, judged, disk, damaged, started>>
  BY <1>1, <1>2, Moved, RecordFacts DEF worldVars
<1>7. CallStands(k)'
  <2>1. RecordStands(k)'
    <3>1. /\ record[k].subject = options[k].subject /\ record[k].write = options[k].write
          /\ record[k].compact = options[k].compact /\ record[k].evidence = record[k].route
          /\ record[k].subject \in Runs => disk[record[k].subject] # <<>>
      BY <1>1, RecordFacts DEF RecordStands
    <3> QED BY <1>4, <1>5, <1>6, <3>1 DEF RecordStands
  <2>2. RoundStands(k)'
    BY <1>1, <1>4, <1>5, <1>6, RecordFacts DEF RoundStands, Budget
  <2>3. SavedStands(k)'
    BY <1>1, <1>4, <1>5, <1>6, RecordFacts, DiskAlone DEF SavedStands
  <2> QED BY <1>1, <1>6, <2>1, <2>2, <2>3, RecordFacts DEF CallStands, Recorded
<1> QED BY <1>1, <1>2, <1>5, <1>6, <1>7, PlainStep, RecordFacts DEF DispatchTypeOK
-----------------------------------------------------------------------------
(* Whatever a save leaves behind, also one that fails or is cut off: the record is of the same
   task, and it covers the children that were started under it. *)
LEMMA SaveLeaves ==
  ASSUME RunInv, NEW k \in Runs, pc[k] \in SavePoints, disk'[k] \in SaveOutcomes(k),
         k \notin damaged', started'[k] = IF disk'[k] = <<>> THEN 0 ELSE started[k]
  PROVE  /\ disk'[k] \in Seq(Records \cup {Torn}) /\ (disk[k] # <<>> => disk'[k] # <<>>)
         /\ started'[k] = started[k]
         /\ OneTask(k)' /\ Committed(k)' /\ WithinBudget(k)'
<1>1. Recorded(k) /\ AssignmentStands(k) /\ OneTask(k) /\ Committed(k) /\ WithinBudget(k)
  BY SaveTargets, Standing DEF Recorded, AssignmentStands
<1>2. disk[k] \in Seq(Records \cup {Torn}) /\ record[k] \in Records \cup {Torn} /\ Torn \in Records \cup {Torn}
      /\ record[k] # Torn
  BY <1>1, RecordFacts, NothingIsNothing DEF DispatchTypeOK
<1>3. /\ disk'[k] \in Seq(Records \cup {Torn})
      /\ ToSet(disk'[k]) \subseteq ToSet(disk[k]) \cup {record[k], Torn}
      /\ disk[k] # <<>> => disk'[k] # <<>>
      /\ \/ disk'[k] = disk[k]
         \/ disk'[k] # <<>> /\ Last(disk'[k]) = record[k]
         \/ disk'[k] # <<>> /\ Last(disk'[k]) = Torn
  <2>1. CASE disk'[k] = disk[k]
    BY <1>2, <2>1
  <2>2. CASE disk'[k] = Append(disk[k], record[k])
    <3>1. /\ Append(disk[k], record[k]) \in Seq(Records \cup {Torn}) /\ Append(disk[k], record[k]) # <<>>
          /\ Last(Append(disk[k], record[k])) = record[k]
          /\ ToSet(Append(disk[k], record[k])) = ToSet(disk[k]) \cup {record[k]}
      BY <1>2, Extended
    <3> QED BY <2>2, <3>1
  <2>3. CASE disk'[k] = Append(disk[k], Torn)
    <3>1. /\ Append(disk[k], Torn) \in Seq(Records \cup {Torn}) /\ Append(disk[k], Torn) # <<>>
          /\ Last(Append(disk[k], Torn)) = Torn
          /\ ToSet(Append(disk[k], Torn)) = ToSet(disk[k]) \cup {Torn}
      BY <1>2, Extended
    <3> QED BY <2>3, <3>1
  <2> QED BY <2>1, <2>2, <2>3 DEF SaveOutcomes
<1>4. Saved(k)' \subseteq Saved(k) \cup {record[k]}
  BY <1>3 DEF Saved
<1>5. started'[k] = started[k]
  BY <1>1, <1>3, RecordFacts DEF Committed
<1>6. OneTask(k)'
  <2>1. \A saved \in Saved(k)' : saved.subject = record[k].subject
    BY <1>1, <1>4, RecordFacts DEF SavedStands
  <2> QED BY <2>1 DEF OneTask
<1>7. Committed(k)'
  <2>1. disk'[k] # <<>> /\ Last(disk'[k]) # Torn => Last(disk'[k]).rounds >= started[k]
    BY <1>1, <1>3, RecordFacts DEF SavedStands, RoundStands, Latest
  <2>2. started[k] > 0 => disk'[k] # <<>>
    BY <1>1, <1>3 DEF Committed
  <2> QED BY <1>5, <2>1, <2>2 DEF Committed, Readable, Latest
<1>8. WithinBudget(k)'
  <2>1. \A saved \in Saved(k)' : saved.write = record[k].write /\ saved.compact = record[k].compact
    BY <1>1, <1>4, RecordFacts DEF SavedStands
  <2>2. started[k] <= Budget(record[k])
    BY <1>1, RecordFacts DEF RoundStands
  <2>3. \A saved \in Saved(k)' : started[k] <= Budget(saved)
    BY <2>1, <2>2 DEF Budget
  <2> QED BY <1>5, <2>3 DEF WithinBudget, Budget
<1> QED BY <1>3, <1>5, <1>6, <1>7, <1>8

(* The save that succeeds. *)
LEMMA SaveOkKeeps ==
  ASSUME RunInv, NEW k \in Runs, SaveOk(k)
  PROVE  RunInv'
<1> DEFINE x == AfterSave[pc[k]]
<1>1. /\ ~draining /\ pc[k] \in SavePoints /\ Recorded(k) /\ AssignmentStands(k)
      /\ disk' = [disk EXCEPT ![k] = Append(@, record[k])] /\ Goto(k, x)
      /\ UNCHANGED <<admissionVars, options, record, index, judged, deletion, damaged, expired, started, crashes>>
  BY SaveTargets, Standing DEF SaveOk, Recorded
<1>2. x \in Labels \ {"idle"} /\ (pc[k] \in WithChild => x \in WithChild)
  BY <1>1, SaveTargets DEF Labels, WithChild
<1>3. pc' \in [Runs -> Labels] /\ pc'[k] = x /\ \A j \in Runs \ {k} : pc'[j] = pc[j]
  BY <1>1, <1>2, Moved, RecordFacts
<1>4. disk'[k] = Append(disk[k], record[k]) /\ (\A j \in Runs \ {k} : disk'[j] = disk[j])
      /\ disk \in [Runs -> Seq(Records \cup {Torn})]
      /\ disk' = [j \in Runs |-> IF j = k THEN disk'[k] ELSE disk[j]]
  BY <1>1, RecordFacts DEF DispatchTypeOK
<1>5. k \notin damaged /\ Torn \notin ToSet(disk[k]) /\ disk'[k] \in SaveOutcomes(k)
  BY <1>1, <1>4, RecordFacts DEF SavedStands, SaveOutcomes
<1>6. /\ disk'[k] # <<>> /\ Last(disk'[k]) = record[k] /\ ToSet(disk'[k]) = ToSet(disk[k]) \cup {record[k]}
      /\ record[k] # Torn
  <2>1. disk[k] \in Seq(Records \cup {Torn}) /\ record[k] \in Records \cup {Torn} /\ record[k] # Torn
    BY <1>1, RecordFacts, NothingIsNothing DEF DispatchTypeOK
  <2>2. /\ Append(disk[k], record[k]) # <<>> /\ Last(Append(disk[k], record[k])) = record[k]
        /\ ToSet(Append(disk[k], record[k])) = ToSet(disk[k]) \cup {record[k]}
    BY <2>1, Extended
  <2> QED BY <1>4, <2>1, <2>2
<1>7. disk'[k] \in Seq(Records \cup {Torn}) /\ OneTask(k)' /\ Committed(k)' /\ WithinBudget(k)'
  BY <1>1, <1>5, <1>6, SaveLeaves
<1>8. /\ child' \in [Runs -> Children \cup {NoChild}] /\ (\A j \in Runs \ {k} : child'[j] = child[j])
      /\ child'[k] # NoChild => child[k] # NoChild
  <2>1. child \in [Runs -> Children \cup {NoChild}]
    BY <1>1, RecordFacts DEF DispatchTypeOK
  <2>2. child[k] # NoChild => [child[k] EXCEPT !.disposal = "begun"] \in Children
    BY <2>1 DEF Children
  <2>3. child' = child \/ child' = BeginDisposal(k)
    BY DEF SaveOk
  <2> QED BY <2>1, <2>2, <2>3 DEF BeginDisposal
<1>9. /\ returned' \in [Runs -> RecordStates \cup {None, "REFUSED", "PERSISTENCE_FAILED"}]
      /\ (\A j \in Runs \ {k} : returned'[j] = returned[j])
      /\ x = "cleanup" => returned'[k] = record[k].state
      /\ x # "cleanup" => returned'[k] = None
  BY <1>1, RecordFacts DEF SaveOk, DispatchTypeOK, Records
<1>10. IInv' /\ UNCHANGED <<leases, deleting, closed, aborted>>
  BY <1>1, AdmissionKeeps DEF RunInv, admissionVars
<1>11. DispatchTypeOK'
  <2>1. disk' \in [Runs -> Seq(Records \cup {Torn})]
    BY <1>4, <1>7
  <2> QED BY <1>1, <1>3, <1>8, <1>9, <1>10, <2>1, RecordFacts DEF DispatchTypeOK, IInv
<1> HIDE DEF x
<1>12. ReturnStands(k)'
  <2>1. x = "cleanup" => record[k].finished
    BY <1>1, SaveTargets, RecordFacts DEF RecordStands, x
  <2> QED BY <1>6, <1>9, <2>1 DEF ReturnStands, Latest
<1>13. ASSUME x # "cleanup" PROVE RecordStands(k)' /\ RoundStands(k)' /\ SavedStands(k)'
  <2>1. RecordStands(k)'
    <3>1. /\ record[k].subject = options[k].subject /\ record[k].write = options[k].write
          /\ record[k].compact = options[k].compact /\ record[k].evidence = record[k].route
          /\ record[k].subject \in Runs => disk'[record[k].subject] # <<>>
      BY <1>1, <1>4, <1>6, RecordFacts DEF RecordStands
    <3>2. /\ record[k].finished => record[k].compact /\ x = "disposeRound"
          /\ x = "disposeRound" /\ record[k].compact => record[k].finished
          /\ x \notin {"finalSave", "failSave", "resultSave"}
      BY <1>1, <1>13, SaveTargets, RecordFacts DEF RecordStands, x
    <3> QED BY <1>1, <1>3, <3>1, <3>2, RecordFacts DEF RecordStands
  <2>2. RoundStands(k)'
    BY <1>1, <1>3, <1>13, SaveTargets, RecordFacts, SMTT(30) DEF RoundStands, Budget, x
  <2>3. SavedStands(k)'
    <3>1. k \notin damaged' /\ Torn \notin ToSet(disk'[k]) /\ disk'[k] # <<>>
      BY <1>1, <1>5, <1>6
    <3>2. \A saved \in Saved(k)' :
            saved.subject = record[k].subject /\ saved.write = record[k].write
              /\ saved.compact = record[k].compact
      BY <1>1, <1>6, RecordFacts DEF SavedStands, Saved
    <3>3. record[k].rounds >= started[k]
      BY <1>1, RecordFacts DEF RoundStands
    <3>4. record[k].finished => record[k].compact /\ x = "disposeRound"
      BY <1>1, <1>13, SaveTargets, RecordFacts DEF RecordStands, x
    <3>5. x # "planSave"
      BY <1>1, SaveTargets DEF x
    <3> QED BY <1>1, <1>3, <1>6, <3>1, <3>2, <3>3, <3>4, <3>5 DEF SavedStands, Latest
  <2> QED BY <2>1, <2>2, <2>3
<1>14. CallStands(k)'
  <2>1. x \notin {"ready", "lookup", "subject"}
    BY <1>1, SaveTargets DEF x
  <2> QED BY <1>1, <1>2, <1>3, <1>9, <1>13, <2>1, RecordFacts DEF CallStands, Recorded
<1>15. SameElsewhere(k)
  BY <1>1, <1>3, <1>4, <1>9 DEF SameElsewhere
<1>16. child'[k] # NoChild => leases[k] = "active" /\ pc'[k] \in WithChild
  <2>1. leases[k] = "active" /\ (pc[k] \notin WithChild => child[k] = NoChild)
    BY <1>1, RecordFacts, Standing
  <2>2. pc[k] \in WithChild => pc'[k] \in WithChild
    BY <1>2, <1>3
  <2>3. child'[k] # NoChild => child[k] # NoChild
    BY <1>8
  <2> QED BY <2>1, <2>2, <2>3
<1>17. AssignmentStands(k)'
  BY <1>7, <1>12, <1>14 DEF AssignmentStands
<1>18. pc[k] # "idle" /\ pc'[k] # "idle" /\ leases[k] = "active" /\ UNCHANGED <<leases, deleting, closed, aborted, deletion>>
  BY <1>1, <1>2, <1>3, <1>10, RecordFacts DEF Recorded
<1> QED BY <1>6, <1>8, <1>10, <1>11, <1>15, <1>16, <1>17, <1>18, CallGoesOn

(* The save that fails: the call ends with PERSISTENCE_FAILED, and nothing is claimed of what
   it has left on disk. *)
LEMMA SaveFailsKeeps ==
  ASSUME RunInv, NEW k \in Runs, SaveFails(k)
  PROVE  RunInv'
<1>1. /\ ~draining /\ pc[k] \in SavePoints /\ Recorded(k) /\ AssignmentStands(k) /\ Interrupt(k, TRUE)
      /\ UNCHANGED <<options, index, judged, deletion, damaged, expired, started, crashes>>
  BY SaveTargets, Standing DEF SaveFails, Recorded
<1>2. /\ disk'[k] \in SaveOutcomes(k) /\ (\A j \in Runs \ {k} : disk'[j] = disk[j])
      /\ disk' = [j \in Runs |-> IF j = k THEN disk'[k] ELSE disk[j]]
  BY <1>1, RecordFacts DEF SaveFails, DispatchTypeOK
<1>3. k \notin damaged /\ (disk'[k] = <<>> => started[k] = 0)
  <2>1. k \notin damaged
    BY <1>1, RecordFacts DEF SavedStands
  <2>2. disk'[k] = <<>> => disk[k] = <<>>
    <3>1. disk[k] \in Seq(Records \cup {Torn}) /\ record[k] \in Records \cup {Torn} /\ Torn \in Records \cup {Torn}
      BY <1>1, RecordFacts DEF DispatchTypeOK
    <3>2. Append(disk[k], record[k]) # <<>> /\ Append(disk[k], Torn) # <<>>
      BY <3>1, Extended
    <3> QED BY <1>2, <3>2 DEF SaveOutcomes
  <2> QED BY <1>1, <2>1, <2>2, RecordFacts DEF AssignmentStands, Committed
<1>4. /\ disk'[k] \in Seq(Records \cup {Torn}) /\ (disk[k] # <<>> => disk'[k] # <<>>)
      /\ OneTask(k)' /\ Committed(k)' /\ WithinBudget(k)'
  BY <1>1, <1>2, <1>3, SaveLeaves
<1>5. /\ IInv' /\ UNCHANGED <<leases, deleting, closed>> /\ aborted' = aborted \cup {k}
      /\ child' \in [Runs -> Children \cup {NoChild}]
      /\ (\A j \in Runs \ {k} : child'[j] = child[j])
      /\ child'[k] # NoChild => child[k] # NoChild
  BY <1>1, ScopeAborted, RecordFacts DEF Interrupt
<1>6. "cleanup" \in Labels /\ "cleanup" \in WithChild
  BY DEF Labels, WithChild
<1>7. pc' \in [Runs -> Labels] /\ pc'[k] = "cleanup" /\ \A j \in Runs \ {k} : pc'[j] = pc[j]
  BY <1>1, <1>6, Moved, RecordFacts, SMTT(30) DEF Interrupt
<1>8. /\ record' \in [Runs -> Records \cup {NoRecord}]
      /\ \A j \in Runs \ {k} : record'[j] = record[j]
  BY <1>1, Rewritten, RecordFacts DEF Interrupt, RecordStates
<1>9. /\ returned' \in [Runs -> RecordStates \cup {None, "REFUSED", "PERSISTENCE_FAILED"}]
      /\ returned'[k] = "PERSISTENCE_FAILED" /\ \A j \in Runs \ {k} : returned'[j] = returned[j]
  BY <1>1, RecordFacts DEF Interrupt, DispatchTypeOK
<1>10. DispatchTypeOK'
  <2>1. disk' \in [Runs -> Seq(Records \cup {Torn})]
    BY <1>1, <1>2, <1>4, RecordFacts DEF DispatchTypeOK
  <2> QED BY <1>1, <1>5, <1>7, <1>8, <1>9, <2>1, RecordFacts DEF DispatchTypeOK, IInv
<1>11. AssignmentStands(k)'
  <2>1. CallStands(k)' /\ ReturnStands(k)'
    BY <1>1, <1>7, <1>9, RecordFacts DEF CallStands, Recorded, ReturnStands
  <2> QED BY <1>4, <2>1 DEF AssignmentStands
<1>12. SameElsewhere(k)
  BY <1>1, <1>2, <1>7, <1>8, <1>9 DEF SameElsewhere
<1>13. child'[k] # NoChild => leases[k] = "active" /\ pc'[k] \in WithChild
  BY <1>1, <1>5, <1>6, <1>7, RecordFacts
<1>14. pc[k] # "idle" /\ pc'[k] # "idle" /\ leases[k] = "active" /\ UNCHANGED deletion /\ aborted \subseteq aborted'
  BY <1>1, <1>5, <1>7, RecordFacts DEF Recorded
<1> QED BY <1>4, <1>5, <1>10, <1>11, <1>12, <1>13, <1>14, CallGoesOn
-----------------------------------------------------------------------------
(* A call that begins or ends: the leases, that call and nothing of the records. *)
LEMMA CallChanges ==
  ASSUME RunInv, NEW k \in Runs, IInv', DispatchTypeOK', LeasesStand', SameElsewhere(k),
         UNCHANGED <<disk, damaged, started, deletion>>, CallStands(k)', ReturnStands(k)'
  PROVE  RunInv'
<1>1. (\A j \in Runs : AssignmentStands(j)) /\ AssignmentStands(k) /\ DeletionStands
  BY DEF RunInv
<1>2. Saved(k)' = Saved(k) /\ Latest(k)' = Latest(k) /\ (Readable(k)' <=> Readable(k))
  BY DEF Saved, Latest, Readable
<1>3. OneTask(k)' /\ Committed(k)' /\ WithinBudget(k)'
  BY <1>1, <1>2 DEF AssignmentStands, OneTask, Committed, WithinBudget
<1>4. \A j \in Runs \ {k} : AssignmentStands(j)'
  BY <1>1, OthersStand
<1>5. DeletionStands'
  BY <1>1, DiskAlone DEF DeletionStands, Forgettable, Referees, Readable, Latest
<1> QED BY <1>3, <1>4, <1>5 DEF RunInv, AssignmentStands

(* A step that moves no call: the leases, the children or the deletion. *)
LEMMA NoCallMoves ==
  ASSUME RunInv, IInv', DispatchTypeOK', LeasesStand', DeletionStands',
         UNCHANGED <<pc, options, record, index, returned, started, disk, damaged>>
  PROVE  RunInv'
<1>1. \A j \in Runs : AssignmentStands(j)'
  BY AllStand
<1> QED BY <1>1 DEF RunInv

(* What the leases of a reservation, of a release and of an abort are. *)
LEMMA DelegateKeeps ==
  ASSUME RunInv, NEW k \in Runs, NEW o \in Options, NEW queue \in BOOLEAN, Delegate(k, o, queue)
  PROVE  RunInv'
<1>1. DispatchTypeOK /\ LeasesStand
  BY DEF RunInv
<1>2. /\ pc[k] = "idle" /\ Reserve(k, queue) /\ UNCHANGED <<child, worldVars>> /\ Goto(k, "ready")
      /\ ~closed /\ ~deleting /\ leases[k] = "absent" /\ UNCHANGED <<aborted, deleting, closed>>
  BY DEF Delegate, Reserve, Admissible
<1>3. /\ leases'[k] \in {"pending", "active"} /\ \A j \in Runs \ {k} : leases'[j] = leases[j]
  BY <1>1, <1>2 DEF Reserve, DispatchTypeOK, TypeOK
<1>4. IInv'
  <2>1. AdmissionNext
    BY <1>2 DEF AdmissionNext
  <2> QED BY <2>1, AdmissionKeeps DEF RunInv
<1>5. "ready" \in Labels
  BY DEF Labels
<1>6. pc' \in [Runs -> Labels] /\ pc'[k] = "ready" /\ \A j \in Runs \ {k} : pc'[j] = pc[j]
  BY <1>1, <1>2, <1>5, Moved
<1>7. UNCHANGED <<deletion, disk, damaged, expired, started, crashes>>
  BY <1>2 DEF worldVars
<1>8. /\ options' = [options EXCEPT ![k] = o] /\ record' = [record EXCEPT ![k] = NoRecord]
      /\ index' = [index EXCEPT ![k] = 0] /\ judged' = [judged EXCEPT ![k] = 0]
      /\ returned' = [returned EXCEPT ![k] = None]
  BY DEF Delegate
<1>9. 0 \in 0 .. MaxRounds - 1
  BY DispatchAssumption
<1>10. DispatchTypeOK'
  BY <1>1, <1>2, <1>4, <1>6, <1>7, <1>8, <1>9 DEF DispatchTypeOK, IInv
<1>11. SameElsewhere(k)
  BY <1>1, <1>6, <1>7, <1>8 DEF SameElsewhere, DispatchTypeOK
<1>12. LeasesStand'
  BY <1>1, <1>2, <1>3, <1>6, <1>7 DEF LeasesStand
<1>13. options'[k] \in Options /\ index'[k] = 0 /\ returned'[k] = None
  BY <1>1, <1>8 DEF DispatchTypeOK
<1>14. CallStands(k)' /\ ReturnStands(k)'
  BY <1>6, <1>13 DEF CallStands, Recorded, ReturnStands
<1> QED BY <1>4, <1>7, <1>10, <1>11, <1>12, <1>14, CallChanges

LEMMA CleanupKeeps ==
  ASSUME RunInv, NEW k \in Runs, Cleanup(k)
  PROVE  RunInv'
<1>1. DispatchTypeOK /\ LeasesStand /\ ReturnStands(k)
  BY DEF RunInv, AssignmentStands
<1>2. /\ pc[k] = "cleanup" /\ Release(k) /\ Goto(k, "idle")
      /\ child' = [child EXCEPT ![k] = NoChild]
      /\ UNCHANGED <<options, record, index, judged, returned, worldVars>>
      /\ UNCHANGED <<deletion, disk, damaged, expired, started, crashes>>
  BY DEF Cleanup, worldVars
<1>3. /\ leases' = [leases EXCEPT ![k] = "absent"] /\ aborted' = aborted \ {k} /\ UNCHANGED <<deleting, closed>>
  BY <1>2 DEF Release
<1>4. IInv'
  <2>1. AdmissionNext
    BY <1>2 DEF AdmissionNext
  <2> QED BY <2>1, AdmissionKeeps DEF RunInv
<1>5. "idle" \in Labels
  BY DEF Labels
<1>6. pc' \in [Runs -> Labels] /\ pc'[k] = "idle" /\ \A j \in Runs \ {k} : pc'[j] = pc[j]
  BY <1>1, <1>2, <1>5, Moved
<1>7. DispatchTypeOK'
  BY <1>1, <1>2, <1>4, <1>6 DEF DispatchTypeOK, IInv
<1>8. SameElsewhere(k)
  BY <1>2, <1>6 DEF SameElsewhere
<1>9. LeasesStand'
  <2>1. leases'[k] = "absent" /\ child'[k] = NoChild
        /\ \A j \in Runs \ {k} : leases'[j] = leases[j] /\ child'[j] = child[j]
    BY <1>1, <1>2, <1>3 DEF DispatchTypeOK, TypeOK
  <2> QED BY <1>1, <1>2, <1>3, <1>6, <2>1 DEF LeasesStand
<1>10. CallStands(k)' /\ ReturnStands(k)'
  BY <1>1, <1>2, <1>6, DiskAlone DEF CallStands, Recorded, ReturnStands
<1> QED BY <1>2, <1>4, <1>7, <1>8, <1>9, <1>10, CallChanges

(* An abort reaches the children of one lease or, at the disposal, of all. *)
LEMMA ChildrenOf ==
  ASSUME DispatchTypeOK, NEW k \in Runs
  PROVE  /\ BeginDisposal(k) \in [Runs -> Children \cup {NoChild}]
         /\ \A j \in Runs : BeginDisposal(k)[j] # NoChild => child[j] # NoChild
<1>1. child \in [Runs -> Children \cup {NoChild}]
  BY DEF DispatchTypeOK
<1>2. child[k] # NoChild => [child[k] EXCEPT !.disposal = "begun"] \in Children
  BY <1>1 DEF Children
<1> QED BY <1>1, <1>2 DEF BeginDisposal

LEMMA ScopeAbortsKeeps ==
  ASSUME RunInv, NEW k \in Runs, ScopeAborts(k)
  PROVE  RunInv'
<1>1. DispatchTypeOK /\ LeasesStand /\ DeletionStands
  BY DEF RunInv
<1>2. /\ Abort(k) /\ child' = BeginDisposal(k)
      /\ UNCHANGED <<pc, options, record, index, judged, returned>>
      /\ UNCHANGED <<deletion, disk, damaged, expired, started, crashes>>
  BY DEF ScopeAborts, worldVars
<1>3. IInv'
  <2>1. AdmissionNext
    BY <1>2 DEF AdmissionNext
  <2> QED BY <2>1, AdmissionKeeps DEF RunInv
<1>4. /\ child' \in [Runs -> Children \cup {NoChild}]
      /\ \A j \in Runs : child'[j] # NoChild => child[j] # NoChild
  BY <1>1, <1>2, ChildrenOf
<1>5. /\ UNCHANGED <<deleting, closed>> /\ aborted' = aborted \cup {k}
      /\ \A j \in Runs : leases'[j] = leases[j] \/ (leases[j] = "pending" /\ leases'[j] = "cancelled")
  BY <1>1, <1>2 DEF Abort, DispatchTypeOK, TypeOK
<1>6. DispatchTypeOK'
  BY <1>1, <1>2, <1>3, <1>4 DEF DispatchTypeOK, IInv
<1>7. LeasesStand'
  BY <1>1, <1>2, <1>4, <1>5 DEF LeasesStand
<1>8. DeletionStands'
  BY <1>1, <1>2, DiskAlone DEF DeletionStands, Forgettable, Referees, Readable, Latest
<1> QED BY <1>2, <1>3, <1>6, <1>7, <1>8, NoCallMoves

LEMMA DisposeDispatcherKeeps ==
  ASSUME RunInv, DisposeDispatcher
  PROVE  RunInv'
<1>1. DispatchTypeOK /\ LeasesStand /\ DeletionStands
  BY DEF RunInv
<1>2. /\ Dispose /\ child' = [k \in Runs |-> BeginDisposal(k)[k]]
      /\ UNCHANGED <<pc, options, record, index, judged, returned>>
      /\ UNCHANGED <<deletion, disk, damaged, expired, started, crashes>>
  BY DEF DisposeDispatcher, worldVars
<1>3. IInv'
  <2>1. AdmissionNext
    BY <1>2 DEF AdmissionNext
  <2> QED BY <2>1, AdmissionKeeps DEF RunInv
<1>4. /\ child' \in [Runs -> Children \cup {NoChild}]
      /\ \A j \in Runs : child'[j] # NoChild => child[j] # NoChild
  <2>1. \A j \in Runs : /\ BeginDisposal(j)[j] \in Children \cup {NoChild}
                        /\ BeginDisposal(j)[j] # NoChild => child[j] # NoChild
    BY <1>1, ChildrenOf
  <2> QED BY <1>2, <2>1
<1>5. /\ UNCHANGED deleting /\ aborted \subseteq aborted'
      /\ \A j \in Runs : leases[j] # "absent" => j \in aborted'
      /\ \A j \in Runs : leases'[j] = leases[j] \/ (leases[j] = "pending" /\ leases'[j] = "cancelled")
  BY <1>1, <1>2 DEF Dispose, DispatchTypeOK, TypeOK
<1>6. DispatchTypeOK'
  BY <1>1, <1>2, <1>3, <1>4 DEF DispatchTypeOK, IInv
<1>7. LeasesStand'
  BY <1>1, <1>2, <1>4, <1>5 DEF LeasesStand
<1>8. DeletionStands'
  BY <1>1, <1>2, DiskAlone DEF DeletionStands, Forgettable, Referees, Readable, Latest
<1> QED BY <1>2, <1>3, <1>6, <1>7, <1>8, NoCallMoves

(* drain, the disposal's end and a stutter: the assignments do not move. *)
LEMMA DrainKeeps ==
  ASSUME RunInv, Drain \/ DisposalResolves \/ UNCHANGED vars
  PROVE  RunInv'
<1>1. DispatchTypeOK /\ LeasesStand /\ DeletionStands /\ IInv
  BY DEF RunInv
<1>2. /\ UNCHANGED <<pc, options, record, index, child, judged, returned>>
      /\ UNCHANGED <<deletion, disk, damaged, expired, started, crashes>>
  BY DEF Drain, DisposalResolves, vars, dispatchVars, callVars, worldVars
<1>3. IInv'
  <2>1. UNCHANGED admissionVars \/ AdmissionNext
    BY DEF Drain, DisposalResolves, vars, AdmissionNext
  <2> QED BY <2>1, AdmissionKeeps DEF RunInv
<1>4. DispatchTypeOK'
  BY <1>1, <1>2, <1>3 DEF DispatchTypeOK, IInv
<1>5. LeasesStand'
  <2>1. CASE DrainNext
    <3>1. ~closed /\ UNCHANGED <<aborted, deleting, closed>>
      BY <2>1 DEF DrainNext, DrainContinues
    <3>2. PICK h \in Runs : h = Head(pending) /\ leases[h] = "pending"
      <4>1. TypeOK /\ QueueAccounting /\ pending # <<>>
        BY <1>1, <2>1 DEF DrainNext, DrainContinues, IInv
      <4> QED BY <4>1, HeadProperties
    <3>3. leases'[h] \in {"active", "cancelled"} /\ \A j \in Runs \ {h} : leases'[j] = leases[j]
      BY <1>1, <2>1, <3>2 DEF DrainNext, DispatchTypeOK, TypeOK
    <3> QED BY <1>1, <1>2, <3>1, <3>2, <3>3 DEF LeasesStand
  <2>2. CASE UNCHANGED <<leases, aborted, deleting, closed>>
    BY <1>1, <1>2, <2>2 DEF LeasesStand
  <2>3. UNCHANGED <<leases, aborted, deleting, closed>> \/ DrainNext
    BY DEF Drain, DrainEnd, DisposalResolves, DisposeSettles, vars, admissionVars
  <2> QED BY <2>1, <2>2, <2>3
<1>6. DeletionStands'
  BY <1>1, <1>2, DiskAlone DEF DeletionStands, Forgettable, Referees, Readable, Latest
<1> QED BY <1>2, <1>3, <1>4, <1>5, <1>6, NoCallMoves

LEMMA ExpireKeeps ==
  ASSUME RunInv, NEW r \in Perishable, Expire(r)
  PROVE  RunInv'
<1>1. DispatchTypeOK /\ LeasesStand /\ DeletionStands /\ r \in Routes
  BY DispatchAssumption DEF RunInv, Routes
<1>2. /\ UNCHANGED <<admissionVars, pc, options, record, index, child, judged, returned>>
      /\ UNCHANGED <<deletion, disk, damaged, started, crashes>> /\ expired' = expired \cup {r}
      /\ UNCHANGED <<leases, aborted, deleting, closed>>
  BY DEF Expire, callVars, admissionVars
<1>3. IInv'
  BY <1>2, AdmissionKeeps DEF RunInv
<1>4. DispatchTypeOK'
  BY <1>1, <1>2, <1>3 DEF DispatchTypeOK, IInv
<1>5. LeasesStand'
  BY <1>1, <1>2 DEF LeasesStand
<1>6. DeletionStands'
  BY <1>1, <1>2, DiskAlone DEF DeletionStands, Forgettable, Referees, Readable, Latest
<1> QED BY <1>2, <1>3, <1>4, <1>5, <1>6, NoCallMoves

(* A deletion takes the leases' map, and goes on only when it is allowed. *)
LEMMA ForgetKeeps ==
  ASSUME RunInv, (\E k \in Runs, force \in Forces : Forget(k, force)) \/ ForgetCheck
  PROVE  RunInv'
<1>1. DispatchTypeOK /\ LeasesStand /\ DeletionStands
  BY DEF RunInv
<1>2. /\ UNCHANGED <<pc, options, record, index, child, judged, returned>>
      /\ UNCHANGED <<disk, damaged, expired, started, crashes>>
      /\ UNCHANGED <<leases, aborted, closed>>
  BY DEF Forget, ForgetCheck, callVars, BeginDeletion, EndDeletion, admissionVars
<1>3. IInv'
  <2>1. UNCHANGED admissionVars \/ AdmissionNext
    BY DEF Forget, ForgetCheck, AdmissionNext
  <2> QED BY <2>1, AdmissionKeeps DEF RunInv
<1>4. /\ deletion' \in [step : {"check", "remove"}, run : Runs, force : Forces] \cup {NoDeletion}
      /\ deleting' <=> deletion' # NoDeletion
      /\ deletion'.step = "remove" => Forgettable(deletion'.run, deletion'.force)
  <2>1. ASSUME NEW k \in Runs, NEW force \in Forces, Forget(k, force) PROVE <1>4!:
    BY <2>1, NothingIsNothing DEF Forget, BeginDeletion
  <2>2. CASE ForgetCheck
    <3>1. deletion # NoDeletion /\ deletion \in [step : {"check", "remove"}, run : Runs, force : Forces]
      BY <1>1, <2>2, NothingIsNothing DEF ForgetCheck, DispatchTypeOK
    <3>2. deleting
      BY <1>1, <3>1 DEF LeasesStand
    <3>3. CASE /\ Forgettable(deletion.run, deletion.force)
               /\ deletion' = [deletion EXCEPT !.step = "remove"] /\ UNCHANGED admissionVars
      <4>1. /\ deletion' \in [step : {"check", "remove"}, run : Runs, force : Forces]
            /\ deletion'.run = deletion.run /\ deletion'.force = deletion.force /\ deletion'.step = "remove"
        BY <3>1, <3>3
      <4> QED BY <3>2, <3>3, <4>1, NothingIsNothing DEF admissionVars
    <3>4. CASE deletion' = NoDeletion /\ EndDeletion
      BY <3>4, NothingIsNothing DEF EndDeletion
    <3> QED BY <2>2, <3>3, <3>4 DEF ForgetCheck
  <2> QED BY <2>1, <2>2
<1>5. DispatchTypeOK'
  BY <1>1, <1>2, <1>3, <1>4 DEF DispatchTypeOK, IInv
<1>6. LeasesStand'
  BY <1>1, <1>2, <1>4 DEF LeasesStand
<1>7. DeletionStands'
  BY <1>2, <1>4, DiskAlone DEF DeletionStands, Forgettable, Referees, Readable, Latest
<1> QED BY <1>2, <1>3, <1>5, <1>6, <1>7, NoCallMoves
-----------------------------------------------------------------------------
(* Whatever a removal leaves behind, also one that fails half way. *)
LEMMA RemovalLeaves ==
  ASSUME RunInv, NEW k \in Runs, disk'[k] \in RemovedOutcomes(k),
         started'[k] = IF disk'[k] = <<>> THEN 0 ELSE started[k],
         k \in damaged' <=> disk'[k] # <<>> /\ (k \in damaged \/ disk'[k] # disk[k])
  PROVE  /\ disk'[k] \in Seq(Records \cup {Torn}) /\ started'[k] \in Nat
         /\ Saved(k)' \subseteq Saved(k)
         /\ OneTask(k)' /\ Committed(k)' /\ WithinBudget(k)'
         /\ returned'[k] \in {returned[k], None} => ReturnStands(k)'
<1>1. AssignmentStands(k) /\ disk[k] \in Seq(Records \cup {Torn}) /\ started[k] \in Nat
  BY DEF RunInv, DispatchTypeOK
<1>2. disk'[k] \in Seq(Records \cup {Torn}) /\ ToSet(disk'[k]) \subseteq ToSet(disk[k]) \cup {Torn}
  <2>1. CASE \E n \in 0 .. Len(disk[k]) : disk'[k] = SubSeq(disk[k], 1, n)
    BY <1>1, <2>1, Shortened
  <2>2. CASE disk'[k] = <<Torn>>
    <3>1. <<Torn>> \in Seq(Records \cup {Torn}) /\ ToSet(<<Torn>>) = {Torn}
      BY DEF ToSet
    <3> QED BY <2>2, <3>1
  <2> QED BY <2>1, <2>2 DEF RemovedOutcomes
<1>3. Saved(k)' \subseteq Saved(k)
  BY <1>2 DEF Saved
<1>4. OneTask(k)'
  BY <1>1, <1>3 DEF AssignmentStands, OneTask
<1>5. Committed(k)'
  <2>1. CASE disk'[k] = <<>>
    BY <2>1 DEF Committed
  <2>2. CASE disk'[k] # <<>> /\ k \notin damaged'
    BY <1>1, <2>2 DEF AssignmentStands, Committed, Readable, Latest
  <2>3. CASE disk'[k] # <<>> /\ k \in damaged'
    BY <2>3 DEF Committed
  <2> QED BY <2>1, <2>2, <2>3
<1>6. WithinBudget(k)'
  <2>1. \A saved \in Saved(k)' : started[k] <= Budget(saved)
    BY <1>1, <1>3 DEF AssignmentStands, WithinBudget
  <2>2. disk'[k] = <<>> => Saved(k)' = {}
    BY DEF Saved, ToSet
  <2> QED BY <2>1, <2>2 DEF WithinBudget, Budget
<1>7. ASSUME returned'[k] \in {returned[k], None} PROVE ReturnStands(k)'
  <2>1. CASE disk'[k] = <<>> \/ k \in damaged' \/ returned'[k] = None
    BY <2>1 DEF ReturnStands, Readable
  <2>2. CASE disk'[k] = disk[k] /\ k \notin damaged /\ returned'[k] = returned[k]
    <3>1. Latest(k)' = Latest(k) /\ (Readable(k)' <=> Readable(k))
      BY <2>2 DEF Latest, Readable
    <3> QED BY <1>1, <2>2, <3>1 DEF AssignmentStands, ReturnStands
  <2> QED BY <1>7, <2>1, <2>2
<1> QED BY <1>1, <1>2, <1>3, <1>4, <1>5, <1>6, <1>7

(* Leaving a record as it is is one of the outcomes of a removal. *)
LEMMA AloneIsAnOutcome ==
  ASSUME DispatchTypeOK, NEW k \in Runs
  PROVE  disk[k] \in RemovedOutcomes(k)
<1>1. disk[k] \in Seq(Records \cup {Torn}) /\ Len(disk[k]) \in 0 .. Len(disk[k])
  BY LenProperties DEF DispatchTypeOK
<1>2. disk[k] = SubSeq(disk[k], 1, Len(disk[k]))
  BY <1>1, SubSeqFull
<1> QED BY <1>1, <1>2 DEF RemovedOutcomes

(* The removal runs while no call does. *)
LEMMA ForgetRemoveKeeps ==
  ASSUME RunInv, ForgetRemove
  PROVE  RunInv'
<1>1. DispatchTypeOK /\ LeasesStand /\ deletion # NoDeletion /\ deletion.step = "remove" /\ deletion.run \in Runs
  BY NothingIsNothing DEF ForgetRemove, RunInv, DispatchTypeOK
<1>2. PICK r \in Runs : r = deletion.run
  BY <1>1
<1>3. PICK outcome : outcome \in RemovedOutcomes(r) /\ disk' = [disk EXCEPT ![r] = outcome]
                     /\ Removed(IF outcome = disk[r] THEN {} ELSE {r})
  BY <1>2 DEF ForgetRemove
<1>4. /\ UNCHANGED <<pc, options, record, index, child, judged, returned, expired, crashes>>
      /\ UNCHANGED <<leases, aborted, closed>> /\ EndDeletion /\ deletion' = NoDeletion /\ ~deleting'
  BY DEF ForgetRemove, EndDeletion, callVars
<1>5. \A j \in Runs : pc[j] = "idle"
  BY <1>1 DEF RunInv, LeasesStand, IInv, DeletionExclusive, NoLeases
<1>6. ASSUME NEW j \in Runs
      PROVE  /\ disk'[j] \in RemovedOutcomes(j)
             /\ started'[j] = IF disk'[j] = <<>> THEN 0 ELSE started[j]
             /\ j \in damaged' <=> disk'[j] # <<>> /\ (j \in damaged \/ disk'[j] # disk[j])
  <2>1. disk \in [Runs -> Seq(Records \cup {Torn})] /\ damaged \in SUBSET Runs
    BY <1>1 DEF DispatchTypeOK
  <2>2. disk'[r] = outcome /\ (j # r => disk'[j] = disk[j])
    BY <1>3, <2>1
  <2>3. disk'[j] \in RemovedOutcomes(j)
    BY <1>1, <1>3, <2>2, AloneIsAnOutcome
  <2>4. started'[j] = IF disk'[j] = <<>> THEN 0 ELSE started[j]
    BY <1>3 DEF Removed
  <2>5. j \in damaged' <=> disk'[j] # <<>> /\ (j \in damaged \/ disk'[j] # disk[j])
    BY <1>3, <2>1, <2>2 DEF Removed
  <2> QED BY <2>3, <2>4, <2>5
<1>7. ASSUME NEW j \in Runs
      PROVE  AssignmentStands(j)' /\ disk'[j] \in Seq(Records \cup {Torn}) /\ started'[j] \in Nat
  <2>1. /\ disk'[j] \in Seq(Records \cup {Torn}) /\ started'[j] \in Nat
        /\ OneTask(j)' /\ Committed(j)' /\ WithinBudget(j)' /\ ReturnStands(j)'
    BY <1>4, <1>6, RemovalLeaves
  <2>2. CallStands(j)'
    <3>1. CallStands(j)
      BY Standing
    <3> QED BY <1>4, <1>5, <3>1 DEF CallStands, Recorded
  <2> QED BY <2>1, <2>2 DEF AssignmentStands
<1>8. IInv'
  <2>1. AdmissionNext
    BY <1>4 DEF AdmissionNext
  <2> QED BY <2>1, AdmissionKeeps DEF RunInv
<1>9. DispatchTypeOK'
  <2>1. disk' \in [Runs -> Seq(Records \cup {Torn})]
    BY <1>1, <1>3, <1>7 DEF DispatchTypeOK
  <2>2. started' \in [Runs -> Nat]
    BY <1>3, <1>7 DEF Removed
  <2>3. damaged' \in SUBSET Runs
    BY <1>1, <1>2, <1>3 DEF Removed, DispatchTypeOK
  <2> QED BY <1>1, <1>4, <1>8, <2>1, <2>2, <2>3 DEF DispatchTypeOK, IInv
<1>10. LeasesStand'
  BY <1>1, <1>4 DEF LeasesStand
<1>11. DeletionStands'
  BY <1>4, NothingIsNothing DEF DeletionStands
<1> QED BY <1>7, <1>8, <1>9, <1>10, <1>11 DEF RunInv

(* A crash ends every call; what was being saved or removed is left at some point of it. *)
LEMMA CrashKeeps ==
  ASSUME RunInv, Crash
  PROVE  RunInv'
<1>1. DispatchTypeOK /\ LeasesStand
  BY DEF RunInv
<1>2. PICK outcome : /\ outcome \in [Runs -> UNION {CrashOutcomes(k) : k \in Runs}]
                     /\ \A k \in Runs : outcome[k] \in CrashOutcomes(k)
                     /\ disk' = outcome
                     /\ Removed({k \in Runs : Removing(k) /\ outcome[k] # disk[k]})
  BY DEF Crash
<1>3. /\ pc' = [k \in Runs |-> "idle"] /\ options' = [k \in Runs |-> None]
      /\ record' = [k \in Runs |-> NoRecord] /\ index' = [k \in Runs |-> 0]
      /\ child' = [k \in Runs |-> NoChild] /\ judged' = [k \in Runs |-> 0]
      /\ returned' = [k \in Runs |-> None] /\ deletion' = NoDeletion
      /\ UNCHANGED <<draining, expired>> /\ ~draining /\ crashes < MaxCrashes /\ crashes' = crashes + 1
  BY DEF Crash
<1>4. ASSUME NEW j \in Runs
      PROVE  AssignmentStands(j)' /\ disk'[j] \in Seq(Records \cup {Torn}) /\ started'[j] \in Nat
  <2>1. /\ disk'[j] \in CrashOutcomes(j) /\ started'[j] = (IF disk'[j] = <<>> THEN 0 ELSE started[j])
        /\ j \in damaged' <=> disk'[j] # <<>> /\ (j \in damaged \/ (Removing(j) /\ disk'[j] # disk[j]))
    BY <1>2 DEF Removed
  <2>2. returned'[j] = None /\ CallStands(j)'
    BY <1>3 DEF CallStands, Recorded
  <2>3. CASE pc[j] \in SavePoints
    <3>1. ~Removing(j)
      <4>1. leases[j] = "active" /\ Recorded(j)
        BY <2>3, SaveTargets, RecordFacts DEF Recorded
      <4>2. deletion = NoDeletion
        BY <1>1, <4>1 DEF RunInv, LeasesStand, IInv, DeletionExclusive, NoLeases
      <4> QED BY <4>2, NothingIsNothing DEF Removing
    <3>2. disk'[j] \in SaveOutcomes(j)
      BY <2>1, <3>1 DEF CrashOutcomes, SaveOutcomes
    <3>3. j \notin damaged'
      <4>1. j \notin damaged
        BY <2>3, SaveTargets, RecordFacts DEF Recorded, SavedStands
      <4> QED BY <2>1, <3>1, <4>1
    <3>4. /\ disk'[j] \in Seq(Records \cup {Torn}) /\ started'[j] = started[j]
          /\ OneTask(j)' /\ Committed(j)' /\ WithinBudget(j)'
      BY <2>1, <2>3, <3>2, <3>3, SaveLeaves
    <3>5. ReturnStands(j)'
      BY <2>2 DEF ReturnStands
    <3> QED BY <1>1, <2>2, <3>4, <3>5 DEF AssignmentStands, DispatchTypeOK
  <2>4. CASE pc[j] \notin SavePoints
    <3>1. disk'[j] \in RemovedOutcomes(j) /\ (~Removing(j) => disk'[j] = disk[j])
      BY <1>1, <2>1, <2>4, AloneIsAnOutcome DEF CrashOutcomes
    <3>2. j \in damaged' <=> disk'[j] # <<>> /\ (j \in damaged \/ disk'[j] # disk[j])
      BY <2>1, <3>1
    <3>3. /\ disk'[j] \in Seq(Records \cup {Torn}) /\ started'[j] \in Nat
          /\ OneTask(j)' /\ Committed(j)' /\ WithinBudget(j)' /\ ReturnStands(j)'
      BY <2>1, <2>2, <3>1, <3>2, RemovalLeaves
    <3> QED BY <2>2, <3>3 DEF AssignmentStands
  <2> QED BY <2>3, <2>4
<1>5. AdmissionInit'
  <2>1. ~draining'
    BY <1>3
  <2>2. draining' = FALSE
    BY <1>1, <2>1 DEF DispatchTypeOK, TypeOK, Crash
  <2> QED BY <2>2 DEF Crash, AdmissionInit
<1>6. IInv'
  <2>1. AdmissionInit' => IInv'
    BY InitEstablishes, PTL
  <2> QED BY <1>5, <2>1
<1>7. DispatchTypeOK'
  <2>1. disk' \in [Runs -> Seq(Records \cup {Torn})]
    BY <1>2, <1>4
  <2>2. started' \in [Runs -> Nat]
    BY <1>2, <1>4 DEF Removed
  <2>3. damaged' \in SUBSET Runs
    BY <1>1, <1>2 DEF Removed, DispatchTypeOK
  <2>4. crashes' \in 0 .. MaxCrashes /\ 0 \in 0 .. MaxRounds - 1
    BY <1>1, <1>3, DispatchAssumption DEF DispatchTypeOK
  <2>5. "idle" \in Labels
    BY DEF Labels
  <2> QED BY <1>1, <1>3, <1>6, <2>1, <2>2, <2>3, <2>4, <2>5 DEF DispatchTypeOK, IInv
<1>8. LeasesStand'
  BY <1>3, <1>5 DEF LeasesStand, AdmissionInit
<1>9. DeletionStands'
  BY <1>3, NothingIsNothing DEF DeletionStands
<1> QED BY <1>4, <1>6, <1>7, <1>8, <1>9 DEF RunInv
-----------------------------------------------------------------------------
LEMMA CallStepKeeps ==
  ASSUME RunInv, NEW k \in Runs, CallStep(k)
  PROVE  RunInv'
<1> QED BY ReadyKeeps, LookupKeeps, LoadSubjectKeeps, SaveOkKeeps, SaveFailsKeeps, ServiceKeeps,
           RoundHeadKeeps, LaunchKeeps, StartReturnsKeeps, ThrowsKeeps, ChildSettles, FailOverKeeps,
           TakeKeeps, CompactionReturnsKeeps, DisposedMovedKeeps, DisposedRoundKeeps, FinishKeeps,
           CleanupKeeps DEF CallStep

LEMMA StepKeeps == RunInv /\ [Next]_vars => RunInv'
<1> SUFFICES ASSUME RunInv, [Next]_vars PROVE RunInv'
  OBVIOUS
<1>1. ASSUME NEW k \in Runs, NEW o \in Options, NEW queue \in BOOLEAN, Delegate(k, o, queue) PROVE RunInv'
  BY <1>1, DelegateKeeps
<1>2. ASSUME NEW k \in Runs, CallStep(k) \/ ScopeAborts(k) PROVE RunInv'
  BY <1>2, CallStepKeeps, ScopeAbortsKeeps
<1>3. CASE (\E k \in Runs, force \in Forces : Forget(k, force)) \/ ForgetCheck
  BY <1>3, ForgetKeeps
<1>4. CASE ForgetRemove
  BY <1>4, ForgetRemoveKeeps
<1>5. ASSUME NEW r \in Perishable, Expire(r) PROVE RunInv'
  BY <1>5, ExpireKeeps
<1>6. CASE Drain \/ DisposalResolves \/ UNCHANGED vars
  BY <1>6, DrainKeeps
<1>7. CASE DisposeDispatcher
  BY <1>7, DisposeDispatcherKeeps
<1>8. CASE Crash
  BY <1>8, CrashKeeps
<1> QED BY <1>1, <1>2, <1>3, <1>4, <1>5, <1>6, <1>7, <1>8 DEF Next

LEMMA InitStands == Init => RunInv
<1> SUFFICES ASSUME Init PROVE RunInv
  OBVIOUS
<1>1. IInv
  BY InitEstablishes DEF Init
<1>2. DispatchTypeOK
  <2>1. <<>> \in Seq(Records \cup {Torn}) /\ 0 \in 0 .. MaxRounds - 1 /\ 0 \in 0 .. MaxCrashes
    BY DispatchAssumption
  <2>2. "idle" \in Labels
    BY DEF Labels
  <2> QED BY <1>1, <2>1, <2>2 DEF Init, DispatchInit, DispatchTypeOK, IInv
<1>3. LeasesStand
  BY DEF Init, AdmissionInit, DispatchInit, LeasesStand
<1>4. ASSUME NEW k \in Runs PROVE AssignmentStands(k)
  <2>1. /\ pc[k] = "idle" /\ returned[k] = None /\ disk[k] = <<>> /\ started[k] = 0 /\ k \notin damaged
        /\ Saved(k) = {}
    BY DEF Init, DispatchInit, Saved, ToSet
  <2>2. CallStands(k) /\ OneTask(k) /\ Committed(k)
    BY <2>1 DEF CallStands, Recorded, OneTask, Committed
  <2>3. WithinBudget(k)
    BY <2>1 DEF WithinBudget
  <2>4. ReturnStands(k)
    BY <2>1 DEF ReturnStands
  <2> QED BY <2>2, <2>3, <2>4 DEF AssignmentStands
<1>5. DeletionStands
  BY NothingIsNothing DEF Init, DispatchInit, DeletionStands
<1> QED BY <1>1, <1>2, <1>3, <1>4, <1>5 DEF RunInv

(* The leases, the calls, their records and their children agree, whatever was aborted,
   failed, expired, was deleted or crashed: no child is started without its round on disk,
   none beyond the budget of its task, and what a call returned is what its record says.
   This is delegate(), compact() and forget() over createAdmission() and the store. *)
THEOREM DispatchSafe == DispatchSpec => []RunInv
<1> QED BY InitStands, StepKeeps, PTL DEF DispatchSpec
-----------------------------------------------------------------------------
(* A slot stays occupied until the child under it has settled, whatever became of its call,
   and when the disposal of the dispatcher resolves no call, no child and no deletion is
   left: the "finally" of runAssignment() and dispose(). *)
THEOREM EveryChildHasAnOwner == DispatchSpec => []ChildrenOwned
<1>1. RunInv => ChildrenOwned
  <2> SUFFICES ASSUME RunInv PROVE SlotHeldByChild /\ DisposeDrained
    BY DEF ChildrenOwned
  <2>1. SlotHeldByChild
    <3> SUFFICES ASSUME NEW k \in Runs, pc[k] = "starting" \/ Live(k) PROVE leases[k] = "active"
      BY DEF SlotHeldByChild
    <3>1. CASE pc[k] = "starting"
      BY <3>1, RecordFacts DEF Recorded
    <3>2. CASE Live(k)
      BY <3>2 DEF Live, RunInv, LeasesStand
    <3> QED BY <3>1, <3>2
  <2>2. DisposeDrained
    <3> SUFFICES ASSUME disposeDone PROVE (\A k \in Runs : pc[k] = "idle" /\ child[k] = NoChild) /\ deletion = NoDeletion
      BY DEF DisposeDrained
    <3>1. ~deleting /\ \A k \in Runs : leases[k] = "absent"
      BY DEF RunInv, IInv, DisposeComplete, NoLeases
    <3> QED BY <3>1 DEF RunInv, LeasesStand
  <2> QED BY <2>1, <2>2
<1> QED BY <1>1, DispatchSafe, PTL

(* Only the start of a child counts as one. *)
LEMMA OnlyLaunchStarts ==
  ASSUME RunInv, [Next]_vars, NEW k \in Runs, Starts(k)
  PROVE  /\ Recorded(k) /\ pc[k] = "launch" /\ k \notin aborted /\ Fresh(k)
         /\ started'[k] = started[k] + 1
<1>1. DispatchTypeOK /\ started[k] \in Nat /\ started'[k] # started[k] /\ ~(started'[k] <= started[k])
  <2>1. DispatchTypeOK /\ DispatchTypeOK'
    BY StepKeeps DEF RunInv
  <2>2. started \in [Runs -> Nat] /\ started' \in [Runs -> Nat]
    BY <2>1 DEF DispatchTypeOK
  <2>3. started[k] \in Nat /\ started'[k] \in Nat
    BY <2>2
  <2>4. started'[k] > started[k]
    BY DEF Starts
  <2> QED BY <2>1, <2>3, <2>4
<1>2. ~UNCHANGED started
  BY <1>1
<1>3. PICK j \in Runs : Launch(j)
  <2>1. ASSUME NEW j \in Runs, NEW o \in Options, NEW queue \in BOOLEAN, Delegate(j, o, queue) PROVE FALSE
    BY <1>2, <2>1 DEF Delegate, worldVars
  <2>2. ASSUME NEW j \in Runs, ScopeAborts(j) PROVE FALSE
    BY <1>2, <2>2 DEF ScopeAborts, worldVars
  <2>3. ASSUME NEW j \in Runs, CallStep(j), ~Launch(j) PROVE FALSE
    BY <1>2, <2>3 DEF CallStep, Ready, Lookup, LoadSubject, SaveOk, SaveFails, Service, RoundHead,
         StartReturns, StartFails, ResultSettles, DisposalSettles, FailOver, TakeResult, ResultThrows,
         TakeCompaction, CompactionReturns, DisposedMoved, DisposedRound, DisposalThrows, Finish,
         Cleanup, worldVars
  <2>4. ASSUME NEW j \in Runs, NEW force \in Forces, Forget(j, force) PROVE FALSE
    BY <1>2, <2>4 DEF Forget
  <2>5. ASSUME NEW r \in Perishable, Expire(r) PROVE FALSE
    BY <1>2, <2>5 DEF Expire
  <2>6. ASSUME ForgetCheck \/ Drain \/ DisposeDispatcher \/ DisposalResolves \/ UNCHANGED vars PROVE FALSE
    BY <1>2, <2>6 DEF ForgetCheck, Drain, DisposeDispatcher, DisposalResolves, vars, dispatchVars, worldVars
  <2>7. ASSUME ForgetRemove \/ Crash PROVE FALSE
    <3>1. started'[k] \in {0, started[k]}
      BY <2>7 DEF ForgetRemove, Crash, Removed
    <3> QED BY <1>1, <3>1
  <2> QED BY <2>1, <2>2, <2>3, <2>4, <2>5, <2>6, <2>7 DEF Next
<1>4. /\ pc[j] = "launch" /\ j \notin aborted /\ Fresh(j)
      /\ started' = [started EXCEPT ![j] = @ + 1]
  BY <1>2, <1>3 DEF Launch, At
<1>5. j = k /\ started'[k] = started[k] + 1
  BY <1>1, <1>4 DEF DispatchTypeOK
<1> QED BY <1>4, <1>5 DEF Recorded

(* No child is started twice for one committed round, and none while the one before it is
   still there, also after a crash between the commitment and the start. *)
THEOREM NothingIsReplayed == DispatchSpec => NeverReplayed
<1>1. RunInv /\ [Next]_vars =>
        [\A k \in Runs : Starts(k) => started'[k] = record[k].rounds /\ ~Live(k)]_vars
  <2> SUFFICES ASSUME RunInv, [Next]_vars, NEW k \in Runs, Starts(k)
               PROVE  started'[k] = record[k].rounds /\ ~Live(k)
    OBVIOUS
  <2>1. Recorded(k) /\ pc[k] = "launch" /\ started'[k] = started[k] + 1
    BY OnlyLaunchStarts
  <2>2. record[k].rounds = started[k] + 1
    BY <2>1, RecordFacts DEF RoundStands
  <2>3. child[k] = NoChild
    BY <2>1, Standing DEF WithChild
  <2> QED BY <2>1, <2>2, <2>3 DEF Live
<1> QED BY <1>1, DispatchSafe, PTL DEF DispatchSpec, NeverReplayed

(* What the dispatcher launches it launches under evidence of the route itself that has not
   expired, in a scope that has not aborted, and never once it is disposed. *)
THEOREM EveryLaunchIsAuthorized == DispatchSpec => LaunchAuthorized
<1>1. RunInv /\ [Next]_vars =>
        [\A k \in Runs : Starts(k) => /\ record[k].evidence = record[k].route
                                      /\ record[k].route \notin expired
                                      /\ k \notin aborted
                                      /\ ~closed]_vars
  <2> SUFFICES ASSUME RunInv, [Next]_vars, NEW k \in Runs, Starts(k)
               PROVE  /\ record[k].evidence = record[k].route /\ record[k].route \notin expired
                      /\ k \notin aborted /\ ~closed
    OBVIOUS
  <2>1. Recorded(k) /\ k \notin aborted /\ Fresh(k)
    BY OnlyLaunchStarts
  <2>2. record[k].evidence = record[k].route /\ record[k].evidence \notin expired
    BY <2>1, RecordFacts DEF RecordStands, Fresh
  <2>3. leases[k] = "active"
    BY <2>1, RecordFacts
  <2>4. ~closed
    BY <2>1, <2>3 DEF RunInv, LeasesStand
  <2> QED BY <2>1, <2>2, <2>4
<1> QED BY <1>1, DispatchSafe, PTL DEF DispatchSpec, LaunchAuthorized
-----------------------------------------------------------------------------
(* What a step does to the revisions of one record: nothing, or what a save of it leaves, or
   what a removal of it does. *)
LEMMA DiskMoves ==
  ASSUME RunInv, [Next]_vars, NEW k \in Runs
  PROVE  \/ disk'[k] = disk[k]
         \/ pc[k] \in SavePoints /\ disk'[k] \in SaveOutcomes(k)
         \/ Removing(k) /\ disk'[k] \in RemovedOutcomes(k)
<1> DEFINE Moves ==
      \/ disk'[k] = disk[k]
      \/ pc[k] \in SavePoints /\ disk'[k] \in SaveOutcomes(k)
      \/ Removing(k) /\ disk'[k] \in RemovedOutcomes(k)
<1> SUFFICES Moves
  OBVIOUS
<1>1. disk \in [Runs -> Seq(Records \cup {Torn})] /\ (deletion.step = "remove" => deletion.run \in Runs)
  BY NothingIsNothing DEF RunInv, DispatchTypeOK
<1>2. ASSUME NEW j \in Runs, NEW o \in Options, NEW queue \in BOOLEAN, Delegate(j, o, queue) PROVE Moves
  BY <1>2 DEF Delegate, worldVars
<1>3. ASSUME NEW j \in Runs, ScopeAborts(j) PROVE Moves
  BY <1>3 DEF ScopeAborts, worldVars
<1>4. ASSUME NEW j \in Runs, SaveOk(j) \/ SaveFails(j) PROVE Moves
  <2>1. pc[j] \in SavePoints /\ \E outcome \in SaveOutcomes(j) : disk' = [disk EXCEPT ![j] = outcome]
    BY <1>4 DEF SaveOk, SaveFails, SaveOutcomes
  <2>2. disk'[j] \in SaveOutcomes(j) /\ (j # k => disk'[k] = disk[k])
    BY <1>1, <2>1
  <2> QED BY <2>1, <2>2
<1>5. ASSUME NEW j \in Runs, CallStep(j), ~SaveOk(j), ~SaveFails(j) PROVE Moves
  <2>1. UNCHANGED disk
    BY <1>5 DEF CallStep, Ready, Lookup, LoadSubject, Service, RoundHead, Launch,
         StartReturns, StartFails, ResultSettles, DisposalSettles, FailOver, TakeResult, ResultThrows,
         TakeCompaction, CompactionReturns, DisposedMoved, DisposedRound, DisposalThrows, Finish,
         Cleanup, worldVars
  <2> QED BY <2>1
<1>6. ASSUME NEW j \in Runs, NEW force \in Forces, Forget(j, force) PROVE Moves
  BY <1>6 DEF Forget
<1>7. ASSUME NEW r \in Perishable, Expire(r) PROVE Moves
  BY <1>7 DEF Expire
<1>8. CASE ForgetCheck \/ Drain \/ DisposeDispatcher \/ DisposalResolves \/ UNCHANGED vars
  <2>1. UNCHANGED disk
    BY <1>8 DEF ForgetCheck, Drain, DisposeDispatcher, DisposalResolves, vars, dispatchVars, worldVars
  <2> QED BY <2>1
<1>9. CASE ForgetRemove
  <2>1. PICK r \in Runs : r = deletion.run
    BY <1>1, <1>9 DEF ForgetRemove
  <2>2. PICK outcome : outcome \in RemovedOutcomes(r) /\ disk' = [disk EXCEPT ![r] = outcome]
    BY <1>9, <2>1 DEF ForgetRemove
  <2>3. Removing(r)
    BY <1>9, <2>1 DEF ForgetRemove, Removing
  <2>4. disk'[r] = outcome /\ (r # k => disk'[k] = disk[k])
    BY <1>1, <2>2
  <2> QED BY <2>2, <2>3, <2>4
<1>10. CASE Crash
  <2>1. disk'[k] \in CrashOutcomes(k)
    BY <1>10 DEF Crash
  <2> QED BY <2>1 DEF CrashOutcomes
<1> QED BY <1>2, <1>3, <1>4, <1>5, <1>6, <1>7, <1>8, <1>9, <1>10 DEF Next

(* A removal under way has found no call, a record that reads accept and, unless it is forced,
   no review of it. *)
LEMMA RemovalFinds ==
  ASSUME RunInv, NEW k \in Runs, Removing(k)
  PROVE  /\ \A j \in Runs : pc[j] = "idle"
         /\ Readable(k) /\ deletion.force \in Forces
         /\ TRUE \notin Forces => \A r \in Runs : \A saved \in Saved(r) : saved.subject # k
<1>1. DispatchTypeOK /\ deletion.step = "remove" /\ deletion.run = k /\ deletion # NoDeletion
  BY NothingIsNothing DEF RunInv, Removing
<1>2. \A j \in Runs : pc[j] = "idle"
  BY <1>1 DEF RunInv, LeasesStand, IInv, DeletionExclusive, NoLeases
<1>3. deletion.force \in Forces /\ deletion.force \in BOOLEAN
  BY <1>1, DispatchAssumption DEF DispatchTypeOK
<1>4. Forgettable(k, deletion.force)
  BY <1>1 DEF RunInv, DeletionStands
<1>5. ASSUME TRUE \notin Forces, NEW r \in Runs, NEW saved \in Saved(r) PROVE saved.subject # k
  <2>1. Referees(k) = {} /\ (disk[r] # <<>> => Readable(r))
    BY <1>3, <1>4, <1>5 DEF Forgettable
  <2>2. disk[r] # <<>>
    BY <1>5 DEF Saved, ToSet
  <2>3. Readable(r) /\ Latest(r) \in Saved(r)
    BY <1>1, <2>1, <2>2, ReadableIsSaved
  <2>4. Latest(r).subject # k
    BY <2>1, <2>3 DEF Referees
  <2>5. saved.subject = Latest(r).subject
    BY <2>3 DEF RunInv, AssignmentStands, OneTask
  <2> QED BY <2>4, <2>5
<1> QED BY <1>2, <1>3, <1>4, <1>5 DEF Forgettable

(* What a save or a removal may leave is read off the sequences. *)
LEMMA SavesGrow ==
  ASSUME RunInv, NEW k \in Runs, pc[k] \in SavePoints, NEW outcome \in SaveOutcomes(k)
  PROVE  /\ ToSet(outcome) \subseteq ToSet(disk[k]) \cup {record[k], Torn}
         /\ disk[k] # <<>> => outcome # <<>>
         /\ outcome # disk[k] => Len(outcome) = Len(disk[k]) + 1 /\ Front(outcome) = disk[k]
<1>1. Recorded(k)
  BY SaveTargets DEF Recorded
<1>2. disk[k] \in Seq(Records \cup {Torn}) /\ record[k] \in Records \cup {Torn} /\ Torn \in Records \cup {Torn}
  BY <1>1, RecordFacts DEF DispatchTypeOK
<1>3. \A e \in {record[k], Torn} :
        /\ Append(disk[k], e) # <<>> /\ Len(Append(disk[k], e)) = Len(disk[k]) + 1
        /\ Front(Append(disk[k], e)) = disk[k] /\ ToSet(Append(disk[k], e)) = ToSet(disk[k]) \cup {e}
  BY <1>2, Extended
<1> QED BY <1>3 DEF SaveOutcomes

LEMMA RemovalsCut ==
  ASSUME RunInv, NEW k \in Runs, NEW outcome \in RemovedOutcomes(k)
  PROVE  /\ ToSet(outcome) \subseteq ToSet(disk[k]) \cup {Torn}
         /\ Len(outcome) <= Len(disk[k])
         /\ IsPrefix(outcome, disk[k]) \/ outcome = <<Torn>>
<1>1. disk[k] \in Seq(Records \cup {Torn})
  BY DEF RunInv, DispatchTypeOK
<1>2. CASE \E n \in 0 .. Len(disk[k]) : outcome = SubSeq(disk[k], 1, n)
  BY <1>1, <1>2, Shortened, LenProperties
<1>3. CASE outcome = <<Torn>> /\ Len(disk[k]) > 1
  <2>1. ToSet(<<Torn>>) = {Torn} /\ Len(<<Torn>>) = 1
    BY DEF ToSet
  <2> QED BY <1>1, <1>3, <2>1, LenProperties
<1> QED BY <1>2, <1>3 DEF RemovedOutcomes
-----------------------------------------------------------------------------
LEMMA ReviewsStay == RunInv /\ NoDanglingReview /\ [Next]_vars => NoDanglingReview'
<1> SUFFICES ASSUME RunInv, NoDanglingReview, [Next]_vars, TRUE \notin Forces,
                    NEW k \in Runs, NEW saved \in Saved(k)', saved.subject \in Runs
             PROVE  disk'[saved.subject] # <<>>
  BY DEF NoDanglingReview
<1>1. PICK s \in Runs : s = saved.subject
  OBVIOUS
<1>2. saved \in Saved(k) \/ (pc[k] \in SavePoints /\ saved = record[k])
  <2>1. saved \in ToSet(disk'[k]) /\ saved # Torn
    BY DEF Saved
  <2>2. CASE disk'[k] = disk[k]
    BY <2>1, <2>2 DEF Saved
  <2>3. CASE pc[k] \in SavePoints /\ disk'[k] \in SaveOutcomes(k)
    <3>1. ToSet(disk'[k]) \subseteq ToSet(disk[k]) \cup {record[k], Torn}
      BY <2>3, SavesGrow
    <3> QED BY <2>1, <2>3, <3>1 DEF Saved
  <2>4. CASE disk'[k] \in RemovedOutcomes(k)
    <3>1. ToSet(disk'[k]) \subseteq ToSet(disk[k]) \cup {Torn}
      BY <2>4, RemovalsCut
    <3> QED BY <2>1, <3>1 DEF Saved
  <2> QED BY <2>2, <2>3, <2>4, DiskMoves
<1>3. disk[s] # <<>>
  <2>1. CASE saved \in Saved(k)
    BY <1>1, <2>1 DEF NoDanglingReview
  <2>2. CASE pc[k] \in SavePoints /\ saved = record[k]
    BY <1>1, <2>2, SaveTargets, RecordFacts DEF Recorded, RecordStands
  <2> QED BY <1>2, <2>1, <2>2
<1>4. CASE disk'[s] = disk[s]
  BY <1>1, <1>3, <1>4
<1>5. CASE pc[s] \in SavePoints /\ disk'[s] \in SaveOutcomes(s)
  BY <1>1, <1>3, <1>5, SavesGrow
<1>6. CASE Removing(s)
  <2>1. pc[k] = "idle" /\ \A other \in Saved(k) : other.subject # s
    BY <1>6, RemovalFinds
  <2>2. saved \in Saved(k)
    BY <1>2, <2>1, SaveTargets
  <2> QED BY <1>1, <2>1, <2>2
<1> QED BY <1>4, <1>5, <1>6, DiskMoves

(* Unless a deletion is forced, the run a saved review judged is there as long as the review
   is: forget() checks and removes while reserveDeletion() keeps every call out. *)
THEOREM ReviewsKeepTheirSubjects == DispatchSpec => []NoDanglingReview
<1>1. Init => NoDanglingReview
  BY DEF Init, DispatchInit, NoDanglingReview, Saved, ToSet
<1> QED BY <1>1, ReviewsStay, DispatchSafe, PTL DEF DispatchSpec

(* A finished record is rewritten by nothing but the withdrawal of a compaction. *)
LEMMA FinishedStays ==
  ASSUME RunInv, [Next]_vars, NEW k \in Runs,
         Readable(k), Latest(k).finished, Len(disk'[k]) > Len(disk[k])
  PROVE  Latest(k).compact /\ pc[k] = "failSave" /\ record[k].state = "INTERRUPTED_UNKNOWN"
<1>1. disk[k] \in Seq(Records \cup {Torn}) /\ Len(disk[k]) \in Nat
  BY LenProperties DEF RunInv, DispatchTypeOK
<1>2. pc[k] \in SavePoints
  <2>1. CASE disk'[k] \in RemovedOutcomes(k)
    <3>1. disk'[k] \in Seq(Records \cup {Torn}) /\ Len(disk'[k]) \in Nat
      BY StepKeeps, LenProperties DEF RunInv, DispatchTypeOK
    <3>2. Len(disk'[k]) <= Len(disk[k])
      BY <2>1, RemovalsCut
    <3> QED BY <1>1, <3>1, <3>2
  <2>2. CASE disk'[k] = disk[k]
    BY <1>1, <2>2
  <2> QED BY <2>1, <2>2, DiskMoves
<1>3. Recorded(k) /\ pc[k] # "disposeRound"
  BY <1>2, SaveTargets DEF Recorded
<1>4. Latest(k).compact /\ pc[k] = "failSave"
  BY <1>2, <1>3, RecordFacts DEF SavedStands, Readable
<1> QED BY <1>3, <1>4, RecordFacts DEF RecordStands

(* The records on disk are a log to those who read it. *)
LEMMA DiskLogStep == RunInv /\ [Next]_vars => [DiskLog!Next]_disk
<1> SUFFICES ASSUME RunInv, [Next]_vars, NEW k \in Runs
             PROVE  disk'[k] = disk[k] \/ DiskLog!Extend(k) \/ DiskLog!Cut(k)
  BY DEF DiskLog!Next
<1>1. disk[k] \in Seq(Records \cup {Torn}) /\ Len(disk[k]) \in Nat
  BY LenProperties DEF RunInv, DispatchTypeOK
<1>2. CASE pc[k] \in SavePoints /\ disk'[k] \in SaveOutcomes(k) /\ disk'[k] # disk[k]
  <2>1. Torn \notin ToSet(disk[k])
    BY <1>2, SaveTargets, RecordFacts DEF Recorded, SavedStands
  <2>2. DiskLog!Whole(k)
    <3>1. disk[k] # <<>> => Last(disk[k]) \in ToSet(disk[k])
      BY <1>1, LatestIsOne
    <3>2. Last(disk[k]) = DiskLog!Last(disk[k])
      BY DEF Last, DiskLog!Last
    <3> QED BY <2>1, <3>1, <3>2 DEF DiskLog!Whole
  <2>3. Len(disk'[k]) = Len(disk[k]) + 1 /\ Front(disk'[k]) = disk[k]
    BY <1>2, SavesGrow
  <2>4. DiskLog!Front(disk'[k]) = Front(disk'[k])
    BY DEF Front, DiskLog!Front
  <2>5. DiskLog!Extend(k)
    BY <2>2, <2>3, <2>4 DEF DiskLog!Extend
  <2> QED BY <2>5
<1>3. CASE Removing(k) /\ disk'[k] \in RemovedOutcomes(k)
  <2>1. disk[k] # <<>>
    BY <1>3, RemovalFinds DEF Readable
  <2>2. IsPrefix(disk'[k], disk[k]) \/ disk'[k] = <<Torn>>
    BY <1>3, RemovalsCut
  <2>3. IsPrefix(disk'[k], disk[k]) => DiskLog!IsPrefix(disk'[k], disk[k])
    BY DEF IsPrefix, DiskLog!IsPrefix
  <2>4. DiskLog!Cut(k)
    BY <2>1, <2>2, <2>3 DEF DiskLog!Cut
  <2> QED BY <2>4
<1> QED BY <1>2, <1>3, DiskMoves

(* Through its saves, their failures, its removals and the crashes between them, the
   dispatcher writes each record as the log of revisions that RecordStore implements, and
   nothing follows the revision that finishes one but the withdrawal of a compaction. *)
THEOREM RecordsAreLogs == DispatchSpec => RecordsGrow
<1>1. Init => DiskLog!Init
  BY DEF Init, DispatchInit, DiskLog!Init
<1>2. RunInv /\ [Next]_vars =>
        [\A k \in Runs : Readable(k) /\ Latest(k).finished /\ Len(disk'[k]) > Len(disk[k]) =>
           /\ Latest(k).compact
           /\ pc[k] = "failSave"
           /\ record[k].state = "INTERRUPTED_UNKNOWN"]_vars
  BY FinishedStays
<1> QED BY <1>1, <1>2, DiskLogStep, DispatchSafe, PTL DEF DispatchSpec, RecordsGrow, SavedLog, FinishedIsFinal, DiskLog!Spec
=============================================================================
