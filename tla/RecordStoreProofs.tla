------------------------- MODULE RecordStoreProofs -------------------------
(***************************************************************************)
(* HonestStore and LogSpec of RecordStore, proved for every set of         *)
(* clients, keys and values and every bound: the inductive invariant       *)
(* StoreInv, what it says about lost and refused records, and that the     *)
(* store implements RecordLog.                                             *)
(***************************************************************************)
EXTENDS RecordStore, FiniteSetTheorems, SequenceTheorems, TLAPS
-----------------------------------------------------------------------------
(* The head of the queue is a client that asked for something, and the others wait behind it. *)
LEMMA HeadOfQueue ==
  ASSUME TypeOK, queue # <<>>
  PROVE  /\ Head(queue) \in Clients /\ Current \in Operations
         /\ Tail(queue) \in Seq(Clients) /\ IsInjective(Tail(queue))
         /\ ToSet(Tail(queue)) = ToSet(queue) \ {Head(queue)}
<1>1. queue \in Seq(Clients) /\ Len(queue) \in Nat \ {0} /\ DOMAIN queue = 1 .. Len(queue)
  BY LenProperties, EmptySeq DEF TypeOK
<1>2. /\ Tail(queue) \in Seq(Clients) /\ Head(queue) \in Clients /\ Head(queue) = queue[1]
      /\ DOMAIN Tail(queue) = 1 .. Len(queue) - 1
      /\ \A i \in 1 .. Len(queue) - 1 : Tail(queue)[i] = queue[i + 1]
  BY <1>1, HeadTailProperties, LenProperties
<1>3. \A i, j \in 1 .. Len(queue) : queue[i] = queue[j] => i = j
  BY <1>1 DEF TypeOK, IsInjective
<1>4. IsInjective(Tail(queue))
  BY <1>1, <1>2, <1>3 DEF IsInjective
<1>5. ToSet(Tail(queue)) = ToSet(queue) \ {Head(queue)}
  <2>1. ASSUME NEW i \in 1 .. Len(queue), queue[i] # queue[1]
        PROVE  i - 1 \in 1 .. Len(queue) - 1 /\ Tail(queue)[i - 1] = queue[i]
    BY <2>1, <1>1, <1>2
  <2>2. ASSUME NEW i \in 1 .. Len(queue) - 1
        PROVE  i + 1 \in 1 .. Len(queue) /\ Tail(queue)[i] = queue[i + 1] /\ queue[i + 1] # queue[1]
    BY <1>1, <1>2, <1>3
  <2>3. /\ ToSet(queue) = {queue[i] : i \in 1 .. Len(queue)}
        /\ ToSet(Tail(queue)) = {Tail(queue)[i] : i \in 1 .. Len(queue) - 1}
    BY <1>1, <1>2 DEF ToSet
  <2>4. ASSUME NEW x \in ToSet(Tail(queue))
        PROVE  x \in ToSet(queue) /\ x # Head(queue)
    BY <2>2, <2>3, <2>4, <1>2
  <2>5. ASSUME NEW x \in ToSet(queue), x # Head(queue)
        PROVE  x \in ToSet(Tail(queue))
    <3>1. PICK i \in 1 .. Len(queue) : x = queue[i]
      BY <2>3
    <3>2. i - 1 \in 1 .. Len(queue) - 1 /\ Tail(queue)[i - 1] = x
      BY <3>1, <2>1, <2>5, <1>2
    <3> QED BY <3>2, <2>3
  <2> QED BY <2>4, <2>5
<1>6. Current \in Operations
  <2>1. Head(queue) \in ToSet(queue)
    BY <1>1, <1>2 DEF ToSet
  <2> QED BY <2>1 DEF TypeOK, Current
<1> QED BY <1>2, <1>4, <1>5, <1>6

(* A caller goes to the end of the queue; who stands at the head stays there. *)
LEMMA BackOfQueue ==
  ASSUME TypeOK, NEW c \in Clients, request[c] = Idle
  PROVE  /\ Append(queue, c) \in Seq(Clients) /\ IsInjective(Append(queue, c))
         /\ ToSet(Append(queue, c)) = ToSet(queue) \cup {c}
         /\ Append(queue, c) # <<>>
         /\ queue # <<>> => Head(Append(queue, c)) = Head(queue) /\ Head(queue) # c
<1>1. queue \in Seq(Clients) /\ Len(queue) \in Nat /\ DOMAIN queue = 1 .. Len(queue)
  BY LenProperties DEF TypeOK
<1>2. /\ Append(queue, c) \in Seq(Clients) /\ Append(queue, c) # <<>>
      /\ DOMAIN Append(queue, c) = 1 .. Len(queue) + 1
      /\ \A i \in 1 .. Len(queue) : Append(queue, c)[i] = queue[i]
      /\ Append(queue, c)[Len(queue) + 1] = c
  BY <1>1, AppendProperties, LenProperties
<1>3. \A i \in 1 .. Len(queue) : queue[i] # c
  BY <1>1 DEF TypeOK, ToSet
<1>4. \A i, j \in 1 .. Len(queue) : queue[i] = queue[j] => i = j
  BY <1>1 DEF TypeOK, IsInjective
<1>5. IsInjective(Append(queue, c))
  <2> SUFFICES ASSUME NEW i \in 1 .. Len(queue) + 1, NEW j \in 1 .. Len(queue) + 1,
                      Append(queue, c)[i] = Append(queue, c)[j]
               PROVE  i = j
    BY <1>2 DEF IsInjective
  <2>1. (i = Len(queue) + 1 \/ i \in 1 .. Len(queue)) /\ (j = Len(queue) + 1 \/ j \in 1 .. Len(queue))
    BY <1>1
  <2> QED BY <2>1, <1>1, <1>2, <1>3, <1>4
<1>6. ToSet(Append(queue, c)) = ToSet(queue) \cup {c}
  <2>1. 1 .. Len(queue) + 1 = (1 .. Len(queue)) \cup {Len(queue) + 1}
    BY <1>1
  <2> QED BY <1>1, <1>2, <2>1 DEF ToSet
<1>7. queue # <<>> => Head(Append(queue, c)) = Head(queue) /\ Head(queue) # c
  <2> HAVE queue # <<>>
  <2>1. 1 \in 1 .. Len(queue) /\ Head(queue) = queue[1]
    BY <1>1, EmptySeq, HeadTailProperties
  <2>2. Head(Append(queue, c)) = Append(queue, c)[1]
    BY <1>2
  <2> QED BY <2>1, <2>2, <1>2, <1>3
<1> QED BY <1>2, <1>5, <1>6, <1>7

(* What the fields of the operation at the head are, by its kind. *)
LEMMA CurrentTypes ==
  ASSUME TypeOK, queue # <<>>
  PROVE  /\ Current.op \in {"read", "remove", "entries", "save"}
         /\ Current.op # "entries" => Current.key \in Keys
         /\ Current.op = "save" => Current.data \in Values /\ Current.expected \in 0 .. MaxRevisions
<1> QED BY HeadOfQueue DEF Operations

(* The revision numbers on disk are finitely many; a record without a gap counts them. *)
LEMMA NamesFinite ==
  ASSUME TypeOK, NEW k \in Keys
  PROVE  /\ Names(k) \in SUBSET Revisions /\ IsFiniteSet(Names(k)) /\ Count(k) \in 0 .. MaxRevisions
         /\ Names(k) = {} <=> Count(k) = 0
         /\ \A m \in Nat : Names(k) = 1 .. m => Count(k) = m
<1>1. MaxRevisions \in Nat \ {0} /\ IsFiniteSet(Revisions) /\ Cardinality(Revisions) = MaxRevisions
  BY StoreAssumption, FS_Interval DEF Revisions
<1>2. Names(k) \in SUBSET Revisions
  BY DEF Names
<1>3. IsFiniteSet(Names(k)) /\ Cardinality(Names(k)) <= MaxRevisions /\ Cardinality(Names(k)) \in Nat
  BY <1>1, <1>2, FS_Subset, FS_CardinalityType
<1>4. Names(k) = {} <=> Count(k) = 0
  BY <1>3, FS_EmptySet DEF Count
<1>5. ASSUME NEW m \in Nat, Names(k) = 1 .. m
      PROVE  Count(k) = m
  BY <1>5, FS_Interval DEF Count
<1> QED BY <1>1, <1>2, <1>3, <1>4, <1>5 DEF Count

(* A read finds nothing, or refuses, or returns a whole record without a gap; only a damaged
   record is refused. *)
LEMMA ContentsFacts ==
  ASSUME TypeOK, DiskStands, NEW k \in Keys
  PROVE  /\ Contents(k) \in Answers
         /\ Contents(k) # Refused =>
              /\ Names(k) = 1 .. Count(k) /\ WholeUpTo(k, Count(k))
              /\ Count(k) = IF Contents(k) = None THEN 0 ELSE Contents(k).revision
         /\ Contents(k) = Refused => k \in damaged \/ ~Quiet(k)
<1>1. Count(k) \in 0 .. MaxRevisions /\ MaxRevisions \in Nat /\ (Names(k) = {} <=> Count(k) = 0)
  BY NamesFinite, StoreAssumption
<1>2. CASE k \notin dirs \/ Names(k) = {}
  <2>1. Names(k) = {} /\ Count(k) = 0 /\ Contents(k) = None
    BY <1>1, <1>2 DEF DiskStands, Contents
  <2> QED BY <2>1 DEF Answers, None, Refused, WholeUpTo
<1>3. CASE ~(k \notin dirs \/ Names(k) = {})
  <2>1. Count(k) \in 1 .. MaxRevisions
    BY <1>1, <1>3
  <2>2. CASE Names(k) # 1 .. Count(k) \/ files[k][Count(k)] = Torn
    <3>1. Contents(k) = Refused
      BY <1>3, <2>2 DEF Contents
    <3>2. ~(Names(k) = 1 .. Count(k) /\ WholeUpTo(k, Count(k)))
      BY <2>1, <2>2 DEF WholeUpTo
    <3> QED BY <3>1, <3>2 DEF DiskStands, Answers
  <2>3. CASE ~(Names(k) # 1 .. Count(k) \/ files[k][Count(k)] = Torn)
    <3>1. Contents(k) = Record(Count(k), files[k][Count(k)])
      BY <1>3, <2>3 DEF Contents
    <3>2. Count(k) \in Names(k) /\ Count(k) \in Revisions /\ files[k][Count(k)] \in Values
      <4>1. Count(k) \in Names(k)
        BY <2>1, <2>3
      <4>2. Count(k) \in Revisions /\ files[k][Count(k)] # Missing
        BY <4>1 DEF Names
      <4> QED BY <4>1, <4>2, <2>3 DEF TypeOK
    <3>3. WholeUpTo(k, Count(k))
      <4> SUFFICES ASSUME NEW n \in 1 .. Count(k), files[k][n] = Torn
                   PROVE  FALSE
        BY DEF WholeUpTo
      <4>1. Names(k) \subseteq 1 .. n
        BY <2>3 DEF DiskStands
      <4> QED BY <4>1, <3>2, <2>1, <2>3
    <3> QED BY <3>1, <3>2, <3>3, <2>3 DEF Answers, Record, None, Refused
  <2> QED BY <2>2, <2>3
<1> QED BY <1>2, <1>3

(* What writing one file of a record does to the disk. *)
LEMMA OneFile ==
  ASSUME TypeOK, NEW k \in Keys, NEW r \in Revisions, NEW value \in Values \cup {Torn, Missing},
         files' = [files EXCEPT ![k][r] = value]
  PROVE  /\ files' \in [Keys -> [Revisions -> Values \cup {Torn, Missing}]]
         /\ \A n \in Revisions : files'[k][n] = IF n = r THEN value ELSE files[k][n]
         /\ \A j \in Keys \ {k} : files'[j] = files[j] /\ Names(j)' = Names(j) /\ Count(j)' = Count(j)
         /\ Names(k)' = IF value = Missing THEN Names(k) \ {r} ELSE Names(k) \cup {r}
<1>1. files' \in [Keys -> [Revisions -> Values \cup {Torn, Missing}]]
  BY DEF TypeOK
<1>2. \A n \in Revisions : files'[k][n] = IF n = r THEN value ELSE files[k][n]
  BY DEF TypeOK
<1>3. \A j \in Keys \ {k} : files'[j] = files[j]
  BY DEF TypeOK
<1>4. \A j \in Keys \ {k} : Names(j)' = Names(j) /\ Count(j)' = Count(j)
  BY <1>3 DEF Names, Count
<1>5. Names(k)' = IF value = Missing THEN Names(k) \ {r} ELSE Names(k) \cup {r}
  BY <1>2 DEF Names
<1> QED BY <1>1, <1>2, <1>3, <1>4, <1>5
-----------------------------------------------------------------------------
(* Between two operations nothing is under way. *)
LEMMA AtRest ==
  ASSUME stage' = "start"
  PROVE  /\ StageStands' /\ SaveStands' /\ RemovalStands'
         /\ \A k \in Keys : Quiet(k)'
<1> QED BY DEF StageStands, SaveStands, RemovalStands, Quiet, Touching

(* The operation at the head leaves the queue with an answer of the right type. *)
LEMMA Settles ==
  ASSUME TypeOK, queue # <<>>, NEW answer \in Answers, Settle(answer)
  PROVE  /\ reply' \in [Clients -> Answers] /\ request' \in [Clients -> Operations \cup {Idle}]
         /\ queue' \in Seq(Clients) /\ IsInjective(queue')
         /\ ToSet(queue') = {c \in Clients : request'[c] # Idle}
         /\ stage' = "start"
         /\ request'[Head(queue)] = Idle /\ reply'[Head(queue)] = answer
         /\ \A c \in Clients \ {Head(queue)} : request'[c] = request[c] /\ reply'[c] = reply[c]
<1>1. /\ Head(queue) \in Clients
      /\ request' = [request EXCEPT ![Head(queue)] = Idle]
      /\ reply' = [reply EXCEPT ![Head(queue)] = answer]
      /\ queue' = Tail(queue) /\ stage' = "start"
  BY HeadOfQueue DEF Settle
<1>2. queue' \in Seq(Clients) /\ IsInjective(queue') /\ ToSet(queue') = ToSet(queue) \ {Head(queue)}
  BY <1>1, HeadOfQueue
<1>3. request' \in [Clients -> Operations \cup {Idle}] /\ reply' \in [Clients -> Answers]
  BY <1>1 DEF TypeOK
<1>4. /\ request'[Head(queue)] = Idle /\ reply'[Head(queue)] = answer
      /\ \A c \in Clients \ {Head(queue)} : request'[c] = request[c] /\ reply'[c] = reply[c]
  BY <1>1 DEF TypeOK
<1>5. ToSet(queue') = {c \in Clients : request'[c] # Idle}
  BY <1>1, <1>2, <1>4 DEF TypeOK
<1> QED BY <1>1, <1>2, <1>3, <1>4, <1>5

(* The disk stands as it did when nothing on it changes and nothing is under way afterwards,
   unless an operation is cut off that was writing: then its record counts as damaged. *)
LEMMA DiskLeftAlone ==
  ASSUME DiskStands, stage' = "start", UNCHANGED <<dirs, files>>, damaged \subseteq damaged',
         Touching => Current.key \in damaged'
  PROVE  DiskStands'
<1>1. \A k \in Keys : Names(k)' = Names(k) /\ Count(k)' = Count(k)
                      /\ \A m : WholeUpTo(k, m)' <=> WholeUpTo(k, m)
  BY DEF Names, Count, WholeUpTo
<1>2. ASSUME NEW k \in Keys \ damaged'
      PROVE  (Names(k) = 1 .. Count(k) /\ WholeUpTo(k, Count(k)))'
  <2>1. k \in Keys \ damaged /\ Quiet(k)
    BY DEF Quiet
  <2>2. Names(k) = 1 .. Count(k) /\ WholeUpTo(k, Count(k))
    BY <2>1 DEF DiskStands
  <2>3. WholeUpTo(k, Count(k))'
    BY <2>2, <1>1
  <2> QED BY <2>2, <2>3, <1>1
<1>3. /\ \A k \in Keys \ dirs' : Names(k)' = {}
      /\ IsFiniteSet(dirs') /\ Cardinality(dirs') <= MaxRecords
      /\ \A k \in Keys : \A n \in Names(k)' : files'[k][n] = Torn => Names(k)' \subseteq 1 .. n
  BY <1>1 DEF DiskStands
<1> QED BY <1>2, <1>3 DEF DiskStands

(* An operation that ends without having touched the disk keeps everything. *)
LEMMA EndsUntouched ==
  ASSUME StoreInv, queue # <<>>, NEW answer \in Answers, Settle(answer), stage = "start",
         UNCHANGED <<dirs, files, before, damaged, failures>>
  PROVE  StoreInv'
<1> USE DEF StoreInv
<1>1. TypeOK'
  BY Settles DEF TypeOK
<1>2. stage' = "start" /\ ~Touching
  BY DEF Settle, Touching
<1>3. DiskStands'
  BY <1>2, DiskLeftAlone
<1> QED BY <1>1, <1>2, <1>3, AtRest

LEMMA ReadKeeps == StoreInv /\ Read => StoreInv'
<1> SUFFICES ASSUME StoreInv, Read PROVE StoreInv'
  OBVIOUS
<1>1. queue # <<>> /\ stage = "start" /\ Current.op = "read" /\ Settle(Contents(Current.key))
  BY DEF Read, Running
<1>2. Contents(Current.key) \in Answers
  BY <1>1, CurrentTypes, ContentsFacts DEF StoreInv
<1> QED BY <1>1, <1>2, EndsUntouched DEF Read

LEMMA EntriesKeeps == StoreInv /\ Entries => StoreInv'
<1> SUFFICES ASSUME StoreInv, Entries PROVE StoreInv'
  OBVIOUS
<1> DEFINE list == [found |-> "list", keys |-> {k \in dirs : Contents(k) # None}]
<1>1. queue # <<>> /\ stage = "start"
  BY DEF Entries, Running
<1>2. Refused \in Answers /\ list \in Answers
  BY DEF Answers, StoreInv, TypeOK
<1>3. Settle(Refused) \/ Settle(list)
  BY DEF Entries
<1> HIDE DEF list
<1>4. CASE Settle(Refused)
  BY <1>1, <1>2, <1>4, EndsUntouched DEF Entries
<1>5. CASE Settle(list)
  BY <1>1, <1>2, <1>5, EndsUntouched DEF Entries
<1> QED BY <1>3, <1>4, <1>5

LEMMA CallKeeps ==
  ASSUME StoreInv, NEW c \in Clients, NEW operation \in Operations, Call(c, operation)
  PROVE  StoreInv'
<1> USE DEF StoreInv
<1>1. /\ request[c] = Idle /\ request' = [request EXCEPT ![c] = operation]
      /\ queue' = Append(queue, c) /\ reply' = [reply EXCEPT ![c] = None]
      /\ UNCHANGED <<dirs, files, stage, before, damaged, failures>>
  BY DEF Call
<1>2. operation # Idle
  BY DEF Operations, Idle
<1>3. TypeOK'
  <2>1. /\ request' \in [Clients -> Operations \cup {Idle}] /\ reply' \in [Clients -> Answers]
        /\ \A d \in Clients : request'[d] = IF d = c THEN operation ELSE request[d]
    BY <1>1 DEF TypeOK, Answers
  <2>2. queue' \in Seq(Clients) /\ IsInjective(queue') /\ ToSet(queue') = ToSet(queue) \cup {c}
    BY <1>1, BackOfQueue
  <2>3. ToSet(queue') = {d \in Clients : request'[d] # Idle}
    BY <1>1, <1>2, <2>1, <2>2 DEF TypeOK
  <2> QED BY <1>1, <2>1, <2>2, <2>3 DEF TypeOK
<1>4. queue' # <<>> /\ (stage # "start" => Current' = Current)
  <2>1. queue' # <<>> /\ (queue # <<>> => Head(queue') = Head(queue) /\ Head(queue) # c /\ Head(queue) \in Clients)
    BY <1>1, BackOfQueue, HeadOfQueue
  <2>2. stage # "start" => queue # <<>>
    BY DEF StageStands
  <2> QED BY <1>1, <2>1, <2>2 DEF Current, TypeOK
<1>5. \A k \in Keys : Names(k)' = Names(k) /\ Count(k)' = Count(k)
                      /\ \A m : WholeUpTo(k, m)' <=> WholeUpTo(k, m)
  BY <1>1 DEF Names, Count, WholeUpTo
<1>6. CASE stage = "start"
  BY <1>1, <1>3, <1>6, AtRest, DiskLeftAlone DEF Touching
<1>7. CASE stage # "start"
  <2>1. StageStands'
    BY <1>1, <1>4, <1>7 DEF StageStands, Room
  <2>2. Current.key \in Keys
    BY <1>7, CurrentTypes DEF StageStands, TypeOK
  <2>3. SaveStands' /\ RemovalStands'
    BY <1>1, <1>4, <1>5, <1>7, <2>2 DEF SaveStands, RemovalStands, WholeUpTo, Names
  <2>4. \A k \in Keys : Quiet(k)' <=> Quiet(k)
    BY <1>1, <1>4, <1>7 DEF Quiet, Touching
  <2>5. DiskStands'
    BY <1>1, <1>5, <2>4 DEF DiskStands
  <2> QED BY <1>3, <2>1, <2>3, <2>5
<1> QED BY <1>6, <1>7
-----------------------------------------------------------------------------
(* The save at the head: its key, the revision it extends and the one it writes. *)
LEMMA SaveFacts ==
  ASSUME TypeOK, StageStands, queue # <<>>, Current.op = "save"
  PROVE  /\ Current.key \in Keys /\ Current.data \in Values /\ Current.data # Torn /\ Current.data # Missing
         /\ Current.expected \in Nat /\ MaxRevisions \in Nat
         /\ stage \in {"mkdir", "create", "write", "sync"} => Current.expected + 1 \in Revisions
<1> QED BY CurrentTypes, StoreAssumption DEF StageStands, Revisions

LEMMA SaveBeginKeeps == StoreInv /\ SaveBegin => StoreInv'
<1> SUFFICES ASSUME StoreInv, SaveBegin PROVE StoreInv'
  OBVIOUS
<1> USE DEF StoreInv
<1>1. queue # <<>> /\ stage = "start" /\ Current.op = "save" /\ UNCHANGED <<dirs, files, before, damaged, failures>>
  BY DEF SaveBegin, Running
<1>2. CASE ~(Room(Current.key) /\ Expected(Current.key, Current.expected))
  <2>1. Settle(Refused) /\ Refused \in Answers
    BY <1>2 DEF SaveBegin, Answers
  <2> QED BY <1>1, <2>1, EndsUntouched
<1>3. CASE Room(Current.key) /\ Expected(Current.key, Current.expected)
  <2> DEFINE k == Current.key
             m == Current.expected
  <2>1. stage' = "mkdir" /\ UNCHANGED <<request, queue, reply>> /\ Current' = Current
    BY <1>3 DEF SaveBegin, Current
  <2>2. k \in Keys /\ m \in Nat /\ m < MaxRevisions
    BY <1>1, <1>3, SaveFacts DEF Expected
  <2>3. Names(k) = 1 .. m /\ WholeUpTo(k, m)
    <3>1. Names(k) = 1 .. Count(k) /\ WholeUpTo(k, Count(k)) /\ m = Count(k)
      BY <1>3, <2>2, ContentsFacts DEF Expected
    <3> QED BY <3>1
  <2> HIDE DEF k, m
  <2>4. \A j \in Keys : Names(j)' = Names(j) /\ Count(j)' = Count(j) /\ (\A n : WholeUpTo(j, n)' <=> WholeUpTo(j, n))
    BY <1>1 DEF Names, Count, WholeUpTo
  <2>5. TypeOK'
    BY <1>1, <2>1 DEF TypeOK
  <2>6. StageStands'
    BY <1>1, <1>3, <2>1, <2>2 DEF StageStands, Room, k, m
  <2>7. SaveStands'
    BY <2>1, <2>2, <2>3, <2>4 DEF SaveStands, k, m
  <2>8. RemovalStands'
    BY <2>1 DEF RemovalStands
  <2>9. DiskStands'
    <3>1. \A j \in Keys : Quiet(j) /\ Quiet(j)'
      BY <1>1, <2>1 DEF Quiet, Touching
    <3> QED BY <1>1, <2>4, <3>1 DEF DiskStands
  <2> QED BY <2>5, <2>6, <2>7, <2>8, <2>9
<1> QED BY <1>2, <1>3

LEMMA SaveMkdirKeeps == StoreInv /\ SaveMkdir => StoreInv'
<1> SUFFICES ASSUME StoreInv, SaveMkdir PROVE StoreInv'
  OBVIOUS
<1> USE DEF StoreInv
<1>0. PICK k, m : k = Current.key /\ m = Current.expected
  OBVIOUS
<1>1. queue # <<>> /\ stage = "mkdir" /\ Current.op = "save" /\ dirs' = dirs \cup {k} /\ stage' = "create"
      /\ UNCHANGED <<files, request, queue, reply, before, damaged, failures>> /\ Current' = Current
  BY <1>0 DEF SaveMkdir, Running, Current
<1>2. k \in Keys /\ m \in Nat /\ m < MaxRevisions /\ Names(k) = 1 .. m /\ WholeUpTo(k, m)
  BY <1>0, <1>1, SaveFacts DEF StageStands, SaveStands
<1>3. IsFiniteSet(dirs') /\ Cardinality(dirs') <= MaxRecords
  <2>1. Cardinality(dirs) <= MaxRecords /\ (k \in dirs \/ Cardinality(dirs) < MaxRecords)
    BY <1>0, <1>1 DEF StageStands, Room
  <2>2. IsFiniteSet(dirs) /\ Cardinality(dirs) \in Nat /\ MaxRecords \in Nat
    BY FS_CardinalityType, StoreAssumption DEF DiskStands
  <2>3. /\ IsFiniteSet(dirs \cup {k})
        /\ Cardinality(dirs \cup {k}) = IF k \in dirs THEN Cardinality(dirs) ELSE Cardinality(dirs) + 1
    BY <2>2, FS_AddElement
  <2> QED BY <1>1, <2>1, <2>2, <2>3
<1>4. \A j \in Keys : Names(j)' = Names(j) /\ Count(j)' = Count(j) /\ (\A n : WholeUpTo(j, n)' <=> WholeUpTo(j, n))
  BY <1>1 DEF Names, Count, WholeUpTo
<1>5. TypeOK'
  BY <1>1, <1>2 DEF TypeOK
<1>6. StageStands'
  BY <1>0, <1>1, <1>2 DEF StageStands
<1>7. SaveStands'
  BY <1>0, <1>1, <1>2, <1>4 DEF SaveStands
<1>8. RemovalStands'
  BY <1>1 DEF RemovalStands
<1>9. DiskStands'
  <2>1. \A j \in Keys : Quiet(j) /\ Quiet(j)'
    BY <1>1 DEF Quiet, Touching
  <2> QED BY <1>1, <1>3, <1>4, <2>1 DEF DiskStands
<1> QED BY <1>5, <1>6, <1>7, <1>8, <1>9

LEMMA SaveCreateKeeps == StoreInv /\ SaveCreate => StoreInv'
<1> SUFFICES ASSUME StoreInv, SaveCreate PROVE StoreInv'
  OBVIOUS
<1> USE DEF StoreInv
<1>0. PICK k, m : k = Current.key /\ m = Current.expected
  OBVIOUS
<1>1. queue # <<>> /\ stage = "create" /\ Current.op = "save" /\ stage' = "write"
      /\ files' = [files EXCEPT ![k][m + 1] = Torn]
      /\ UNCHANGED <<dirs, request, queue, reply, before, damaged, failures>> /\ Current' = Current
  BY <1>0 DEF SaveCreate, Running, Current
<1>2. k \in Keys /\ m \in Nat /\ m < MaxRevisions /\ Names(k) = 1 .. m /\ WholeUpTo(k, m)
      /\ m + 1 \in Revisions /\ k \in dirs
  BY <1>0, <1>1, SaveFacts DEF StageStands, SaveStands
<1>3. Torn \in Values \cup {Torn, Missing} /\ Torn # Missing
  BY StoreAssumption
<1>4. /\ files' \in [Keys -> [Revisions -> Values \cup {Torn, Missing}]]
      /\ \A n \in Revisions : files'[k][n] = IF n = m + 1 THEN Torn ELSE files[k][n]
      /\ \A j \in Keys \ {k} : files'[j] = files[j] /\ Names(j)' = Names(j) /\ Count(j)' = Count(j)
      /\ Names(k)' = Names(k) \cup {m + 1}
  BY <1>1, <1>2, <1>3, OneFile
<1>5. Names(k)' = 1 .. (m + 1) /\ (1 .. m) \subseteq Revisions
  <2>1. (1 .. m) \cup {m + 1} = 1 .. (m + 1)
    BY <1>2
  <2>2. Names(k) \subseteq Revisions
    BY DEF Names
  <2> QED BY <1>2, <1>4, <2>1, <2>2
<1>6. WholeUpTo(k, m)' /\ \A j \in Keys \ {k} : \A n : WholeUpTo(j, n)' <=> WholeUpTo(j, n)
  BY <1>2, <1>4, <1>5 DEF WholeUpTo
<1>7. TypeOK'
  BY <1>1, <1>4 DEF TypeOK
<1>8. StageStands'
  BY <1>0, <1>1, <1>2 DEF StageStands
<1>9. SaveStands'
  BY <1>0, <1>1, <1>2, <1>4, <1>5, <1>6 DEF SaveStands
<1>10. RemovalStands'
  BY <1>1 DEF RemovalStands
<1>11. DiskStands'
  <2>1. ~Quiet(k)' /\ \A j \in Keys \ {k} : Quiet(j) /\ Quiet(j)'
    BY <1>0, <1>1 DEF Quiet, Touching
  <2>2. \A n \in Names(k)' : files'[k][n] = Torn => Names(k)' \subseteq 1 .. n
    <3> SUFFICES ASSUME NEW n \in 1 .. (m + 1), files'[k][n] = Torn
                 PROVE  n = m + 1
      BY <1>5
    <3>1. n \in 1 .. m => files'[k][n] # Torn
      BY <1>6 DEF WholeUpTo
    <3> QED BY <3>1, <1>2
  <2> QED BY <1>1, <1>2, <1>4, <1>6, <2>1, <2>2 DEF DiskStands
<1> QED BY <1>7, <1>8, <1>9, <1>10, <1>11

LEMMA SaveWriteKeeps == StoreInv /\ SaveWrite => StoreInv'
<1> SUFFICES ASSUME StoreInv, SaveWrite PROVE StoreInv'
  OBVIOUS
<1> USE DEF StoreInv
<1>0. PICK k, m, d : k = Current.key /\ m = Current.expected /\ d = Current.data
  OBVIOUS
<1>1. queue # <<>> /\ stage = "write" /\ Current.op = "save" /\ stage' = "sync"
      /\ files' = [files EXCEPT ![k][m + 1] = d]
      /\ UNCHANGED <<dirs, request, queue, reply, before, damaged, failures>> /\ Current' = Current
  BY <1>0 DEF SaveWrite, Running, Current
<1>2. k \in Keys /\ m \in Nat /\ m < MaxRevisions /\ Names(k) = 1 .. (m + 1) /\ WholeUpTo(k, m)
      /\ m + 1 \in Revisions /\ k \in dirs /\ d \in Values /\ d # Torn /\ d # Missing
  BY <1>0, <1>1, SaveFacts DEF StageStands, SaveStands
<1>4. /\ files' \in [Keys -> [Revisions -> Values \cup {Torn, Missing}]]
      /\ \A n \in Revisions : files'[k][n] = IF n = m + 1 THEN d ELSE files[k][n]
      /\ \A j \in Keys \ {k} : files'[j] = files[j] /\ Names(j)' = Names(j) /\ Count(j)' = Count(j)
      /\ Names(k)' = Names(k) \cup {m + 1}
  BY <1>1, <1>2, OneFile
<1>5. Names(k)' = 1 .. (m + 1) /\ (1 .. (m + 1)) \subseteq Revisions
  BY <1>2, <1>4 DEF Names
<1>6. /\ WholeUpTo(k, m)' /\ \A n \in 1 .. (m + 1) : files'[k][n] # Torn
      /\ \A j \in Keys \ {k} : \A n : WholeUpTo(j, n)' <=> WholeUpTo(j, n)
  BY <1>2, <1>4, <1>5 DEF WholeUpTo
<1>7. TypeOK'
  BY <1>1, <1>4 DEF TypeOK
<1>8. StageStands'
  BY <1>0, <1>1, <1>2 DEF StageStands
<1>9. SaveStands'
  BY <1>0, <1>1, <1>2, <1>4, <1>5, <1>6 DEF SaveStands
<1>10. RemovalStands'
  BY <1>1 DEF RemovalStands
<1>11. DiskStands'
  <2>1. ~Quiet(k)' /\ \A j \in Keys \ {k} : Quiet(j) /\ Quiet(j)'
    BY <1>0, <1>1 DEF Quiet, Touching
  <2> QED BY <1>1, <1>2, <1>4, <1>5, <1>6, <2>1 DEF DiskStands
<1> QED BY <1>7, <1>8, <1>9, <1>10, <1>11

LEMMA SaveSyncKeeps == StoreInv /\ SaveSync => StoreInv'
<1> SUFFICES ASSUME StoreInv, SaveSync PROVE StoreInv'
  OBVIOUS
<1> USE DEF StoreInv
<1>0. PICK k, m, d : k = Current.key /\ m = Current.expected /\ d = Current.data
  OBVIOUS
<1>1. queue # <<>> /\ stage = "sync" /\ Current.op = "save" /\ Settle(Record(m + 1, d))
      /\ UNCHANGED <<dirs, files, before, damaged, failures>>
  BY <1>0 DEF SaveSync, Running
<1>2. k \in Keys /\ m \in Nat /\ Names(k) = 1 .. (m + 1) /\ WholeUpTo(k, m) /\ files[k][m + 1] = d
      /\ m + 1 \in Revisions /\ d \in Values /\ d # Torn
  BY <1>0, <1>1, SaveFacts DEF StageStands, SaveStands
<1>3. Record(m + 1, d) \in Answers
  BY <1>2 DEF Answers, Record
<1>4. TypeOK' /\ stage' = "start"
  BY <1>1, <1>3, Settles DEF TypeOK
<1>5. Count(k) = m + 1 /\ WholeUpTo(k, m + 1)
  BY <1>2, NamesFinite DEF WholeUpTo
<1>6. \A j \in Keys : Names(j)' = Names(j) /\ Count(j)' = Count(j) /\ (\A n : WholeUpTo(j, n)' <=> WholeUpTo(j, n))
  BY <1>1 DEF Names, Count, WholeUpTo
<1>7. DiskStands'
  <2>1. \A j \in Keys \ {k} : Quiet(j)
    BY <1>0 DEF Quiet
  <2>2. \A j \in Keys \ damaged : (Names(j) = 1 .. Count(j) /\ WholeUpTo(j, Count(j)))'
    BY <1>2, <1>5, <1>6, <2>1 DEF DiskStands
  <2> QED BY <1>1, <1>6, <2>2 DEF DiskStands
<1> QED BY <1>4, <1>7, AtRest
-----------------------------------------------------------------------------
LEMMA RemoveBeginKeeps == StoreInv /\ RemoveBegin => StoreInv'
<1> SUFFICES ASSUME StoreInv, RemoveBegin PROVE StoreInv'
  OBVIOUS
<1> USE DEF StoreInv
<1>0. PICK k : k = Current.key
  OBVIOUS
<1>1. queue # <<>> /\ stage = "start" /\ Current.op = "remove" /\ k \in Keys /\ UNCHANGED <<dirs, files, damaged, failures>>
  BY <1>0, CurrentTypes DEF RemoveBegin, Running
<1>2. CASE k \notin dirs
  <2>1. Settle(None) /\ None \in Answers /\ UNCHANGED before
    BY <1>0, <1>2 DEF RemoveBegin, Answers
  <2> QED BY <1>1, <2>1, EndsUntouched
<1>3. CASE k \in dirs
  <2>1. stage' = "rm" /\ before' = Log(k) /\ UNCHANGED <<request, queue, reply>> /\ Current' = Current
    BY <1>0, <1>3 DEF RemoveBegin, Current
  <2>2. Count(k) \in Nat /\ Count(k) <= MaxRevisions /\ MaxRevisions \in Nat
        /\ \A m \in Nat : Names(k) = 1 .. m => Count(k) = m
    BY <1>1, NamesFinite, StoreAssumption
  <2>3. \A n \in Names(k) : n \in Revisions /\ files[k][n] \in Values \cup {Torn}
    BY <1>1 DEF Names, TypeOK
  <2>4. \A j \in Keys : Names(j)' = Names(j) /\ Count(j)' = Count(j) /\ (\A n : WholeUpTo(j, n)' <=> WholeUpTo(j, n))
    BY <1>1 DEF Names, Count, WholeUpTo
  <2>5. before' \in Seq(Values \cup {Torn})
    <3>1. CASE Names(k) = 1 .. Count(k)
      BY <2>1, <2>2, <2>3, <3>1 DEF Log
    <3>2. CASE Names(k) # 1 .. Count(k)
      BY <2>1, <3>2 DEF Log
    <3> QED BY <3>1, <3>2
  <2>6. TypeOK'
    BY <1>1, <2>1, <2>5 DEF TypeOK
  <2>7. StageStands'
    BY <1>0, <1>1, <1>3, <2>1 DEF StageStands
  <2>8. SaveStands'
    BY <2>1 DEF SaveStands
  <2>9. RemovalStands'
    <3>1. CASE Names(k) = 1 .. Count(k)
      <4>1. before' = [n \in 1 .. Count(k) |-> files[k][n]] /\ Len(before') = Count(k)
        BY <2>1, <2>2, <3>1 DEF Log
      <4> QED BY <1>0, <1>1, <2>1, <2>4, <3>1, <4>1 DEF RemovalStands
    <3>2. CASE Names(k) # 1 .. Count(k)
      <4>1. before' = <<Torn>>
        BY <2>1, <3>2 DEF Log
      <4>2. \A n \in Names(k) : Names(k) # 1 .. n
        BY <2>2, <2>3, <3>2 DEF Revisions
      <4> QED BY <1>0, <1>1, <2>1, <2>4, <4>1, <4>2 DEF RemovalStands
    <3> QED BY <3>1, <3>2
  <2>10. DiskStands'
    <3>1. \A j \in Keys : Quiet(j) /\ (Quiet(j)' => j # k)
      BY <1>0, <1>1, <2>1 DEF Quiet, Touching
    <3> QED BY <1>1, <2>4, <3>1 DEF DiskStands
  <2> QED BY <2>6, <2>7, <2>8, <2>9, <2>10
<1> QED BY <1>2, <1>3

LEMMA RemoveFileKeeps == StoreInv /\ RemoveFile => StoreInv'
<1> SUFFICES ASSUME StoreInv, RemoveFile PROVE StoreInv'
  OBVIOUS
<1> USE DEF StoreInv
<1>0. PICK k : k = Current.key
  OBVIOUS
<1>1. queue # <<>> /\ stage = "rm" /\ Current.op = "remove" /\ k \in Keys /\ k \in dirs
      /\ UNCHANGED <<dirs, request, queue, stage, reply, before, damaged, failures>> /\ Current' = Current
  BY <1>0, CurrentTypes DEF RemoveFile, Running, StageStands, Current
<1>2. PICK r \in Names(k) : files' = [files EXCEPT ![k][r] = Missing]
  BY <1>0 DEF RemoveFile
<1>3. r \in Revisions
  BY <1>2 DEF Names
<1>4. /\ files' \in [Keys -> [Revisions -> Values \cup {Torn, Missing}]]
      /\ \A n \in Revisions : files'[k][n] = IF n = r THEN Missing ELSE files[k][n]
      /\ \A j \in Keys \ {k} : files'[j] = files[j] /\ Names(j)' = Names(j) /\ Count(j)' = Count(j)
      /\ Names(k)' = Names(k) \ {r}
  BY <1>1, <1>2, <1>3, OneFile
<1>5. \A n \in Names(k)' : n \in Names(k) /\ n # r /\ n \in Revisions /\ n \in Nat /\ files'[k][n] = files[k][n]
  BY <1>4 DEF Names, Revisions
<1>6. TypeOK'
  BY <1>1, <1>4 DEF TypeOK
<1>7. StageStands'
  BY <1>1 DEF StageStands
<1>8. SaveStands'
  BY <1>1 DEF SaveStands
<1>9. RemovalStands'
  <2>1. CASE /\ Names(k) \subseteq 1 .. Len(before)
             /\ \A n \in Names(k) : before[n] = files[k][n]
    BY <1>0, <1>1, <1>4, <1>5, <2>1 DEF RemovalStands
  <2>2. CASE before = <<Torn>> /\ \A n \in Names(k) : files[k][n] = Torn => Names(k) # 1 .. n
    <3>1. ASSUME NEW n \in Names(k)', files'[k][n] = Torn
          PROVE  Names(k)' # 1 .. n
      <4>1. Names(k) \subseteq 1 .. n /\ Names(k) # 1 .. n /\ n \in Names(k)
        BY <1>1, <1>5, <2>2, <3>1 DEF DiskStands
      <4>2. PICK gap \in 1 .. n : gap \notin Names(k)
        BY <4>1
      <4> QED BY <1>5, <4>2
    <3> QED BY <1>0, <1>1, <2>2, <3>1 DEF RemovalStands
  <2> QED BY <1>0, <1>1, <2>1, <2>2 DEF RemovalStands
<1>10. DiskStands'
  <2>1. ~Quiet(k)' /\ \A j \in Keys \ {k} : Quiet(j) /\ Quiet(j)'
    BY <1>0, <1>1 DEF Quiet, Touching
  <2>2. \A n \in Names(k)' : files'[k][n] = Torn => Names(k)' \subseteq 1 .. n
    BY <1>1, <1>5 DEF DiskStands
  <2>3. \A j \in Keys \ {k} : \A n : WholeUpTo(j, n)' <=> WholeUpTo(j, n)
    BY <1>4 DEF WholeUpTo
  <2> QED BY <1>1, <1>4, <2>1, <2>2, <2>3 DEF DiskStands
<1> QED BY <1>6, <1>7, <1>8, <1>9, <1>10

LEMMA RemoveDirectoryKeeps == StoreInv /\ RemoveDirectory => StoreInv'
<1> SUFFICES ASSUME StoreInv, RemoveDirectory PROVE StoreInv'
  OBVIOUS
<1> USE DEF StoreInv
<1> DEFINE removed == [found |-> "removed"]
<1>0. PICK k : k = Current.key
  OBVIOUS
<1>1. queue # <<>> /\ stage = "rm" /\ Current.op = "remove" /\ k \in Keys /\ Names(k) = {} /\ dirs' = dirs \ {k}
      /\ Settle(removed) /\ before' = <<>> /\ damaged' = damaged \ {k} /\ UNCHANGED <<files, failures>>
  BY <1>0, CurrentTypes DEF RemoveDirectory, Running, StageStands
<1>2. removed \in Answers
  BY DEF Answers
<1> HIDE DEF removed
<1>3. TypeOK' /\ stage' = "start"
  BY <1>1, <1>2, Settles, EmptySeq DEF TypeOK
<1>4. \A j \in Keys : Names(j)' = Names(j) /\ Count(j)' = Count(j) /\ (\A n : WholeUpTo(j, n)' <=> WholeUpTo(j, n))
  BY <1>1 DEF Names, Count, WholeUpTo
<1>5. IsFiniteSet(dirs') /\ Cardinality(dirs') <= MaxRecords
  <2>1. IsFiniteSet(dirs) /\ Cardinality(dirs) \in Nat /\ MaxRecords \in Nat /\ Cardinality(dirs) <= MaxRecords
    BY FS_CardinalityType, StoreAssumption DEF DiskStands
  <2>2. /\ IsFiniteSet(dirs \ {k})
        /\ Cardinality(dirs \ {k}) = IF k \in dirs THEN Cardinality(dirs) - 1 ELSE Cardinality(dirs)
    BY <2>1, FS_RemoveElement
  <2> QED BY <1>1, <2>1, <2>2
<1>6. Count(k) = 0
  BY <1>1, NamesFinite
<1>7. DiskStands'
  <2>1. \A j \in Keys \ {k} : Quiet(j)
    BY <1>0 DEF Quiet
  <2>2. Names(k) = 1 .. Count(k) /\ WholeUpTo(k, Count(k))
    BY <1>1, <1>6 DEF WholeUpTo
  <2>3. \A j \in Keys \ damaged' : (Names(j) = 1 .. Count(j) /\ WholeUpTo(j, Count(j)))'
    BY <1>1, <1>4, <2>1, <2>2 DEF DiskStands
  <2>4. \A j \in Keys \ dirs' : Names(j)' = {}
    BY <1>1, <1>4 DEF DiskStands
  <2>5. \A j \in Keys : \A n \in Names(j)' : files'[j][n] = Torn => Names(j)' \subseteq 1 .. n
    BY <1>1, <1>4 DEF DiskStands
  <2> QED BY <1>5, <2>3, <2>4, <2>5 DEF DiskStands
<1> QED BY <1>3, <1>7, AtRest

(* A failure and a crash leave the disk as it is and count the record that was being written. *)
LEMMA FailKeeps == StoreInv /\ Fail => StoreInv'
<1> SUFFICES ASSUME StoreInv, Fail PROVE StoreInv'
  OBVIOUS
<1> USE DEF StoreInv
<1>1. queue # <<>> /\ Settle(Refused) /\ Refused \in Answers /\ before' = <<>> /\ UNCHANGED <<dirs, files>>
      /\ failures < MaxFailures /\ failures' = failures + 1
  BY DEF Fail, Answers
<1>2. /\ damaged' \in SUBSET Keys /\ damaged \subseteq damaged'
      /\ Touching => Current.key \in damaged'
  BY <1>1, CurrentTypes DEF Fail, TypeOK, Touching, StageStands
<1>3. failures' \in 0 .. MaxFailures
  BY <1>1, StoreAssumption DEF TypeOK
<1>4. TypeOK' /\ stage' = "start"
  BY <1>1, <1>2, <1>3, Settles, EmptySeq DEF TypeOK
<1> QED BY <1>1, <1>2, <1>4, DiskLeftAlone, AtRest

LEMMA CrashKeeps == StoreInv /\ Crash => StoreInv'
<1> SUFFICES ASSUME StoreInv, Crash PROVE StoreInv'
  OBVIOUS
<1> USE DEF StoreInv
<1>1. /\ request' = [c \in Clients |-> Idle] /\ queue' = <<>> /\ stage' = "start" /\ UNCHANGED <<dirs, files>>
      /\ reply' = [c \in Clients |-> None] /\ before' = <<>>
      /\ failures < MaxFailures /\ failures' = failures + 1
  BY DEF Crash
<1>2. /\ damaged' \in SUBSET Keys /\ damaged \subseteq damaged'
      /\ Touching => Current.key \in damaged'
  BY CurrentTypes DEF Crash, TypeOK, Touching, StageStands
<1>3. failures' \in 0 .. MaxFailures
  BY <1>1, StoreAssumption DEF TypeOK
<1>4. queue' \in Seq(Clients) /\ IsInjective(queue') /\ ToSet(queue') = {}
  BY <1>1, EmptySeq DEF IsInjective, ToSet
<1>5. TypeOK'
  BY <1>1, <1>2, <1>3, <1>4, EmptySeq DEF TypeOK, Answers
<1> QED BY <1>1, <1>2, <1>5, DiskLeftAlone, AtRest
-----------------------------------------------------------------------------
LEMMA StoreBegins == Init => StoreInv
<1> SUFFICES ASSUME Init PROVE StoreInv
  OBVIOUS
<1>1. /\ dirs = {} /\ files = [k \in Keys |-> [n \in Revisions |-> Missing]]
      /\ request = [c \in Clients |-> Idle] /\ queue = <<>> /\ stage = "start"
      /\ reply = [c \in Clients |-> None] /\ before = <<>> /\ damaged = {} /\ failures = 0
  BY DEF Init
<1>2. queue \in Seq(Clients) /\ IsInjective(queue) /\ ToSet(queue) = {}
  BY <1>1, EmptySeq DEF IsInjective, ToSet
<1>3. TypeOK
  BY <1>1, <1>2, EmptySeq, StoreAssumption DEF TypeOK, Answers
<1>4. StageStands /\ SaveStands /\ RemovalStands
  BY <1>1 DEF StageStands, SaveStands, RemovalStands
<1>5. \A k \in Keys : Names(k) = {}
  BY <1>1 DEF Names
<1>6. \A k \in Keys : Count(k) = 0
  BY <1>3, <1>5, NamesFinite
<1>7. DiskStands
  <2>1. IsFiniteSet(dirs) /\ Cardinality(dirs) <= MaxRecords
    BY <1>1, FS_EmptySet, StoreAssumption
  <2>2. \A k \in Keys : Names(k) = 1 .. Count(k) /\ WholeUpTo(k, Count(k))
    <3> SUFFICES ASSUME NEW k \in Keys
                 PROVE  Names(k) = 1 .. Count(k) /\ WholeUpTo(k, Count(k))
      OBVIOUS
    <3>1. Names(k) = {} /\ Count(k) = 0 /\ 1 .. 0 = {}
      BY <1>5, <1>6
    <3> QED BY <3>1 DEF WholeUpTo
  <2> QED BY <2>1, <2>2, <1>5 DEF DiskStands
<1> QED BY <1>3, <1>4, <1>7 DEF StoreInv

LEMMA StepKeeps == StoreInv /\ [Next]_vars => StoreInv'
<1> SUFFICES ASSUME StoreInv, [Next]_vars PROVE StoreInv'
  OBVIOUS
<1>1. CASE \E c \in Clients, operation \in Operations : Call(c, operation)
  BY <1>1, CallKeeps
<1>2. CASE Step
  BY <1>2, ReadKeeps, EntriesKeeps, SaveBeginKeeps, SaveMkdirKeeps, SaveCreateKeeps, SaveWriteKeeps,
     SaveSyncKeeps, RemoveBeginKeeps, RemoveFileKeeps, RemoveDirectoryKeeps DEF Step
<1>3. CASE Fail
  BY <1>3, FailKeeps
<1>4. CASE Crash
  BY <1>4, CrashKeeps
<1>5. CASE UNCHANGED vars
  BY <1>5 DEF vars, StoreInv, TypeOK, StageStands, SaveStands, RemovalStands, DiskStands, Current, Room,
              Names, Count, WholeUpTo, Quiet, Touching
<1> QED BY <1>1, <1>2, <1>3, <1>4, <1>5 DEF Next

(* The queue, the stages of saveUnlocked() and removeUnlocked() and the files agree after every
   step, failure and crash. *)
THEOREM StoreSafe == Spec => []StoreInv
<1> QED BY StoreBegins, StepKeeps, PTL DEF Spec

(* Only a save writes a file, and only one that is missing or torn; only a removal deletes. *)
LEMMA FilesStand ==
  ASSUME StoreInv, [Next]_vars, NEW k \in Keys, NEW n \in Revisions,
         files[k][n] \in Values, files'[k][n] # files[k][n]
  PROVE  Running("remove", "rm") /\ Current.key = k
<1> USE DEF StoreInv
<1>1. files' # files
  OBVIOUS
<1>2. SaveCreate \/ SaveWrite \/ RemoveFile
  BY <1>1 DEF Next, Step, vars, Call, Read, Entries, SaveBegin, SaveMkdir, SaveSync, RemoveBegin, RemoveDirectory,
              Fail, Crash
<1>3. Torn \notin Values /\ Missing \notin Values
  BY StoreAssumption
<1>4. ASSUME SaveCreate
      PROVE  FALSE
  <2>1. PICK key, m : key = Current.key /\ m = Current.expected
    OBVIOUS
  <2>2. queue # <<>> /\ stage = "create" /\ Current.op = "save" /\ files' = [files EXCEPT ![key][m + 1] = Torn]
    BY <1>4, <2>1 DEF SaveCreate, Running
  <2>3. key \in Keys /\ m \in Nat /\ m + 1 \in Revisions /\ Names(key) = 1 .. m
    BY <2>1, <2>2, SaveFacts DEF SaveStands
  <2>4. k = key /\ n = m + 1
    BY <2>2, <2>3 DEF TypeOK
  <2>5. n \in Names(k)
    BY <1>3 DEF Names
  <2> QED BY <2>3, <2>4, <2>5
<1>5. ASSUME SaveWrite
      PROVE  FALSE
  <2>1. PICK key, m, d : key = Current.key /\ m = Current.expected /\ d = Current.data
    OBVIOUS
  <2>2. queue # <<>> /\ stage = "write" /\ Current.op = "save" /\ files' = [files EXCEPT ![key][m + 1] = d]
    BY <1>5, <2>1 DEF SaveWrite, Running
  <2>3. key \in Keys /\ m + 1 \in Revisions /\ files[key][m + 1] = Torn
    BY <2>1, <2>2, SaveFacts DEF SaveStands
  <2> QED BY <1>3, <2>2, <2>3 DEF TypeOK
<1>6. ASSUME RemoveFile
      PROVE  Running("remove", "rm") /\ Current.key = k
  <2>1. PICK key : key = Current.key
    OBVIOUS
  <2>2. queue # <<>> /\ stage = "rm" /\ Current.op = "remove"
        /\ \E r \in Names(key) : files' = [files EXCEPT ![key][r] = Missing]
    BY <1>6, <2>1 DEF RemoveFile, Running
  <2>3. key = k
    BY <2>2 DEF TypeOK
  <2> QED BY <2>1, <2>3, <1>6 DEF RemoveFile
<1> QED BY <1>2, <1>4, <1>5, <1>6

(* Who is answered is the head of the queue, in the step that answers it; a read is refused when
   its record is damaged, a list when some record is. *)
LEMMA RefusalStands ==
  ASSUME StoreInv, [Next]_vars, NEW c \in Clients, request[c].op \in {"read", "entries"},
         request'[c] = Idle, reply'[c] = Refused
  PROVE  \/ failures' > failures
         \/ request[c].op = "read" /\ request[c].key \in damaged
         \/ request[c].op = "entries" /\ damaged # {}
<1> USE DEF StoreInv
<1>1. request[c] # Idle /\ request' # request
  BY DEF Idle
<1>2. CASE \E d \in Clients, operation \in Operations : Call(d, operation)
  <2>1. PICK d \in Clients, operation \in Operations : Call(d, operation)
    BY <1>2
  <2>2. operation # Idle /\ request' = [request EXCEPT ![d] = operation]
    BY <2>1 DEF Call, Operations, Idle
  <2> QED BY <1>1, <2>2 DEF TypeOK
<1>3. CASE Step
  <2>1. queue # <<>> /\ (Read \/ Entries \/ \E answer : Settle(answer) /\ Current.op \in {"save", "remove"})
    BY <1>1, <1>3 DEF Step, SaveBegin, SaveMkdir, SaveCreate, SaveWrite, SaveSync, RemoveBegin, RemoveFile,
                      RemoveDirectory, Running, Read, Entries
  <2>2. \E answer : Settle(answer)
    BY <2>1 DEF Read, Entries
  <2>3. c = Head(queue) /\ Current = request[c]
    BY <1>1, <2>2, HeadOfQueue DEF Settle, TypeOK, Current
  <2>4. CASE Read
    <3>1. Current.key \in Keys /\ stage = "start" /\ reply'[c] = Contents(Current.key)
      BY <2>1, <2>3, <2>4, CurrentTypes DEF Read, Running, Settle, TypeOK
    <3>2. Current.key \in damaged
      BY <3>1, ContentsFacts DEF Quiet, Touching
    <3> QED BY <2>3, <2>4, <3>2 DEF Read, Running
  <2>5. CASE Entries
    <3>1. stage = "start" /\ Current.op = "entries"
      BY <2>5 DEF Entries, Running
    <3>2. \E k \in dirs : Contents(k) = Refused
      <4> SUFFICES ASSUME ~(\E k \in dirs : Contents(k) = Refused)
                   PROVE  FALSE
        OBVIOUS
      <4>1. ~(Cardinality(dirs) > MaxRecords)
        <5>1. Cardinality(dirs) \in Nat /\ MaxRecords \in Nat /\ Cardinality(dirs) <= MaxRecords
          BY FS_CardinalityType, StoreAssumption DEF DiskStands
        <5> QED BY <5>1
      <4>2. Settle([found |-> "list", keys |-> {k \in dirs : Contents(k) # None}])
        BY <2>5, <4>1 DEF Entries
      <4>3. reply'[c].found = "list"
        BY <2>3, <4>2 DEF Settle, TypeOK
      <4> QED BY <4>3 DEF Refused
    <3>3. PICK k \in dirs : Contents(k) = Refused
      BY <3>2
    <3>4. k \in damaged
      BY <3>1, <3>3, ContentsFacts DEF Quiet, Touching, TypeOK
    <3> QED BY <2>3, <3>1, <3>4
  <2>6. CASE Current.op \in {"save", "remove"}
    BY <2>3, <2>6
  <2> QED BY <2>1, <2>4, <2>5, <2>6
<1>4. CASE Fail \/ Crash
  <2>1. failures' = failures + 1 /\ failures \in Nat
    BY <1>4, StoreAssumption DEF Fail, Crash, TypeOK
  <2> QED BY <2>1
<1>5. CASE UNCHANGED vars
  BY <1>1, <1>5 DEF vars
<1> QED BY <1>2, <1>3, <1>4, <1>5 DEF Next

(* What saveUnlocked() has acknowledged is in its place until removeUnlocked() begins, through
   failures and crashes, and nothing is refused for what another caller is in the middle of. *)
THEOREM StoreIsHonest == Spec => HonestStore
<1>1. ASSUME StoreInv, [Next]_vars
      PROVE  [\A k \in Keys, n \in Revisions :
                files[k][n] \in Values /\ files'[k][n] # files[k][n] =>
                  Running("remove", "rm") /\ Current.key = k]_vars
  BY <1>1, FilesStand
<1>2. ASSUME StoreInv, [Next]_vars
      PROVE  [\A c \in Clients :
                /\ request[c].op \in {"read", "entries"}
                /\ request'[c] = Idle
                /\ reply'[c] = Refused
                => \/ failures' > failures
                   \/ request[c].op = "read" /\ request[c].key \in damaged
                   \/ request[c].op = "entries" /\ damaged # {}]_vars
  BY <1>2, RefusalStands
<1>3. Spec => AcknowledgedStay
  BY <1>1, StoreSafe, PTL DEF Spec, AcknowledgedStay
<1>4. Spec => RefusalIsEarned
  BY <1>2, StoreSafe, PTL DEF Spec, RefusalIsEarned
<1>5. Spec => StoreKept
  BY StoreSafe, PTL DEF Spec, StoreKept
<1> QED BY <1>3, <1>4, <1>5 DEF HonestStore
-----------------------------------------------------------------------------
(* A step that changes what no key shows is a stutter of the log. *)
LEMMA NothingShows ==
  ASSUME \A k \in Keys : Shown(k)' = Shown(k)
  PROVE  UNCHANGED Visible
<1>1. Visible = [k \in Keys |-> Shown(k)] /\ Visible' = [k \in Keys |-> Shown(k)']
  BY DEF Visible
<1> QED BY <1>1

(* A record without a gap shows its files, in order. *)
LEMMA LogFacts ==
  ASSUME TypeOK, NEW k \in Keys
  PROVE  /\ Names(k) = 1 .. Count(k) =>
              /\ Log(k) = [n \in 1 .. Count(k) |-> files[k][n]]
              /\ Log(k) \in Seq(Values \cup {Torn}) /\ Len(Log(k)) = Count(k)
              /\ DOMAIN Log(k) = 1 .. Count(k)
              /\ \A n \in 1 .. Count(k) : Log(k)[n] = files[k][n]
         /\ Names(k) # 1 .. Count(k) => Log(k) = <<Torn>>
<1>1. Count(k) \in Nat
  BY NamesFinite, StoreAssumption
<1>2. \A n \in Names(k) : files[k][n] \in Values \cup {Torn}
  BY DEF Names, TypeOK
<1>3. ASSUME Names(k) = 1 .. Count(k)
      PROVE  /\ Log(k) = [n \in 1 .. Count(k) |-> files[k][n]]
             /\ Log(k) \in Seq(Values \cup {Torn}) /\ Len(Log(k)) = Count(k)
  BY <1>1, <1>2, <1>3 DEF Log
<1> QED BY <1>3 DEF Log

(* Nothing on disk changes and the stages before and after do not touch it: nothing shows. *)
LEMMA StillQuiet ==
  ASSUME UNCHANGED files, ~Touching, ~Touching'
  PROVE  UNCHANGED Visible
<1>1. \A k \in Keys : Quiet(k) /\ Quiet(k)' /\ Log(k)' = Log(k)
  BY DEF Quiet, Log, Names, Count
<1> QED BY <1>1, NothingShows DEF Shown

(* A save hides the revision it is writing. *)
LEMMA HidesLast ==
  ASSUME TypeOK, NEW k \in Keys, NEW m \in Nat, Names(k) = 1 .. (m + 1), k = Current.key,
         stage \in {"write", "sync"}
  PROVE  Shown(k) = [n \in 1 .. m |-> files[k][n]]
<1>1. Count(k) = m + 1 /\ Log(k) = [n \in 1 .. (m + 1) |-> files[k][n]]
  BY NamesFinite, LogFacts
<1>2. Shown(k) = SubSeq(Log(k), 1, m)
  BY <1>1 DEF Shown, Quiet, Touching
<1>3. SubSeq(Log(k), 1, m) = [n \in 1 .. m |-> Log(k)[n]]
  BY <1>1
<1> QED BY <1>1, <1>2, <1>3

(* A save that is acknowledged, fails or is cut off shows one revision more, whole or torn. *)
LEMMA SaveShows ==
  ASSUME StoreInv, stage \in {"write", "sync"}, stage' = "start", UNCHANGED files
  PROVE  [RecordLogOf!Next]_Visible
<1> USE DEF StoreInv
<1>1. PICK k, m : k = Current.key /\ m = Current.expected
  OBVIOUS
<1>2. queue # <<>> /\ Current.op = "save"
  BY DEF StageStands
<1>3. k \in Keys /\ m \in Nat /\ m + 1 \in Revisions /\ Names(k) = 1 .. (m + 1) /\ WholeUpTo(k, m)
  BY <1>1, <1>2, SaveFacts DEF SaveStands
<1>4. Shown(k) = [n \in 1 .. m |-> files[k][n]]
  BY <1>1, <1>3, HidesLast
<1>5. Count(k) = m + 1 /\ Log(k) = [n \in 1 .. (m + 1) |-> files[k][n]]
  BY <1>3, NamesFinite, LogFacts
<1>6. \A j \in Keys : Log(j)' = Log(j) /\ Quiet(j)' /\ (j # k => Quiet(j))
  BY <1>1 DEF Log, Names, Count, Quiet, Touching
<1>7. /\ Visible = [j \in Keys |-> Shown(j)] /\ Visible' = [j \in Keys |-> Log(j)]
      /\ \A j \in Keys \ {k} : Shown(j) = Log(j)
  BY <1>6 DEF Visible, Shown
<1>8. RecordLogOf!Whole(k)
  <2>1. CASE m = 0
    BY <1>3, <1>4, <1>7, <2>1 DEF RecordLogOf!Whole
  <2>2. CASE m # 0
    <3>1. Len(Shown(k)) = m /\ Shown(k)[m] = files[k][m] /\ m \in 1 .. m
      BY <1>3, <1>4, <2>2
    <3>2. Visible[k] = Shown(k) /\ Visible[k][Len(Visible[k])] # Torn
      BY <1>3, <1>7, <3>1 DEF WholeUpTo
    <3> QED BY <3>2 DEF RecordLogOf!Whole, RecordLogOf!Last
  <2> QED BY <2>1, <2>2
<1>9. Len(Visible'[k]) = Len(Visible[k]) + 1 /\ RecordLogOf!Front(Visible'[k]) = Visible[k]
  <2>1. Visible'[k] = Log(k) /\ Visible[k] = Shown(k)
    BY <1>3, <1>7
  <2>2. Len(Log(k)) = m + 1 /\ Len(Shown(k)) = m
    BY <1>3, <1>4, <1>5
  <2>3. SubSeq(Log(k), 1, m) = [n \in 1 .. m |-> Log(k)[n]]
    BY <1>3, <1>5
  <2>4. RecordLogOf!Front(Log(k)) = Shown(k)
    BY <1>3, <1>4, <1>5, <2>2, <2>3 DEF RecordLogOf!Front
  <2> QED BY <2>1, <2>2, <2>4
<1>10. RecordLogOf!Extend(k)
  BY <1>8, <1>9 DEF RecordLogOf!Extend
<1>11. \A j \in Keys \ {k} : Visible'[j] = Visible[j]
  BY <1>7
<1> QED BY <1>10, <1>11 DEF RecordLogOf!Next

(* A removal that finishes, fails or is cut off shows a part of the log it found. *)
LEMMA RemovalShows ==
  ASSUME StoreInv, stage = "rm", stage' = "start", UNCHANGED files
  PROVE  [RecordLogOf!Next]_Visible
<1> USE DEF StoreInv
<1>1. PICK k : k = Current.key
  OBVIOUS
<1>2. queue # <<>> /\ Current.op = "remove" /\ k \in Keys
  BY <1>1, CurrentTypes DEF StageStands
<1>3. Shown(k) = before
  BY <1>1 DEF Shown, Quiet, Touching
<1>4. \A j \in Keys : Log(j)' = Log(j) /\ Quiet(j)' /\ (j # k => Quiet(j))
  BY <1>1 DEF Log, Names, Count, Quiet, Touching
<1>5. /\ Visible = [j \in Keys |-> Shown(j)] /\ Visible' = [j \in Keys |-> Log(j)]
      /\ \A j \in Keys \ {k} : Shown(j) = Log(j)
  BY <1>4 DEF Visible, Shown
<1>6. Visible[k] = before /\ Visible'[k] = Log(k) /\ \A j \in Keys \ {k} : Visible'[j] = Visible[j]
  BY <1>2, <1>3, <1>5
<1>7. ASSUME before # <<>>, \/ RecordLogOf!IsPrefix(Log(k), before)
                            \/ Log(k) = <<Torn>>
                            \/ before = <<Torn>> /\ Torn \notin RecordLogOf!ToSet(Log(k))
      PROVE  RecordLogOf!Next
  BY <1>6, <1>7 DEF RecordLogOf!Cut, RecordLogOf!Next
<1>8. before \in Seq(Values \cup {Torn}) /\ Len(before) \in Nat /\ DOMAIN before = 1 .. Len(before)
  BY LenProperties DEF TypeOK
<1>9. Count(k) \in Nat
  BY <1>2, NamesFinite, StoreAssumption
<1>10. CASE before = <<>>
  <2>1. Names(k) = {}
    BY <1>1, <1>10 DEF RemovalStands
  <2>2. Count(k) = 0 /\ Names(k) = 1 .. Count(k)
    BY <1>2, <2>1, NamesFinite
  <2>3. Log(k) = <<>>
    <3>1. Log(k) \in Seq(Values \cup {Torn}) /\ Len(Log(k)) = 0
      BY <1>2, <2>2, LogFacts
    <3> QED BY <3>1, EmptySeq
  <2>4. UNCHANGED Visible
    BY <1>3, <1>5, <1>10, <2>3
  <2> QED BY <2>4
<1>11. CASE before # <<>> /\ Names(k) # 1 .. Count(k)
  <2>1. Log(k) = <<Torn>>
    BY <1>2, <1>11, LogFacts
  <2> QED BY <1>7, <1>11, <2>1
<1>12. CASE before # <<>> /\ Names(k) = 1 .. Count(k)
  <2>1. Log(k) = [n \in 1 .. Count(k) |-> files[k][n]] /\ Len(Log(k)) = Count(k) /\ DOMAIN Log(k) = 1 .. Count(k)
    BY <1>2, <1>12, LogFacts
  <2>2. CASE /\ Names(k) \subseteq 1 .. Len(before)
             /\ \A n \in Names(k) : before[n] = files[k][n]
    <3>1. Count(k) <= Len(before)
      BY <1>8, <1>9, <1>12, <2>2
    <3>2. SubSeq(Log(k), 1, Count(k)) = [n \in 1 .. Count(k) |-> Log(k)[n]]
          /\ SubSeq(before, 1, Count(k)) = [n \in 1 .. Count(k) |-> before[n]]
      BY <1>8, <1>9, <2>1, <3>1
    <3>3. RecordLogOf!IsPrefix(Log(k), before)
      BY <1>12, <2>1, <2>2, <3>1, <3>2 DEF RecordLogOf!IsPrefix
    <3> QED BY <1>7, <1>12, <3>3
  <2>3. CASE before = <<Torn>> /\ \A n \in Names(k) : files[k][n] = Torn => Names(k) # 1 .. n
    <3>1. ASSUME NEW n \in 1 .. Count(k)
          PROVE  files[k][n] # Torn
      <4> SUFFICES ASSUME files[k][n] = Torn
                   PROVE  FALSE
        OBVIOUS
      <4>1. 1 .. Count(k) \subseteq 1 .. n
        BY <1>2, <1>12 DEF DiskStands
      <4>2. n = Count(k)
        BY <1>9, <4>1
      <4> QED BY <1>12, <2>3, <4>2
    <3>2. Torn \notin RecordLogOf!ToSet(Log(k))
      BY <2>1, <3>1 DEF RecordLogOf!ToSet
    <3> QED BY <1>7, <1>12, <2>3, <3>2
  <2> QED BY <1>1, <2>2, <2>3 DEF RemovalStands
<1> QED BY <1>10, <1>11, <1>12

(* Between the first and the last step of a save its file is hidden, and of a removal the log
   it found is shown. *)
LEMMA SaveCreateHides == StoreInv /\ SaveCreate => UNCHANGED Visible
<1> SUFFICES ASSUME StoreInv, SaveCreate PROVE UNCHANGED Visible
  OBVIOUS
<1> USE DEF StoreInv
<1>0. PICK k, m : k = Current.key /\ m = Current.expected
  OBVIOUS
<1>1. queue # <<>> /\ stage = "create" /\ Current.op = "save" /\ stage' = "write" /\ Current' = Current
      /\ files' = [files EXCEPT ![k][m + 1] = Torn]
  BY <1>0 DEF SaveCreate, Running, Current
<1>2. k \in Keys /\ m \in Nat /\ Names(k) = 1 .. m /\ m + 1 \in Revisions
  BY <1>0, <1>1, SaveFacts DEF SaveStands
<1>3. Torn \in Values \cup {Torn, Missing} /\ Torn # Missing
  BY StoreAssumption
<1>4. /\ \A n \in Revisions : files'[k][n] = IF n = m + 1 THEN Torn ELSE files[k][n]
      /\ \A j \in Keys \ {k} : files'[j] = files[j] /\ Names(j)' = Names(j) /\ Count(j)' = Count(j)
  BY <1>1, <1>2, <1>3, OneFile
<1>5. TypeOK' /\ SaveStands'
  BY SaveCreateKeeps
<1>6. Names(k)' = 1 .. (m + 1)
  BY <1>0, <1>1, <1>5 DEF SaveStands
<1>7. Shown(k)' = [n \in 1 .. m |-> files'[k][n]]
  <2>1. Count(k)' = m + 1 /\ Log(k)' = [n \in 1 .. (m + 1) |-> files'[k][n]]
    <3>1. Count(k)' = m + 1
      BY <1>2, <1>6, FS_Interval DEF Count
    <3> QED BY <1>6, <3>1 DEF Log
  <2>2. Shown(k)' = SubSeq(Log(k)', 1, m)
    BY <1>0, <1>1, <1>2, <2>1 DEF Shown, Quiet, Touching
  <2>3. SubSeq(Log(k)', 1, m) = [n \in 1 .. m |-> Log(k)'[n]]
    BY <1>2, <2>1
  <2> QED BY <1>2, <2>1, <2>2, <2>3
<1>8. Shown(k) = [n \in 1 .. m |-> files[k][n]]
  <2>1. Count(k) = m
    BY <1>2, NamesFinite
  <2> QED BY <1>1, <1>2, <2>1, LogFacts DEF Shown, Quiet, Touching
<1>9. \A n \in 1 .. m : n \in Revisions /\ n # m + 1
  BY <1>2 DEF Names
<1>10. Shown(k)' = Shown(k)
  BY <1>4, <1>7, <1>8, <1>9
<1>11. \A j \in Keys \ {k} : Shown(j)' = Shown(j)
  <2> SUFFICES ASSUME NEW j \in Keys \ {k}
               PROVE  Shown(j)' = Shown(j)
    OBVIOUS
  <2>1. Quiet(j) /\ Quiet(j)'
    BY <1>0, <1>1 DEF Quiet
  <2>2. Log(j)' = Log(j)
    BY <1>4 DEF Log
  <2> QED BY <2>1, <2>2 DEF Shown
<1> QED BY <1>10, <1>11, NothingShows

LEMMA SaveWriteHides == StoreInv /\ SaveWrite => UNCHANGED Visible
<1> SUFFICES ASSUME StoreInv, SaveWrite PROVE UNCHANGED Visible
  OBVIOUS
<1> USE DEF StoreInv
<1>0. PICK k, m, d : k = Current.key /\ m = Current.expected /\ d = Current.data
  OBVIOUS
<1>1. queue # <<>> /\ stage = "write" /\ Current.op = "save" /\ stage' = "sync" /\ Current' = Current
      /\ files' = [files EXCEPT ![k][m + 1] = d]
  BY <1>0 DEF SaveWrite, Running, Current
<1>2. k \in Keys /\ m \in Nat /\ Names(k) = 1 .. (m + 1) /\ m + 1 \in Revisions /\ d \in Values /\ d # Missing
  BY <1>0, <1>1, SaveFacts DEF SaveStands
<1>4. /\ \A n \in Revisions : files'[k][n] = IF n = m + 1 THEN d ELSE files[k][n]
      /\ \A j \in Keys \ {k} : files'[j] = files[j] /\ Names(j)' = Names(j) /\ Count(j)' = Count(j)
      /\ Names(k)' = Names(k) \cup {m + 1}
  BY <1>1, <1>2, OneFile
<1>5. Names(k)' = Names(k) /\ Count(k)' = Count(k) /\ Count(k) = m + 1
  <2>1. Names(k)' = Names(k)
    BY <1>2, <1>4
  <2> QED BY <1>2, <2>1, NamesFinite DEF Count
<1>6. Log(k) = [n \in 1 .. (m + 1) |-> files[k][n]] /\ Log(k)' = [n \in 1 .. (m + 1) |-> files'[k][n]]
  BY <1>2, <1>5 DEF Log
<1>7. Shown(k) = [n \in 1 .. m |-> files[k][n]]
  BY <1>0, <1>1, <1>2, HidesLast
<1>8. Shown(k)' = SubSeq(Log(k)', 1, m)
  BY <1>0, <1>1, <1>2, <1>5 DEF Shown, Quiet, Touching
<1>9. SubSeq(Log(k)', 1, m) = [n \in 1 .. m |-> files'[k][n]]
  BY <1>2, <1>6
<1>10. \A n \in 1 .. m : n \in Revisions /\ n # m + 1
  BY <1>2 DEF Names
<1>11. Shown(k)' = Shown(k)
  BY <1>4, <1>7, <1>8, <1>9, <1>10
<1>12. \A j \in Keys \ {k} : Shown(j)' = Shown(j)
  <2> SUFFICES ASSUME NEW j \in Keys \ {k}
               PROVE  Shown(j)' = Shown(j)
    OBVIOUS
  <2>1. Quiet(j) /\ Quiet(j)'
    BY <1>0, <1>1 DEF Quiet
  <2>2. Log(j)' = Log(j)
    BY <1>4 DEF Log
  <2> QED BY <2>1, <2>2 DEF Shown
<1> QED BY <1>11, <1>12, NothingShows

LEMMA RemoveBeginHides == StoreInv /\ RemoveBegin => UNCHANGED Visible
<1> SUFFICES ASSUME StoreInv, RemoveBegin PROVE UNCHANGED Visible
  OBVIOUS
<1>1. stage = "start" /\ UNCHANGED files /\ ~Touching
  BY DEF RemoveBegin, Running, Touching
<1>2. CASE Current.key \in dirs
  <2>1. stage' = "rm" /\ before' = Log(Current.key) /\ Current' = Current
    BY <1>2 DEF RemoveBegin, Current
  <2>2. \A k \in Keys : Log(k)' = Log(k) /\ Quiet(k) /\ (Quiet(k)' <=> k # Current.key)
    BY <1>1, <2>1 DEF Log, Names, Count, Quiet, Touching
  <2>3. \A k \in Keys : Shown(k)' = Shown(k)
    BY <2>1, <2>2 DEF Shown
  <2> QED BY <2>3, NothingShows
<1>3. CASE Current.key \notin dirs
  BY <1>1, <1>3, StillQuiet DEF RemoveBegin, Settle, Touching
<1> QED BY <1>2, <1>3

LEMMA RemoveFileHides == StoreInv /\ RemoveFile => UNCHANGED Visible
<1> SUFFICES ASSUME StoreInv, RemoveFile PROVE UNCHANGED Visible
  OBVIOUS
<1> USE DEF StoreInv
<1>0. PICK k : k = Current.key
  OBVIOUS
<1>1. queue # <<>> /\ stage = "rm" /\ Current.op = "remove" /\ UNCHANGED <<stage, before>> /\ Current' = Current
      /\ \E r \in Names(k) : files' = [files EXCEPT ![k][r] = Missing]
  BY <1>0 DEF RemoveFile, Running, Current
<1>2. k \in Keys /\ \A j \in Keys \ {k} : files'[j] = files[j]
  BY <1>0, <1>1, CurrentTypes DEF TypeOK
<1>3. \A j \in Keys \ {k} : Shown(j)' = Shown(j)
  <2> SUFFICES ASSUME NEW j \in Keys \ {k}
               PROVE  Shown(j)' = Shown(j)
    OBVIOUS
  <2>1. Quiet(j) /\ Quiet(j)'
    BY <1>0, <1>1 DEF Quiet
  <2>2. Log(j)' = Log(j)
    BY <1>2 DEF Log, Names, Count
  <2> QED BY <2>1, <2>2 DEF Shown
<1>4. Shown(k)' = Shown(k)
  BY <1>0, <1>1 DEF Shown, Quiet, Touching
<1> QED BY <1>3, <1>4, NothingShows

(* A new call does not disturb what is under way. *)
LEMMA CallShowsNothing ==
  ASSUME StoreInv, NEW c \in Clients, NEW operation \in Operations, Call(c, operation)
  PROVE  UNCHANGED Visible
<1> USE DEF StoreInv
<1>1. request[c] = Idle /\ request' = [request EXCEPT ![c] = operation] /\ queue' = Append(queue, c)
      /\ UNCHANGED <<files, stage, before>>
  BY DEF Call
<1>2. CASE queue = <<>>
  BY <1>1, <1>2, StillQuiet DEF StageStands, Touching
<1>3. CASE queue # <<>>
  <2>1. Current' = Current
    BY <1>1, <1>3, BackOfQueue, HeadOfQueue DEF Current, TypeOK
  <2>2. \A k \in Keys : Shown(k)' = Shown(k)
    BY <1>1, <2>1 DEF Shown, Quiet, Touching, Log, Names, Count
  <2> QED BY <2>2, NothingShows
<1> QED BY <1>2, <1>3

LEMMA LogStep == StoreInv /\ [Next]_vars => [RecordLogOf!Next]_Visible
<1> SUFFICES ASSUME StoreInv, [Next]_vars PROVE [RecordLogOf!Next]_Visible
  OBVIOUS
<1>1. CASE \E c \in Clients, operation \in Operations : Call(c, operation)
  BY <1>1, CallShowsNothing
<1>2. CASE Read \/ Entries \/ SaveBegin \/ SaveMkdir
  BY <1>2, StillQuiet DEF Read, Entries, SaveBegin, SaveMkdir, Running, Settle, Touching
<1>3. CASE SaveCreate \/ SaveWrite \/ RemoveBegin \/ RemoveFile
  BY <1>3, SaveCreateHides, SaveWriteHides, RemoveBeginHides, RemoveFileHides
<1>4. CASE SaveSync
  BY <1>4, SaveShows DEF SaveSync, Running, Settle
<1>5. CASE RemoveDirectory
  BY <1>5, RemovalShows DEF RemoveDirectory, Running, Settle
<1>6. CASE Fail \/ Crash
  <2>1. stage' = "start" /\ UNCHANGED files
    BY <1>6 DEF Fail, Crash, Settle
  <2>2. CASE stage \in {"write", "sync"}
    BY <2>1, <2>2, SaveShows
  <2>3. CASE stage = "rm"
    BY <2>1, <2>3, RemovalShows
  <2>4. CASE stage \notin {"write", "sync", "rm"}
    BY <2>1, <2>4, StillQuiet DEF Touching
  <2> QED BY <2>2, <2>3, <2>4
<1>7. CASE UNCHANGED vars
  BY <1>7 DEF vars, Visible, Shown, Quiet, Touching, Current, Log, Names, Count
<1> QED BY <1>1, <1>2, <1>3, <1>4, <1>5, <1>6, <1>7 DEF Next, Step

(* The revisions of each record are the log its callers rely on: a save shows at once or not at
   all, whatever fails or dies between the steps of saveUnlocked() and removeUnlocked(). *)
THEOREM StoreIsALog == Spec => LogSpec
<1>1. Init => RecordLogOf!Init
  <2> SUFFICES ASSUME Init PROVE RecordLogOf!Init
    OBVIOUS
  <2>1. StoreInv /\ ~Touching /\ \A k \in Keys : Names(k) = {}
    BY StoreBegins DEF Init, Touching, Names
  <2>2. ASSUME NEW k \in Keys
        PROVE  Log(k) = <<>> /\ Quiet(k)
    <3>1. TypeOK /\ Names(k) = {}
      BY <2>1, <2>2 DEF StoreInv
    <3>2. Count(k) = 0
      BY <2>2, <3>1, NamesFinite
    <3>3. Names(k) = 1 .. Count(k)
      BY <3>1, <3>2
    <3>4. Log(k) \in Seq(Values \cup {Torn}) /\ Len(Log(k)) = 0
      BY <2>2, <3>1, <3>2, <3>3, LogFacts
    <3> QED BY <2>1, <3>4, EmptySeq DEF Quiet
  <2>3. \A k \in Keys : Shown(k) = <<>>
    BY <2>2 DEF Shown
  <2> QED BY <2>3 DEF Visible, RecordLogOf!Init
<1> QED BY <1>1, LogStep, StoreSafe, PTL DEF Spec, LogSpec, RecordLogOf!Spec
=============================================================================
