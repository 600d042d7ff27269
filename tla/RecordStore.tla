---------------------------- MODULE RecordStore ----------------------------
(***************************************************************************)
(* createRecordStore of src/src/qualification.mjs: the saved records of    *)
(* one owner in one namespace.  A record is a directory of numbered        *)
(* revision files, created exclusively, written and synced.  Every public  *)
(* operation of the namespace goes through one queue (recordStoreQueues),  *)
(* so each runs alone, but not at once: a process may die, and the file    *)
(* system may fail, between any two of its steps.                          *)
(*                                                                         *)
(* A revision file holds a value or is torn (created and not completely    *)
(* written); the hash and the envelope are the test that tells them apart. *)
(*                                                                         *)
(* Where two operators with the same parameters follow each other, the     *)
(* first is a plausible mistake in the second: it is in no behaviour of    *)
(* this specification, and shows that a property would notice it.          *)
(***************************************************************************)
EXTENDS Naturals, Sequences, FiniteSets, SequencesExt

CONSTANTS
  Clients,        \* callers, each with one operation under way at most
  Keys,           \* record keys
  Values,         \* what may be saved
  MaxRecords,     \* directories in a namespace (256 in the code)
  MaxRevisions,   \* revisions of a record (1024 in the code)
  MaxFailures,    \* bound on failing steps and crashes
  Torn, Missing   \* a torn revision file, and none at all

ASSUME StoreAssumption ==
  /\ MaxRecords \in Nat /\ MaxRevisions \in Nat \ {0} /\ MaxFailures \in Nat
  /\ Torn \notin Values /\ Missing \notin Values \cup {Torn}

VARIABLES
  dirs,       \* keys that have a directory, perhaps an empty one
  files,      \* per key and revision number the file's content, or Missing
  request,    \* per client the operation it asked for, Idle without one
  queue,      \* the clients in the order they asked
  stage,      \* how far the operation at the head of the queue has come
  reply,      \* per client the answer to its last operation, None before that
  before,     \* history: the log of the key a removal is taking apart
  damaged,    \* history: keys on which a save or a removal failed or was cut off
  failures    \* number of failures so far

vars == <<dirs, files, request, queue, stage, reply, before, damaged, failures>>

Revisions == 1 .. MaxRevisions
Idle == [op |-> "none"]
Operations ==
  [op : {"read", "remove"}, key : Keys]
    \cup [op : {"entries"}]
    \cup [op : {"save"}, key : Keys, data : Values, expected : 0 .. MaxRevisions]

Names(k) == {n \in Revisions : files[k][n] # Missing}
Count(k) == Cardinality(Names(k))

Current == request[Head(queue)]
Running(op, at) == queue # <<>> /\ Current.op = op /\ stage = at

None == [found |-> "none"]
Refused == [found |-> "refused"]
Record(n, value) == [found |-> "record", revision |-> n, data |-> value]

Init ==
  /\ dirs = {}
  /\ files = [k \in Keys |-> [n \in Revisions |-> Missing]]
  /\ request = [c \in Clients |-> Idle]
  /\ queue = <<>>
  /\ stage = "start"
  /\ reply = [c \in Clients |-> None]
  /\ before = <<>>
  /\ damaged = {}
  /\ failures = 0
-----------------------------------------------------------------------------
(* readUnlocked(): no directory or an empty one is no record; the names must be
   1..n without a gap, and the last file must be whole. *)
Contents(k) ==
  IF k \notin dirs \/ Names(k) = {} THEN None
  ELSE IF Names(k) # 1 .. Count(k) \/ files[k][Count(k)] = Torn THEN Refused
  ELSE Record(Count(k), files[k][Count(k)])

(* serializeRecordOperation(): queue behind whatever the namespace is doing. *)
Call(c, operation) ==
  /\ request[c] = Idle
  /\ request' = [request EXCEPT ![c] = operation]
  /\ queue' = Append(queue, c)
  /\ reply' = [reply EXCEPT ![c] = None]
  /\ UNCHANGED <<dirs, files, stage, before, damaged, failures>>

(* The operation settles, well or badly, and the next one begins. *)
Settle(answer) ==
  /\ reply' = [reply EXCEPT ![Head(queue)] = answer]
  /\ request' = [request EXCEPT ![Head(queue)] = Idle]
  /\ queue' = Tail(queue)
  /\ stage' = "start"

Read ==
  /\ Running("read", "start")
  /\ Settle(Contents(Current.key))
  /\ UNCHANGED <<dirs, files, before, damaged, failures>>

(* entriesUnlocked(): one record that cannot be read refuses the whole list. *)
Entries ==
  /\ Running("entries", "start")
  /\ IF Cardinality(dirs) > MaxRecords \/ \E k \in dirs : Contents(k) = Refused
     THEN Settle(Refused)
     ELSE Settle([found |-> "list", keys |-> {k \in dirs : Contents(k) # None}])
  /\ UNCHANGED <<dirs, files, before, damaged, failures>>

(* What saveUnlocked() checks before it creates anything: the bound on
   directories, and that the caller knows the latest revision. *)
Room(k) == Cardinality(dirs) <= MaxRecords /\ (k \in dirs \/ Cardinality(dirs) < MaxRecords)

ExpectedUnchecked(k, expected) == Contents(k) # Refused /\ expected < MaxRevisions
ExpectedByCount(k, expected) == expected = Count(k) /\ expected < MaxRevisions
Expected(k, expected) ==
  /\ Contents(k) # Refused
  /\ expected = IF Contents(k) = None THEN 0 ELSE Contents(k).revision
  /\ expected < MaxRevisions

SaveBegin ==
  /\ Running("save", "start")
  /\ IF Room(Current.key) /\ Expected(Current.key, Current.expected)
     THEN /\ stage' = "mkdir"
          /\ UNCHANGED <<request, queue, reply>>
     ELSE Settle(Refused)
  /\ UNCHANGED <<dirs, files, before, damaged, failures>>

SaveMkdir ==
  /\ Running("save", "mkdir")
  /\ dirs' = dirs \cup {Current.key}
  /\ stage' = "create"
  /\ UNCHANGED <<files, request, queue, reply, before, damaged, failures>>

(* fs.open with "wx": the revision's file exists, and nothing is in it. *)
SaveCreate ==
  /\ Running("save", "create")
  /\ files' = [files EXCEPT ![Current.key][Current.expected + 1] = Torn]
  /\ stage' = "write"
  /\ UNCHANGED <<dirs, request, queue, reply, before, damaged, failures>>

(* writeFile, and then sync and close, after which the save is acknowledged. *)
SaveWrite ==
  /\ Running("save", "write")
  /\ files' = [files EXCEPT ![Current.key][Current.expected + 1] = Current.data]
  /\ stage' = "sync"
  /\ UNCHANGED <<dirs, request, queue, reply, before, damaged, failures>>

SaveSync ==
  /\ Running("save", "sync")
  /\ Settle(Record(Current.expected + 1, Current.data))
  /\ UNCHANGED <<dirs, files, before, damaged, failures>>

Log(k) ==
  IF Names(k) = 1 .. Count(k) THEN [n \in 1 .. Count(k) |-> files[k][n]] ELSE <<Torn>>

(* removeUnlocked(): fs.rm takes the files away in any order, then the directory. *)
RemoveBegin ==
  /\ Running("remove", "start")
  /\ IF Current.key \in dirs
     THEN /\ stage' = "rm"
          /\ before' = Log(Current.key)
          /\ UNCHANGED <<request, queue, reply>>
     ELSE /\ Settle(None)
          /\ UNCHANGED before
  /\ UNCHANGED <<dirs, files, damaged, failures>>

RemoveFile ==
  /\ Running("remove", "rm")
  /\ \E n \in Names(Current.key) :
       files' = [files EXCEPT ![Current.key][n] = Missing]
  /\ UNCHANGED <<dirs, request, queue, stage, reply, before, damaged, failures>>

RemoveDirectory ==
  /\ Running("remove", "rm")
  /\ Names(Current.key) = {}
  /\ dirs' = dirs \ {Current.key}
  /\ Settle([found |-> "removed"])
  /\ before' = <<>>
  /\ damaged' = damaged \ {Current.key}
  /\ UNCHANGED <<files, failures>>

(* A step of the file system fails: the operation is rejected, the queue goes on.
   What it had done stays. *)
Touching == stage \in {"write", "sync", "rm"}
FailDropsWaiters ==
  /\ failures < MaxFailures
  /\ queue # <<>>
  /\ failures' = failures + 1
  /\ reply' = [reply EXCEPT ![Head(queue)] = Refused]
  /\ request' = [request EXCEPT ![Head(queue)] = Idle]
  /\ queue' = <<>>
  /\ stage' = "start"
  /\ damaged' = IF Touching THEN damaged \cup {Current.key} ELSE damaged
  /\ before' = <<>>
  /\ UNCHANGED <<dirs, files>>
Fail ==
  /\ failures < MaxFailures
  /\ queue # <<>>
  /\ failures' = failures + 1
  /\ Settle(Refused)
  /\ damaged' = IF Touching THEN damaged \cup {Current.key} ELSE damaged
  /\ before' = <<>>
  /\ UNCHANGED <<dirs, files>>

(* The process dies.  A new one finds the files; the queue and the callers are gone. *)
Crash ==
  /\ failures < MaxFailures
  /\ failures' = failures + 1
  /\ damaged' = IF Touching THEN damaged \cup {Current.key} ELSE damaged
  /\ request' = [c \in Clients |-> Idle]
  /\ queue' = <<>>
  /\ stage' = "start"
  /\ reply' = [c \in Clients |-> None]
  /\ before' = <<>>
  /\ UNCHANGED <<dirs, files>>

Step ==
  \/ Read \/ Entries
  \/ SaveBegin \/ SaveMkdir \/ SaveCreate \/ SaveWrite \/ SaveSync
  \/ RemoveBegin \/ RemoveFile \/ RemoveDirectory

Next ==
  \/ \E c \in Clients, operation \in Operations : Call(c, operation)
  \/ Step \/ Fail \/ Crash

Spec == Init /\ [][Next]_vars

(* The operation at the head of the queue goes on: it waits for nothing but the
   file system, which answers each call. *)
FairSpec == Spec /\ WF_vars(Step)
-----------------------------------------------------------------------------
Answers ==
  {None, Refused, [found |-> "removed"]} \cup [found : {"list"}, keys : SUBSET Keys]
    \cup [found : {"record"}, revision : Revisions, data : Values]
TypeOK ==
  /\ dirs \in SUBSET Keys
  /\ files \in [Keys -> [Revisions -> Values \cup {Torn, Missing}]]
  /\ request \in [Clients -> Operations \cup {Idle}]
  /\ queue \in Seq(Clients)
  /\ IsInjective(queue) /\ ToSet(queue) = {c \in Clients : request[c] # Idle}
  /\ stage \in {"start", "mkdir", "create", "write", "sync", "rm"}
  /\ reply \in [Clients -> Answers] /\ before \in Seq(Values \cup {Torn})
  /\ damaged \in SUBSET Keys
  /\ failures \in 0 .. MaxFailures

Quiet(k) == ~(Touching /\ Current.key = k)

(* A stage belongs to the operation at the head of the queue, whose directory is there from
   the moment it may be written to. *)
StageStands ==
  /\ queue = <<>> => stage = "start"
  /\ stage \in {"mkdir", "create", "write", "sync"} => Current.op = "save" /\ Current.expected < MaxRevisions
  /\ stage = "mkdir" => Room(Current.key)
  /\ stage = "rm" => Current.op = "remove"
  /\ stage \in {"create", "write", "sync", "rm"} => Current.key \in dirs

(* A save extends a whole record by one file; a removal leaves of the log it found what is not
   yet gone, or, of a record with a gap, nothing that looks whole and is torn. *)
WholeUpTo(k, m) == \A n \in 1 .. m : files[k][n] # Torn
SaveStands ==
  LET k == Current.key
      m == Current.expected
  IN /\ stage \in {"mkdir", "create"} => Names(k) = 1 .. m /\ WholeUpTo(k, m)
     /\ stage \in {"write", "sync"} =>
          /\ Names(k) = 1 .. (m + 1) /\ WholeUpTo(k, m)
          /\ files[k][m + 1] = IF stage = "write" THEN Torn ELSE Current.data
RemovalStands ==
  stage = "rm" =>
    LET k == Current.key
    IN \/ /\ Names(k) \subseteq 1 .. Len(before)
          /\ \A n \in Names(k) : before[n] = files[k][n]
       \/ before = <<Torn>> /\ \A n \in Names(k) : files[k][n] = Torn => Names(k) # 1 .. n

(* On disk: nothing outside of a directory, no more directories than allowed, nothing after a
   torn file, and no gap and no torn file where nothing went wrong. *)
DiskStands ==
  /\ \A k \in Keys \ dirs : Names(k) = {}
  /\ IsFiniteSet(dirs) /\ Cardinality(dirs) <= MaxRecords
  /\ \A k \in Keys : \A n \in Names(k) : files[k][n] = Torn => Names(k) \subseteq 1 .. n
  /\ \A k \in Keys \ damaged : Quiet(k) => Names(k) = 1 .. Count(k) /\ WholeUpTo(k, Count(k))

(* The queue, the stages and the files agree.  This is the invariant of the proofs. *)
StoreInv == TypeOK /\ StageStands /\ SaveStands /\ RemovalStands /\ DiskStands

(* No step, failure or crash brings them apart. *)
StoreKept == [][StoreInv']_vars

(* A failed save never makes a record shorter: every acknowledged revision is in its
   place until a removal begins, also in a record that is torn. *)
AcknowledgedStay ==
  [][\A k \in Keys, n \in Revisions :
       files[k][n] \in Values /\ files'[k][n] # files[k][n] =>
         Running("remove", "rm") /\ Current.key = k]_vars

(* A read or a list is refused only when a save or a removal went wrong before:
   nobody observes a save or a removal half way. *)
RefusalIsEarned ==
  [][\A c \in Clients :
       /\ request[c].op \in {"read", "entries"}
       /\ request'[c] = Idle
       /\ reply'[c] = Refused
       => \/ failures' > failures
          \/ request[c].op = "read" /\ request[c].key \in damaged
          \/ request[c].op = "entries" /\ damaged # {}]_vars

(* Nothing acknowledged is lost and nothing is refused for what another caller is doing:
   the promise of the store to those who save and to those who read. *)
HonestStore == StoreKept /\ AcknowledgedStay /\ RefusalIsEarned

(* The store implements the log of revisions its callers rely on.  A save shows when
   it is acknowledged, fails or is cut off, and so does a removal. *)
Shown(k) ==
  IF Quiet(k) THEN Log(k)
  ELSE IF stage = "rm" THEN before ELSE SubSeq(Log(k), 1, Count(k) - 1)
Visible == [k \in Keys |-> Shown(k)]
RecordLogOf == INSTANCE RecordLog WITH log <- Visible
LogSpec == RecordLogOf!Spec

(* Every operation settles, also behind one that failed. *)
EveryCallSettles == \A c \in Clients : request[c] # Idle ~> request[c] = Idle
=============================================================================
