---------------------------- MODULE BatchProofs ----------------------------
(***************************************************************************)
(* The safety properties of Batch, proved for every set of workers, every  *)
(* valid request and whatever its assignments may answer: the inductive    *)
(* invariant BatchStands, that the record is true of the batch, that no    *)
(* task is delegated twice, and that nothing is after the batch stopped.   *)
(***************************************************************************)
EXTENDS Batch, SequenceTheorems, TLAPS
-----------------------------------------------------------------------------
(* A thread joins the chain of saves at its end. *)
LEMMA Joined ==
  ASSUME NEW S, NEW s \in Seq(S), IsInjective(s), NEW e \in S, e \notin ToSet(s)
  PROVE  /\ Append(s, e) \in Seq(S) /\ IsInjective(Append(s, e)) /\ Append(s, e) # <<>>
         /\ ToSet(Append(s, e)) = ToSet(s) \cup {e}
         /\ Head(Append(s, e)) = IF s = <<>> THEN e ELSE Head(s)
<1>1. Len(s) \in Nat /\ DOMAIN s = 1 .. Len(s)
  BY LenProperties
<1>2. /\ Append(s, e) \in Seq(S) /\ Append(s, e) # <<>> /\ Len(Append(s, e)) = Len(s) + 1
      /\ DOMAIN Append(s, e) = 1 .. Len(s) + 1
      /\ \A i \in 1 .. Len(s) : Append(s, e)[i] = s[i]
      /\ Append(s, e)[Len(s) + 1] = e
  BY AppendProperties, LenProperties
<1>3. 1 .. Len(s) + 1 = (1 .. Len(s)) \cup {Len(s) + 1}
  BY <1>1
<1>4. \A i \in 1 .. Len(s) : s[i] # e
  BY <1>1 DEF ToSet
<1>5. IsInjective(Append(s, e))
  BY <1>1, <1>2, <1>3, <1>4 DEF IsInjective
<1>6. ToSet(Append(s, e)) = ToSet(s) \cup {e}
  BY <1>1, <1>2, <1>3 DEF ToSet
<1>7. Head(Append(s, e)) = IF s = <<>> THEN e ELSE Head(s)
  <2>1. Head(Append(s, e)) = Append(s, e)[1]
    BY <1>2
  <2>2. CASE s = <<>>
    BY <1>2, <2>1, <2>2
  <2>3. CASE s # <<>>
    <3>1. 1 \in 1 .. Len(s) /\ Head(s) = s[1]
      BY <1>1, <2>3, EmptySeq
    <3> QED BY <1>2, <2>1, <2>3, <3>1
  <2> QED BY <2>2, <2>3
<1> QED BY <1>2, <1>5, <1>6, <1>7

(* The thread at the head of the chain leaves it. *)
LEMMA Left ==
  ASSUME NEW S, NEW s \in Seq(S), IsInjective(s), s # <<>>
  PROVE  /\ Tail(s) \in Seq(S) /\ IsInjective(Tail(s))
         /\ Head(s) \in S /\ Head(s) \in ToSet(s)
         /\ ToSet(Tail(s)) = ToSet(s) \ {Head(s)}
<1>1. Len(s) \in Nat \ {0} /\ DOMAIN s = 1 .. Len(s)
  BY LenProperties, EmptySeq
<1>2. /\ Head(s) \in S /\ Head(s) = s[1]
      /\ Tail(s) \in Seq(S) /\ Len(Tail(s)) = Len(s) - 1
      /\ \A i \in 1 .. Len(Tail(s)) : Tail(s)[i] = s[i + 1]
  BY <1>1, HeadTailProperties
<1>3. DOMAIN Tail(s) = 1 .. Len(s) - 1
  BY <1>2, LenProperties
<1>4. \A i \in 1 .. Len(s) - 1 : i + 1 \in 2 .. Len(s) /\ Tail(s)[i] = s[i + 1]
  BY <1>1, <1>2
<1>5. IsInjective(Tail(s))
  BY <1>1, <1>3, <1>4 DEF IsInjective
<1>6. ToSet(Tail(s)) \subseteq ToSet(s) \ {Head(s)}
  <2> SUFFICES ASSUME NEW i \in 1 .. Len(s) - 1
               PROVE  Tail(s)[i] \in ToSet(s) /\ Tail(s)[i] # Head(s)
    BY <1>3 DEF ToSet
  <2> QED BY <1>1, <1>2, <1>4 DEF ToSet, IsInjective
<1>7. ToSet(s) \ {Head(s)} \subseteq ToSet(Tail(s))
  <2> SUFFICES ASSUME NEW i \in 1 .. Len(s), s[i] # Head(s)
               PROVE  s[i] \in ToSet(Tail(s))
    BY <1>1 DEF ToSet
  <2>1. i - 1 \in 1 .. Len(s) - 1 /\ (i - 1) + 1 = i
    BY <1>1, <1>2
  <2> QED BY <1>3, <1>4, <2>1 DEF ToSet
<1>8. Head(s) \in ToSet(s)
  BY <1>1, <1>2 DEF ToSet
<1> QED BY <1>2, <1>5, <1>6, <1>7, <1>8

(* The disk with one more revision, and with its end cut off. *)
LEMMA Extended ==
  ASSUME NEW S, NEW s \in Seq(S), NEW e \in S
  PROVE  /\ Append(s, e) \in Seq(S) /\ Append(s, e) # <<>>
         /\ Last(Append(s, e)) = e
         /\ ToSet(Append(s, e)) = ToSet(s) \cup {e}
<1>1. Len(s) \in Nat /\ DOMAIN s = 1 .. Len(s)
  BY LenProperties
<1>2. /\ Append(s, e) \in Seq(S) /\ Append(s, e) # <<>> /\ Len(Append(s, e)) = Len(s) + 1
      /\ DOMAIN Append(s, e) = 1 .. Len(s) + 1
      /\ \A i \in 1 .. Len(s) : Append(s, e)[i] = s[i]
      /\ Append(s, e)[Len(s) + 1] = e
  BY AppendProperties, LenProperties
<1>3. 1 .. Len(s) + 1 = (1 .. Len(s)) \cup {Len(s) + 1}
  BY <1>1
<1>4. ToSet(Append(s, e)) = ToSet(s) \cup {e}
  BY <1>1, <1>2, <1>3 DEF ToSet
<1> QED BY <1>2, <1>4 DEF Last

LEMMA Shortened ==
  ASSUME NEW S, NEW s \in Seq(S), NEW n \in 0 .. Len(s)
  PROVE  SubSeq(s, 1, n) \in Seq(S) /\ ToSet(SubSeq(s, 1, n)) \subseteq ToSet(s)
<1>1. Len(s) \in Nat /\ DOMAIN s = 1 .. Len(s) /\ \A i \in 1 .. Len(s) : s[i] \in S
  BY LenProperties, ElementOfSeq
<1>2. \A i \in 1 .. n : i \in 1 .. Len(s) /\ s[i] \in S
  BY <1>1
<1>3. /\ SubSeq(s, 1, n) \in Seq(S) /\ Len(SubSeq(s, 1, n)) = n
      /\ \A i \in 1 .. n : SubSeq(s, 1, n)[i] = s[i]
  BY <1>1, <1>2, SubSeqProperties
<1> QED BY <1>1, <1>2, <1>3, LenProperties DEF ToSet

LEMMA LatestIsOne ==
  ASSUME NEW S, NEW s \in Seq(S)
  PROVE  ToSet(s) \subseteq S /\ (s # <<>> => Last(s) \in ToSet(s))
<1>1. Len(s) \in Nat /\ DOMAIN s = 1 .. Len(s) /\ \A i \in 1 .. Len(s) : s[i] \in S
  BY LenProperties, ElementOfSeq
<1>2. s # <<>> => Len(s) \in 1 .. Len(s)
  BY <1>1, EmptySeq
<1> QED BY <1>1, <1>2 DEF ToSet, Last

(* There are tasks, and a worker's declaration makes of its task what TaskState says. *)
LEMMA TasksAre == Items \in Nat \ {0} /\ Tasks = 1 .. Items
<1>1. Len(Request) \in 2 .. 8
  BY BatchAssumption DEF ValidRequest
<1>2. PICK n : n = Items
  OBVIOUS
<1>3. n \in 2 .. 8
  BY <1>1, <1>2 DEF Items
<1> QED BY <1>2, <1>3 DEF Tasks

LEMMA TaskFinalsAre ==
  /\ Outcomes \subseteq {"INCOMPLETE", "COMPLETED", "PARTIAL", "NEEDS_CLARIFICATION", "RESULT_UNREADABLE"}
  /\ {"INCOMPLETE", "UNAVAILABLE", "CANCELLED_OR_UNKNOWN", "REFUSED_OR_FAILED", "NOT_STARTED"} \subseteq TaskFinals
  /\ Outcomes \subseteq TaskFinals
  /\ TaskFinals \subseteq {"INCOMPLETE", "COMPLETED", "PARTIAL", "NEEDS_CLARIFICATION", "RESULT_UNREADABLE",
                       "UNAVAILABLE", "CANCELLED_OR_UNKNOWN", "REFUSED_OR_FAILED", "NOT_STARTED"}
  /\ TaskFinals \subseteq TaskStates /\ "QUEUED" \in TaskStates /\ "RUNNING" \in TaskStates
<1>1. \A answer \in Answers :
        TaskState(answer) \in {"INCOMPLETE", "COMPLETED", "PARTIAL", "NEEDS_CLARIFICATION", "RESULT_UNREADABLE"}
  <2> TAKE answer \in Answers
  <2>1. PICK status : status = ParseWorkerResult(answer)
    OBVIOUS
  <2> QED BY <2>1 DEF TaskState
<1>2. Outcomes \subseteq {"INCOMPLETE", "COMPLETED", "PARTIAL", "NEEDS_CLARIFICATION", "RESULT_UNREADABLE"}
  BY <1>1 DEF Outcomes
<1> QED BY <1>2 DEF TaskFinals, TaskStates

(* The values that stand for "nothing" are none of the values there are. *)
Records == [state : Unfinished \cup BatchFinals, tasks : [Tasks -> TaskStates],
            created : SUBSET Tasks, failed : BOOLEAN]
LEMMA NothingIsNothing ==
  /\ Torn \notin Snapshots /\ Nothing \notin Snapshots /\ NoRecord \notin Records
  /\ Nothing # Torn /\ NoDeletion.step = "none"
<1> QED BY DEF Torn, Nothing, NoRecord, NoDeletion, Snapshots, Records, Unfinished, BatchFinals
(* A worker that has taken a task works for a run that waits for it. *)
LEMMA AtWork ==
  ASSUME BatchStands, NEW w \in Workers, pc[w] \notin {"idle", "exited"}
  PROVE  /\ pc[Main] = "workers" /\ opened /\ active = "run" /\ disposal # "done"
         /\ record \in Records /\ record.state \in Unfinished
         /\ deletion = NoDeletion /\ ~damaged
         /\ Busy(w) => item[w] \in Tasks
<1>1. pc[Main] = "workers" /\ opened
  BY DEF BatchStands, TypeOK, ThreadsStand, MainLabels
<1>2. active = "run" /\ disposal # "done" /\ deletion = NoDeletion /\ record # NoRecord
  BY <1>1 DEF BatchStands, RunnerStands
<1>3. record \in Records /\ record.state \in Unfinished /\ ~damaged
  BY <1>1, <1>2 DEF BatchStands, TypeOK, TasksStand, SavesStand, Records
<1>4. Busy(w) => item[w] \in Tasks
  BY TasksAre DEF BatchStands, TypeOK, TasksStand, Holds
<1> QED BY <1>1, <1>2, <1>3, <1>4

(* What a worker makes of the task it holds: the run goes on, and the other workers do not
   notice. *)
Makes(w, i, label, state) ==
  /\ pc' = [pc EXCEPT ![w] = label]
  /\ record' \in Records
  /\ record'.state = record.state /\ record'.failed = record.failed
  /\ record'.tasks = [record.tasks EXCEPT ![i] = state]
  /\ record'.created \in {record.created, record.created \cup {i}}
  /\ IF label \in Waiting
     THEN commits' = Append(commits, w) /\ settled' = [settled EXCEPT ![w] = "no"]
     ELSE UNCHANGED <<commits, settled>>
  /\ made' \in {made, made \ {w}} /\ (w \in made' => label = "delegating")
  /\ \A j \in Tasks \ {i} : delegated'[j] = delegated[j]
  /\ delegated' \in [Tasks -> Nat]
  /\ label # "delegating" => delegated'[i] = delegated[i]
  /\ UNCHANGED <<active, disposal, item, next, opened, aborted, writing, deletion, disk, saved,
                 damaged, wrote>>
(* And what has to be true of it. *)
Fits(w, i, label, state) ==
  /\ pc[w] \in Waiting => settled[w] # "no"
  /\ label = "unavailable" => state = "UNAVAILABLE" /\ delegated[i] = 0
  /\ label = "committed" => state = "RUNNING" /\ delegated[i] = 0
  /\ label = "delegating" =>
       /\ pc[w] = "committed" /\ settled[w] = "ok"
       /\ state = "RUNNING"
       /\ delegated'[i] = 1
  /\ label \in {"done", "loop", "exited"} => state \in TaskFinals
  /\ state = "COMPLETED" => i \in record'.created
  /\ delegated[i] > 0 => state \notin {"QUEUED", "NOT_STARTED", "UNAVAILABLE"}
  /\ i \in wrote => i \in record'.created \/ state = "RUNNING"
LEMMA WorkerMakes ==
  ASSUME BatchStands, NEW w \in Workers, Busy(w), NEW i \in Tasks, i = item[w],
         NEW label \in WorkerLabels \ {"idle", "select"}, NEW state \in TaskStates,
         Makes(w, i, label, state), Fits(w, i, label, state)
  PROVE  BatchStands'
<1>1. /\ pc[Main] = "workers" /\ opened /\ active = "run" /\ disposal # "done"
      /\ record \in Records /\ record.state \in Unfinished
      /\ deletion = NoDeletion /\ ~damaged
  BY AtWork DEF Busy
<1>2. pc \in [Threads -> MainLabels \cup WorkerLabels] /\ settled \in [Threads -> {"no", "ok", "failed"}]
  BY DEF BatchStands, TypeOK
<1>3. w \in Threads /\ Main \in Threads /\ w # Main
  BY BatchAssumption DEF Threads
<1>4. pc'[w] = label /\ \A t \in Threads \ {w} : pc'[t] = pc[t]
  BY <1>2, <1>3 DEF Makes
<1>5. record'.tasks[i] = state /\ \A j \in Tasks \ {i} : record'.tasks[j] = record.tasks[j]
  BY <1>1 DEF Makes, Records
<1>6. /\ commits' \in Seq(Threads) /\ IsInjective(commits')
      /\ commits # <<>> => commits' # <<>> /\ Head(commits') = Head(commits)
      /\ settled' \in [Threads -> {"no", "ok", "failed"}]
      /\ \A t \in Threads \ {w} : settled'[t] = settled[t]
      /\ \A t \in Threads \ {w} : t \in ToSet(commits') <=> t \in ToSet(commits)
      /\ w \in ToSet(commits') <=> label \in Waiting /\ settled'[w] = "no"
      /\ label \notin Waiting => commits' = commits /\ settled' = settled
  <2>1. w \notin ToSet(commits)
    BY <1>3 DEF Fits, BatchStands, ThreadsStand
  <2>2. CASE label \in Waiting
    <3>1. commits' = Append(commits, w) /\ settled' = [settled EXCEPT ![w] = "no"]
      BY <2>2 DEF Makes
    <3>2. /\ commits' \in Seq(Threads) /\ IsInjective(commits') /\ commits' # <<>>
          /\ ToSet(commits') = ToSet(commits) \cup {w}
          /\ commits # <<>> => Head(commits') = Head(commits)
      BY <1>3, <2>1, <3>1, Joined DEF BatchStands, TypeOK
    <3> QED BY <1>2, <1>3, <2>2, <3>1, <3>2
  <2>3. CASE label \notin Waiting
    BY <1>2, <2>1, <2>3 DEF Makes, BatchStands, TypeOK
  <2> QED BY <2>2, <2>3
<1>8. TypeOK'
  <2>1. pc' \in [Threads -> MainLabels \cup WorkerLabels]
    BY <1>2 DEF Makes
  <2>2. pc'[Main] \in MainLabels /\ \A v \in Workers : pc'[v] \in WorkerLabels
    BY <1>3, <1>4 DEF BatchStands, TypeOK, Threads
  <2> QED BY <1>6, <2>1, <2>2 DEF Makes, BatchStands, TypeOK, Records
<1>9. RunnerStands'
  <2>1. pc'[Main] = pc[Main] /\ record' # NoRecord
    BY <1>3, <1>4, NothingIsNothing DEF Makes
  <2>2. deletion'.step # "remove"
    BY <1>1, NothingIsNothing DEF Makes
  <2> QED BY <1>1, <2>1, <2>2 DEF Makes, BatchStands, RunnerStands
<1>10. ThreadsStand'
  <2>1. pc'[Main] = "workers" /\ opened'
    BY <1>1, <1>3, <1>4 DEF Makes
  <2>2. \A v \in Workers : pc'[v] # "idle"
    BY <1>1, <1>3, <1>4 DEF BatchStands, ThreadsStand, Threads
  <2>3. \A t \in Threads : t \in ToSet(commits') <=> pc'[t] \in Waiting /\ settled'[t] = "no"
    BY <1>4, <1>6 DEF BatchStands, ThreadsStand
  <2>4. writing' # Nothing => commits' # <<>> /\ opened' /\ ~record'.failed
    BY <1>6 DEF Makes, BatchStands, ThreadsStand
  <2> QED BY <2>1, <2>2, <2>3, <2>4 DEF ThreadsStand
<1>11. TasksStand'
  <2>1. \A v \in Workers \ {w} : item[v] # i
    BY TasksAre DEF BatchStands, TasksStand
  <2>2. ASSUME NEW v \in Workers \ {w}, Busy(v)'
        PROVE  Holds(v)'
    <3>1. v \in Threads \ {w} /\ pc'[v] = pc[v] /\ settled'[v] = settled[v] /\ (v \in made' <=> v \in made)
      BY <1>4, <1>6 DEF Threads, Makes
    <3>2. Busy(v) /\ Holds(v)
      BY <2>2, <3>1 DEF Busy, BatchStands, TasksStand
    <3>3. item[v] \in Tasks \ {i}
      <4>1. pc[v] \notin {"idle", "exited"}
        BY <3>2 DEF Busy
      <4>2. item[v] \in Tasks
        BY <3>2, <4>1, AtWork
      <4> QED BY <2>1, <4>2
    <3> QED BY <1>5, <3>1, <3>2, <3>3 DEF Holds, Makes
  <2>3. Busy(w)' => Holds(w)'
    <3>1. label = "delegating" => i \notin wrote
      BY DEF Fits, BatchStands, TasksStand, Holds, HistoryStands
    <3> QED BY <1>4, <1>5, <1>6, <3>1, TasksAre DEF Busy, Holds, Makes, Fits, Waiting
  <2>4. \A v \in made' : pc'[v] = "delegating"
    BY <1>4 DEF Makes, BatchStands, TasksStand, TypeOK, Threads
  <2>5. ASSUME NEW j \in Tasks
        PROVE  IF j >= next THEN record'.tasks[j] = "QUEUED" /\ delegated'[j] = 0
               ELSE record'.tasks[j] \in TaskFinals \/ \E v \in Workers : Busy(v)' /\ item[v] = j
    <3>1. i < next /\ i \in Nat /\ j \in Nat /\ next \in Nat
      BY TasksAre DEF BatchStands, TypeOK, TasksStand
    <3>2. CASE j # i
      <4>1. record'.tasks[j] = record.tasks[j] /\ delegated'[j] = delegated[j]
        BY <1>5, <3>2 DEF Makes
      <4>2. \A v \in Workers : Busy(v) /\ item[v] = j => Busy(v)'
        BY <1>4, <3>2 DEF Busy, Threads
      <4>3. IF j >= next THEN record.tasks[j] = "QUEUED" /\ delegated[j] = 0
            ELSE record.tasks[j] \in TaskFinals \/ \E v \in Workers : Busy(v) /\ item[v] = j
        BY <1>1 DEF BatchStands, TasksStand
      <4> QED BY <4>1, <4>2, <4>3
    <3>3. CASE j = i
      <4>1. record'.tasks[i] \in TaskFinals \/ Busy(w)'
        BY <1>4, <1>5 DEF Busy, Fits, WorkerLabels
      <4> QED BY <3>1, <3>3, <4>1
    <3> QED BY <3>2, <3>3
  <2> QED BY <1>1, <1>3, <1>4, <2>2, <2>3, <2>4, <2>5 DEF Makes, BatchStands, TasksStand
<1>12. SavesStand'
  <2>1. RevisionStands(record)'
    BY <1>1, <1>5 DEF Makes, Fits, BatchStands, SavesStand, RevisionStands
  <2>2. Covers(record)'
    <3>1. Covers(record)
      BY <1>1 DEF BatchStands, SavesStand
    <3>2. wrote' = wrote
      BY DEF Makes
    <3>3. ASSUME NEW j \in Tasks, delegated'[j] > 0
          PROVE  record'.tasks[j] \notin {"QUEUED", "NOT_STARTED", "UNAVAILABLE"}
      BY <1>5, <3>1, <3>3 DEF Makes, Fits, Covers
    <3>4. ASSUME NEW j \in wrote
          PROVE  j \in record'.created \/ record'.tasks[j] = "RUNNING"
      BY <1>5, <3>1, <3>4 DEF Makes, Fits, Covers, BatchStands, TypeOK
    <3> QED BY <3>2, <3>3, <3>4 DEF Covers
  <2>3. ASSUME NEW saying, Covers(saying), label = "delegating" => saying.tasks[i] = "RUNNING"
        PROVE  /\ \A j \in Tasks : delegated'[j] > 0 =>
                    saying.tasks[j] \notin {"QUEUED", "NOT_STARTED", "UNAVAILABLE"}
               /\ \A j \in wrote' : j \in saying.created \/ saying.tasks[j] = "RUNNING"
    BY <2>3 DEF Covers, Makes
  <2>4. label = "delegating" => SaysRunning(w)
    BY DEF Fits, BatchStands, SavesStand
  <2>5. writing' # Nothing => RevisionStands(writing)' /\ Covers(writing)'
    <3>1. SUFFICES ASSUME writing # Nothing
                   PROVE  RevisionStands(writing) /\ Covers(writing)'
      BY DEF Makes, RevisionStands
    <3>2. PICK saying : saying = writing
      OBVIOUS
    <3>3. RevisionStands(saying) /\ Covers(saying)
      BY <3>1, <3>2 DEF BatchStands, SavesStand, RevisionStands, Covers
    <3>4. label = "delegating" => saying.tasks[i] = "RUNNING"
      BY <2>4, <3>1, <3>2 DEF SaysRunning
    <3> QED BY <2>3, <3>2, <3>3, <3>4 DEF Makes, Covers, RevisionStands
  <2>6. Readable' => Covers(Latest)'
    <3>1. SUFFICES ASSUME Readable
                   PROVE  Covers(Latest)'
      BY DEF Makes, Readable
    <3>2. PICK saying : saying = Latest
      OBVIOUS
    <3>3. Covers(saying)
      BY <1>1, <3>1, <3>2 DEF BatchStands, SavesStand, Covers
    <3>4. label = "delegating" => saying.tasks[i] = "RUNNING"
      BY <2>4, <3>1, <3>2 DEF SaysRunning
    <3> QED BY <2>3, <3>2, <3>3, <3>4 DEF Makes, Covers, Latest
  <2>7. \A revision \in ToSet(disk') \ {Torn} : RevisionStands(revision)
    BY DEF Makes, BatchStands, SavesStand
  <2>8. ASSUME NEW v \in Workers
        PROVE  /\ pc'[v] \in {"committed", "delegating"} /\ settled'[v] = "ok" => SaysRunning(v)'
               /\ pc'[v] = "committed" /\ writing' # Nothing /\ Head(commits') = v =>
                    writing'.tasks[item'[v]] = "RUNNING"
    <3>1. SaysRunning(v)' <=> SaysRunning(v)
      BY DEF Makes, SaysRunning, Readable, Latest
    <3>2. writing # Nothing => commits # <<>> /\ Head(commits) \in ToSet(commits)
      BY Left DEF BatchStands, TypeOK, ThreadsStand
    <3>3. w \notin ToSet(commits)
      BY <1>3 DEF Fits, BatchStands, ThreadsStand
    <3>4. CASE v # w
      BY <1>4, <1>6, <3>1, <3>2, <3>4 DEF Threads, Makes, BatchStands, SavesStand
    <3>5. CASE v = w
      BY <1>4, <1>6, <2>4, <3>1, <3>2, <3>3, <3>5 DEF Makes, Waiting
    <3> QED BY <3>4, <3>5
  <2> QED BY <1>1, <2>1, <2>2, <2>5, <2>6, <2>7, <2>8 DEF SavesStand, Makes
<1>13. HistoryStands'
  <2>1. label = "delegating" => disk # <<>>
    BY DEF Fits, BatchStands, SavesStand, SaysRunning
  <2>2. ASSUME NEW j \in Tasks, delegated'[j] > 0
        PROVE  delegated'[j] = 1 /\ disk # <<>>
    BY <2>1, <2>2 DEF Fits, Makes, BatchStands, HistoryStands
  <2>3. ASSUME NEW j \in wrote
        PROVE  delegated'[j] = 1
    BY <2>3 DEF Fits, Makes, BatchStands, HistoryStands, TypeOK
  <2> QED BY <2>2, <2>3 DEF Makes, BatchStands, HistoryStands
<1> QED BY <1>8, <1>9, <1>10, <1>11, <1>12, <1>13 DEF BatchStands
-----------------------------------------------------------------------------
(* A task's state is rewritten in the record. *)
LEMMA Becoming ==
  ASSUME NEW i \in Tasks, NEW state \in TaskStates, record \in Records
  PROVE  /\ record' = [record EXCEPT !.tasks[i] = state] =>
              /\ record' \in Records /\ record'.state = record.state /\ record'.failed = record.failed
              /\ record'.created = record.created
              /\ record'.tasks = [record.tasks EXCEPT ![i] = state]
         /\ record' = [record EXCEPT !.tasks[i] = state, !.created = @ \cup {i}] =>
              /\ record' \in Records /\ record'.state = record.state /\ record'.failed = record.failed
              /\ record'.created = record.created \cup {i}
              /\ record'.tasks = [record.tasks EXCEPT ![i] = state]
<1>1. PICK c \in SUBSET Tasks : c = record.created \cup {i}
  BY DEF Records
<1>2. PICK t \in [Tasks -> TaskStates] : t = [record.tasks EXCEPT ![i] = state]
  BY DEF Records
<1>3. /\ [record EXCEPT !.tasks[i] = state] = [record EXCEPT !.tasks = t]
      /\ [record EXCEPT !.tasks[i] = state, !.created = @ \cup {i}]
           = [record EXCEPT !.tasks = t, !.created = c]
  BY <1>1, <1>2
<1>4. [record EXCEPT !.tasks = t] \in Records /\ [record EXCEPT !.tasks = t, !.created = c] \in Records
  BY <1>1, <1>2 DEF Records
<1> QED BY <1>1, <1>2, <1>3, <1>4 DEF Records

(* Where the end of an iteration leads. *)
LEMMA Ends ==
  ASSUME NEW w, EndTask(w)
  PROVE  \E label \in {"loop", "done"} :
           /\ pc' = [pc EXCEPT ![w] = label]
           /\ IF label \in Waiting
              THEN commits' = Append(commits, w) /\ settled' = [settled EXCEPT ![w] = "no"]
              ELSE UNCHANGED <<commits, settled>>
<1> QED BY DEF EndTask, Commit, Goto, Waiting

LEMMA CatchKeeps ==
  ASSUME BatchStands, NEW w \in Workers, Catch(w), item[w] \notin wrote,
         pc[w] \in {"select", "unavailable", "committed", "delegating"},
         pc[w] \in Waiting => settled[w] # "no",
         made' \in {made, made \ {w}}, w \notin made',
         UNCHANGED <<active, disposal, item, next, opened, aborted, writing, deletion, diskVars>>
  PROVE  BatchStands'
<1>1. Busy(w) /\ record \in Records /\ item[w] \in Tasks
  BY AtWork DEF Busy
<1>2. PICK i \in Tasks : i = item[w]
  BY <1>1
<1>3. PICK state \in {"CANCELLED_OR_UNKNOWN", "REFUSED_OR_FAILED"} :
        record' = [record EXCEPT !.tasks[i] = state]
  BY <1>2 DEF Catch, Becomes
<1>4. PICK label \in {"loop", "done"} :
           /\ pc' = [pc EXCEPT ![w] = label]
           /\ IF label \in Waiting
              THEN commits' = Append(commits, w) /\ settled' = [settled EXCEPT ![w] = "no"]
              ELSE UNCHANGED <<commits, settled>>
  BY Ends DEF Catch
<1>5. state \in TaskStates /\ state \in TaskFinals
  BY TaskFinalsAre
<1>6. Makes(w, i, label, state)
  <2>1. /\ record' \in Records /\ record'.state = record.state /\ record'.failed = record.failed
        /\ record'.created = record.created
        /\ record'.tasks = [record.tasks EXCEPT ![i] = state]
    BY <1>1, <1>3, <1>5, Becoming
  <2> QED BY <1>4, <2>1 DEF Makes, diskVars, BatchStands, TypeOK
<1>7. Fits(w, i, label, state)
  BY <1>2, <1>5 DEF Fits
<1> QED BY <1>1, <1>2, <1>5, <1>6, <1>7, WorkerMakes DEF WorkerLabels

(* A worker that has not delegated its task has had nothing saved for it. *)
LEMMA NothingSaved ==
  ASSUME BatchStands, NEW w \in Workers, pc[w] \in {"select", "unavailable", "committed"}
  PROVE  item[w] \in Tasks /\ item[w] \notin wrote /\ delegated[item[w]] = 0 /\ w \notin made
<1>1. Busy(w) /\ item[w] \in Tasks
  BY AtWork DEF Busy
<1>2. delegated[item[w]] = 0 /\ w \notin made
  BY <1>1 DEF BatchStands, TasksStand, Holds
<1> QED BY <1>1, <1>2 DEF BatchStands, HistoryStands

LEMMA SelectKeeps ==
  ASSUME BatchStands, NEW w \in Workers, Select(w)
  PROVE  BatchStands'
<1>1. pc[w] = "select" /\ UNCHANGED <<active, disposal, item, made, next, opened, aborted, writing, deletion, diskVars>>
  BY DEF Select
<1>2. Busy(w) /\ record \in Records /\ item[w] \in Tasks /\ item[w] \notin wrote /\ delegated[item[w]] = 0
      /\ w \notin made
  BY <1>1, AtWork, NothingSaved DEF Busy
<1>3. PICK i \in Tasks : i = item[w]
  BY <1>2
<1>4. CASE Catch(w)
  BY <1>1, <1>2, <1>4, CatchKeeps DEF Waiting
<1>5. ASSUME NEW label \in {"unavailable", "committed"}, NEW state \in {"UNAVAILABLE", "RUNNING"},
             Becomes(w, state), Commit(w, label), label = "unavailable" <=> state = "UNAVAILABLE"
      PROVE  BatchStands'
  <2>1. state \in TaskStates
    BY TaskFinalsAre
  <2>2. /\ record' \in Records /\ record'.state = record.state /\ record'.failed = record.failed
        /\ record'.created = record.created
        /\ record'.tasks = [record.tasks EXCEPT ![i] = state]
    <3>1. record' = [record EXCEPT !.tasks[i] = state]
      BY <1>3, <1>5 DEF Becomes
    <3> QED BY <1>2, <2>1, <3>1, Becoming
  <2>3. Makes(w, i, label, state)
    BY <1>1, <1>2, <1>5, <2>2 DEF Makes, diskVars, BatchStands, TypeOK, Commit, Goto, Waiting
  <2>4. Fits(w, i, label, state)
    BY <1>1, <1>2, <1>3, <1>5 DEF Fits, Waiting
  <2> QED BY <1>2, <1>3, <2>1, <2>3, <2>4, WorkerMakes DEF WorkerLabels
<1> QED BY <1>4, <1>5 DEF Select

LEMMA UnavailableKeeps ==
  ASSUME BatchStands, NEW w \in Workers, Unavailable(w)
  PROVE  BatchStands'
<1>1. pc[w] = "unavailable" /\ UNCHANGED <<active, disposal, item, made, next, opened, aborted, writing, deletion, diskVars>>
  BY DEF Unavailable
<1>2. Busy(w) /\ record \in Records /\ item[w] \in Tasks /\ item[w] \notin wrote /\ delegated[item[w]] = 0
      /\ w \notin made
  BY <1>1, AtWork, NothingSaved DEF Busy
<1>3. CASE settled[w] = "failed" /\ Catch(w)
  BY <1>1, <1>2, <1>3, CatchKeeps
<1>4. CASE settled[w] = "ok" /\ Goto(w, "loop") /\ UNCHANGED <<record, commits, settled>>
  <2>1. PICK i \in Tasks : i = item[w]
    BY <1>2
  <2>2. record.tasks[i] = "UNAVAILABLE" /\ record.tasks = [record.tasks EXCEPT ![i] = "UNAVAILABLE"]
    BY <1>1, <1>2, <2>1 DEF BatchStands, TasksStand, Holds, Records
  <2>3. "UNAVAILABLE" \in TaskStates /\ "UNAVAILABLE" \in TaskFinals
    BY TaskFinalsAre
  <2>4. Makes(w, i, "loop", "UNAVAILABLE")
    BY <1>1, <1>2, <1>4, <2>2 DEF Makes, diskVars, BatchStands, TypeOK, Goto, Waiting
  <2>5. Fits(w, i, "loop", "UNAVAILABLE")
    BY <1>2, <1>4, <2>1, <2>3 DEF Fits
  <2> QED BY <1>2, <2>1, <2>3, <2>4, <2>5, WorkerMakes DEF WorkerLabels
<1> QED BY <1>3, <1>4 DEF Unavailable

LEMMA DelegateKeeps ==
  ASSUME BatchStands, NEW w \in Workers, Delegate(w)
  PROVE  BatchStands'
<1>1. /\ pc[w] = "committed" /\ settled[w] # "no"
      /\ UNCHANGED <<active, disposal, item, made, next, opened, aborted, writing, deletion,
                     disk, saved, damaged, wrote>>
  BY DEF Delegate
<1>2. Busy(w) /\ record \in Records /\ item[w] \in Tasks /\ item[w] \notin wrote /\ delegated[item[w]] = 0
      /\ w \notin made
  BY <1>1, AtWork, NothingSaved DEF Busy
<1>3. CASE Catch(w) /\ UNCHANGED delegated
  BY <1>1, <1>2, <1>3, CatchKeeps DEF diskVars
<1>4. CASE /\ settled[w] = "ok" /\ Goto(w, "delegating")
           /\ delegated' = [delegated EXCEPT ![item[w]] = @ + 1]
           /\ UNCHANGED <<record, commits, settled>>
  <2>1. PICK i \in Tasks : i = item[w]
    BY <1>2
  <2>2. record.tasks[i] = "RUNNING" /\ record.tasks = [record.tasks EXCEPT ![i] = "RUNNING"]
    BY <1>1, <1>2, <2>1 DEF BatchStands, TasksStand, Holds, Records
  <2>3. delegated' = [delegated EXCEPT ![i] = 1]
    BY <1>2, <1>4, <2>1
  <2>4. delegated \in [Tasks -> Nat]
    BY DEF BatchStands, TypeOK
  <2>5. Makes(w, i, "delegating", "RUNNING")
    BY <1>1, <1>2, <1>4, <2>2, <2>3, <2>4 DEF Makes, Goto, Waiting
  <2>6. Fits(w, i, "delegating", "RUNNING")
    BY <1>1, <1>2, <1>4, <2>1, <2>3, <2>4 DEF Fits
  <2> QED BY <1>2, <2>1, <2>5, <2>6, WorkerMakes, TaskFinalsAre DEF WorkerLabels
<1> QED BY <1>3, <1>4 DEF Delegate

LEMMA AnsweredKeeps ==
  ASSUME BatchStands, NEW w \in Workers, Answered(w)
  PROVE  BatchStands'
<1>1. /\ pc[w] = "delegating" /\ made' = made \ {w}
      /\ UNCHANGED <<active, disposal, item, next, opened, aborted, writing, deletion, diskVars>>
  BY DEF Answered
<1>2. Busy(w) /\ record \in Records /\ item[w] \in Tasks
  BY <1>1, AtWork DEF Busy
<1>3. PICK i \in Tasks : i = item[w]
  BY <1>2
<1>4. CASE w \notin made /\ Catch(w)
  <2>1. item[w] \notin wrote
    BY <1>1, <1>2, <1>4 DEF BatchStands, TasksStand, Holds
  <2> QED BY <1>1, <1>4, <2>1, CatchKeeps DEF Waiting
<1>5. ASSUME NEW state \in Outcomes \cup {"INCOMPLETE"}, EndTask(w),
             record' = [record EXCEPT !.tasks[item[w]] = state, !.created = @ \cup {item[w]}]
      PROVE  BatchStands'
  <2>1. state \in TaskStates /\ state \in TaskFinals /\ state \notin {"QUEUED", "NOT_STARTED", "UNAVAILABLE"}
    BY TaskFinalsAre
  <2>2. /\ record' \in Records /\ record'.state = record.state /\ record'.failed = record.failed
        /\ record'.created = record.created \cup {i}
        /\ record'.tasks = [record.tasks EXCEPT ![i] = state]
    <3>1. record' = [record EXCEPT !.tasks[i] = state, !.created = @ \cup {i}]
      BY <1>3, <1>5
    <3> QED BY <1>2, <2>1, <3>1, Becoming
  <2>3. PICK label \in {"loop", "done"} :
           /\ pc' = [pc EXCEPT ![w] = label]
           /\ IF label \in Waiting
              THEN commits' = Append(commits, w) /\ settled' = [settled EXCEPT ![w] = "no"]
              ELSE UNCHANGED <<commits, settled>>
    BY <1>5, Ends
  <2>4. Makes(w, i, label, state)
    BY <1>1, <2>2, <2>3 DEF Makes, diskVars, BatchStands, TypeOK
  <2>5. Fits(w, i, label, state)
    BY <1>1, <2>1, <2>2 DEF Fits, Waiting
  <2> QED BY <1>2, <1>3, <2>1, <2>4, <2>5, WorkerMakes DEF WorkerLabels
<1> QED BY <1>4, <1>5, TaskFinalsAre DEF Answered

LEMMA DoneKeeps ==
  ASSUME BatchStands, NEW w \in Workers, Done(w)
  PROVE  BatchStands'
<1>1. /\ pc[w] = "done" /\ settled[w] # "no"
      /\ UNCHANGED <<active, disposal, item, made, next, opened, aborted, record, commits,
                     writing, settled, deletion, diskVars>>
  BY DEF Done
<1>2. Busy(w) /\ record \in Records /\ item[w] \in Tasks /\ w \notin made
  BY <1>1, AtWork DEF Busy, BatchStands, TasksStand
<1>3. PICK label \in {"loop", "exited"} : pc' = [pc EXCEPT ![w] = label]
  BY DEF Done, Goto
<1>4. PICK i \in Tasks : i = item[w]
  BY <1>2
<1>5. PICK state \in TaskFinals : state = record.tasks[i]
  BY <1>1, <1>2, <1>4 DEF BatchStands, TasksStand, Holds
<1>6. record.tasks = [record.tasks EXCEPT ![i] = state] /\ state \in TaskStates
  BY <1>2, <1>5, TaskFinalsAre DEF Records
<1>7. Makes(w, i, label, state)
  BY <1>1, <1>2, <1>3, <1>6 DEF Makes, diskVars, BatchStands, TypeOK, Waiting
<1>8. RevisionStands(record) /\ Covers(record)
  BY <1>1, AtWork DEF BatchStands, SavesStand
<1>9. Fits(w, i, label, state)
  BY <1>1, <1>5, <1>8 DEF Fits, RevisionStands, Covers
<1> QED BY <1>2, <1>4, <1>6, <1>7, <1>9, WorkerMakes DEF WorkerLabels
-----------------------------------------------------------------------------
(* A worker in its loop waits for nothing. *)
LEMMA TakeKeeps ==
  ASSUME BatchStands, NEW w \in Workers, Take(w)
  PROVE  BatchStands'
<1>1. /\ pc[w] = "loop"
      /\ UNCHANGED <<active, disposal, made, opened, aborted, record, commits, writing, settled,
                     deletion, diskVars>>
  BY DEF Take
<1>2. /\ pc[Main] = "workers" /\ opened /\ active = "run" /\ disposal # "done"
      /\ record \in Records /\ record.state \in Unfinished
      /\ deletion = NoDeletion /\ ~damaged
  BY <1>1, AtWork
<1>3. /\ pc \in [Threads -> MainLabels \cup WorkerLabels] /\ item \in [Workers -> 0 .. Items]
      /\ next \in 1 .. Items + 1 /\ Items \in Nat \ {0} /\ Tasks = 1 .. Items
      /\ w \in Threads /\ Main \in Threads /\ w # Main
      /\ w \notin ToSet(commits)
  BY <1>1, BatchAssumption, TasksAre DEF BatchStands, TypeOK, ThreadsStand, Threads, Waiting
<1>4. PICK label \in {"select", "exited"} : pc' = [pc EXCEPT ![w] = label]
  BY DEF Take, Goto
<1>5. pc'[w] = label /\ \A t \in Threads \ {w} : pc'[t] = pc[t]
  BY <1>3, <1>4
<1>6. /\ label = "select" => next \in Tasks /\ item' = [item EXCEPT ![w] = next] /\ next' = next + 1
      /\ label = "exited" => item' = item /\ next' = next
  <2>1. CASE next <= Items /\ ~aborted /\ ~record.failed
    BY <1>3, <1>5, <2>1 DEF Take, Goto
  <2>2. CASE ~(next <= Items /\ ~aborted /\ ~record.failed)
    BY <1>3, <1>5, <2>2 DEF Take, Goto
  <2> QED BY <2>1, <2>2
<1>7. /\ item' \in [Workers -> 0 .. Items] /\ next' \in 1 .. Items + 1 /\ next <= next'
      /\ \A v \in Workers \ {w} : item'[v] = item[v]
      /\ label = "select" => item'[w] = next
  BY <1>3, <1>4, <1>6
<1>8. TypeOK'
  <2>1. pc' \in [Threads -> MainLabels \cup WorkerLabels]
    BY <1>3, <1>4 DEF WorkerLabels
  <2>2. pc'[Main] \in MainLabels /\ \A v \in Workers : pc'[v] \in WorkerLabels
    BY <1>3, <1>5 DEF BatchStands, TypeOK, Threads, WorkerLabels
  <2> QED BY <1>1, <1>7, <2>1, <2>2 DEF BatchStands, TypeOK, diskVars
<1>9. RunnerStands'
  <2>1. pc'[Main] = pc[Main] /\ deletion.step # "remove"
    BY <1>2, <1>3, <1>5, NothingIsNothing
  <2> QED BY <1>1, <1>2, <2>1 DEF BatchStands, RunnerStands
<1>10. ThreadsStand'
  <2>1. pc'[Main] = "workers"
    BY <1>2, <1>3, <1>5
  <2>2. \A v \in Workers : pc'[v] # "idle"
    BY <1>2, <1>5 DEF BatchStands, ThreadsStand, Threads
  <2>3. \A t \in Threads : t \in ToSet(commits') <=> pc'[t] \in Waiting /\ settled'[t] = "no"
    BY <1>1, <1>3, <1>5 DEF BatchStands, ThreadsStand, Waiting
  <2> QED BY <1>1, <1>2, <2>1, <2>2, <2>3 DEF BatchStands, ThreadsStand
<1>11. TasksStand'
  <2>1. \A v \in Workers : item'[v] < next'
    BY <1>3, <1>6, <1>7 DEF BatchStands, TasksStand
  <2>2. \A u, v \in Workers : u # v => item'[u] # item'[v] \/ item'[u] = 0
    <3>1. CASE label = "exited"
      BY <1>6, <3>1 DEF BatchStands, TasksStand
    <3>2. CASE label = "select"
      <4>1. \A v \in Workers \ {w} : item'[v] # next /\ item'[w] = next
        BY <1>3, <1>7, <3>2 DEF BatchStands, TasksStand
      <4> QED BY <1>7, <4>1 DEF BatchStands, TasksStand
    <3> QED BY <3>1, <3>2
  <2>3. ASSUME NEW v \in Workers, Busy(v)'
        PROVE  Holds(v)'
    <3>1. CASE v # w
      <4>1. pc'[v] = pc[v] /\ item'[v] = item[v]
        BY <1>5, <1>7, <3>1 DEF Threads
      <4>2. Holds(v)
        BY <2>3, <4>1 DEF Busy, BatchStands, TasksStand
      <4> QED BY <1>1, <4>1, <4>2 DEF Holds, diskVars
    <3>2. CASE v = w
      <4>1. label = "select" /\ item'[w] = next /\ next \in Tasks
        BY <1>5, <1>6, <1>7, <2>3, <3>2 DEF Busy
      <4>2. record.tasks[next] = "QUEUED" /\ delegated[next] = 0 /\ next # 0
        BY <1>2, <1>3, <4>1 DEF BatchStands, TasksStand
      <4> QED BY <1>1, <1>5, <3>2, <4>1, <4>2 DEF Holds, diskVars
    <3> QED BY <3>1, <3>2
  <2>4. \A v \in made : pc'[v] = "delegating"
    BY <1>1, <1>5 DEF BatchStands, TasksStand, TypeOK, Threads
  <2>5. ASSUME NEW j \in Tasks
        PROVE  IF j >= next' THEN record.tasks[j] = "QUEUED" /\ delegated[j] = 0
               ELSE record.tasks[j] \in TaskFinals \/ \E v \in Workers : Busy(v)' /\ item'[v] = j
    <3>1. IF j >= next THEN record.tasks[j] = "QUEUED" /\ delegated[j] = 0
          ELSE record.tasks[j] \in TaskFinals \/ \E v \in Workers : Busy(v) /\ item[v] = j
      BY <1>2 DEF BatchStands, TasksStand
    <3>2. \A v \in Workers : Busy(v) => Busy(v)' /\ item'[v] = item[v]
      BY <1>1, <1>5, <1>7 DEF Busy, Threads
    <3>3. j \in Nat /\ next \in Nat /\ next' \in Nat
      BY <1>3, <1>7
    <3>4. CASE j = next /\ label = "select"
      BY <1>3, <1>5, <1>6, <1>7, <3>4 DEF Busy
    <3>5. CASE j # next \/ label = "exited"
      <4>1. j >= next' <=> j >= next
        BY <1>6, <3>3, <3>5
      <4> QED BY <3>1, <3>2, <4>1
    <3> QED BY <3>4, <3>5
  <2> QED BY <1>1, <1>2, <2>1, <2>2, <2>3, <2>4, <2>5 DEF TasksStand, diskVars
<1>12. SavesStand'
  <2>1. ASSUME NEW v \in Workers
        PROVE  /\ pc'[v] \in {"committed", "delegating"} /\ settled[v] = "ok" => SaysRunning(v)'
               /\ pc'[v] = "committed" /\ writing # Nothing /\ Head(commits) = v =>
                    writing.tasks[item'[v]] = "RUNNING"
    <3>1. CASE v = w
      BY <1>5, <3>1
    <3>2. CASE v # w
      <4>1. pc'[v] = pc[v] /\ item'[v] = item[v]
        BY <1>5, <1>7, <3>2 DEF Threads
      <4> QED BY <1>1, <4>1 DEF BatchStands, SavesStand, SaysRunning, Readable, Latest, diskVars
    <3> QED BY <3>1, <3>2
  <2> QED BY <1>1, <2>1 DEF BatchStands, SavesStand, RevisionStands, Covers, Readable, Latest, diskVars
<1>13. HistoryStands'
  BY <1>1 DEF BatchStands, HistoryStands, diskVars
<1> QED BY <1>8, <1>9, <1>10, <1>11, <1>12, <1>13 DEF BatchStands

(* The dispatcher saves an assignment of a task that the record on disk says is running. *)
LEMMA AssignedKeeps ==
  ASSUME BatchStands, NEW w \in Workers, Assigned(w)
  PROVE  BatchStands'
<1>1. /\ pc[w] = "delegating" /\ w \notin made
      /\ made' = made \cup {w} /\ saved' = saved \cup {item[w]} /\ wrote' = wrote \cup {item[w]}
      /\ UNCHANGED <<active, disposal, pc, item, next, opened, aborted, record, commits,
                     writing, settled, deletion, disk, damaged, delegated>>
  BY DEF Assigned
<1>2. /\ pc[Main] = "workers" /\ opened /\ active = "run" /\ disposal # "done"
      /\ record \in Records /\ record.state \in Unfinished
      /\ deletion = NoDeletion /\ ~damaged
      /\ Busy(w) /\ item[w] \in Tasks
  BY <1>1, AtWork DEF Busy
<1>3. PICK i \in Tasks : i = item[w]
  BY <1>2
<1>4. record.tasks[i] = "RUNNING" /\ delegated[i] = 1 /\ settled[w] = "ok" /\ i # 0
  BY <1>1, <1>2, <1>3 DEF BatchStands, TasksStand, Holds
<1>5. SaysRunning(w)
  BY <1>1, <1>4 DEF BatchStands, SavesStand
<1>6. TypeOK'
  BY <1>1, <1>2 DEF BatchStands, TypeOK
<1>7. RunnerStands'
  <2>1. deletion.step # "remove"
    BY <1>2, NothingIsNothing
  <2> QED BY <1>1, <2>1 DEF BatchStands, RunnerStands
<1>8. ThreadsStand'
  BY <1>1, <1>2 DEF BatchStands, ThreadsStand
<1>9. TasksStand'
  <2>1. ASSUME NEW v \in Workers, Busy(v)
        PROVE  Holds(v)'
    <3>1. Holds(v)
      BY <2>1 DEF BatchStands, TasksStand
    <3>2. v # w => item[v] # i
      BY <1>3, <1>4 DEF BatchStands, TasksStand
    <3> QED BY <1>1, <1>3, <3>1, <3>2 DEF Holds
  <2>2. \A v \in Workers : Busy(v)' <=> Busy(v)
    BY <1>1 DEF Busy
  <2> QED BY <1>1, <1>2, <2>1, <2>2 DEF BatchStands, TasksStand
<1>10. SavesStand'
  <2>1. Covers(record)'
    BY <1>1, <1>2, <1>3, <1>4 DEF BatchStands, SavesStand, Covers
  <2>2. writing # Nothing => Covers(writing)'
    BY <1>1, <1>3, <1>5 DEF BatchStands, SavesStand, Covers, SaysRunning
  <2>3. Readable => Covers(Latest)'
    BY <1>1, <1>2, <1>3, <1>5 DEF BatchStands, SavesStand, Covers, SaysRunning, Latest
  <2> QED BY <1>1, <2>1, <2>2, <2>3 DEF BatchStands, SavesStand, RevisionStands, SaysRunning, Readable, Latest
<1>11. HistoryStands'
  BY <1>1, <1>2, <1>3, <1>4, <1>5 DEF BatchStands, HistoryStands, SaysRunning
<1> QED BY <1>6, <1>7, <1>8, <1>9, <1>10, <1>11 DEF BatchStands
-----------------------------------------------------------------------------
(* What a save leaves on disk, whether it goes through, fails or is cut off. *)
LEMMA SaveLeaves ==
  ASSUME BatchStands, writing # Nothing, disk' \in SaveOutcomes, UNCHANGED <<delegated, wrote>>
  PROVE  /\ disk' \in Seq(Snapshots \cup {Torn})
         /\ disk # <<>> => disk' # <<>>
         /\ \A revision \in ToSet(disk') \ {Torn} : RevisionStands(revision)
         /\ Readable' => Covers(Latest)'
<1>1. /\ disk \in Seq(Snapshots \cup {Torn}) /\ writing \in Snapshots /\ ~damaged /\ opened
      /\ RevisionStands(writing) /\ Covers(writing)
      /\ \A revision \in ToSet(disk) \ {Torn} : RevisionStands(revision)
      /\ Readable => Covers(Latest)
  BY DEF BatchStands, TypeOK, ThreadsStand, SavesStand
<1>2. CASE disk' = disk
  BY <1>1, <1>2 DEF Readable, Latest, Covers
<1>3. ASSUME NEW e \in Snapshots \cup {Torn}, e \in {writing, Torn}, disk' = Append(disk, e)
      PROVE  /\ disk' \in Seq(Snapshots \cup {Torn}) /\ disk' # <<>> /\ Latest' = e
             /\ ToSet(disk') = ToSet(disk) \cup {e}
  BY <1>1, <1>3, Extended DEF Latest
<1>4. CASE disk' = Append(disk, writing)
  <2>1. /\ disk' \in Seq(Snapshots \cup {Torn}) /\ disk' # <<>> /\ Last(disk') = writing
        /\ ToSet(disk') = ToSet(disk) \cup {writing}
    BY <1>1, <1>4, Extended
  <2>2. Covers(Latest)'
    BY <1>1, <2>1 DEF Covers, Latest
  <2> QED BY <1>1, <2>1, <2>2 DEF Latest, RevisionStands
<1>5. CASE disk' = Append(disk, Torn)
  <2>1. /\ disk' \in Seq(Snapshots \cup {Torn}) /\ disk' # <<>> /\ Last(disk') = Torn
        /\ ToSet(disk') = ToSet(disk) \cup {Torn}
    BY <1>1, <1>5, Extended
  <2> QED BY <1>1, <2>1 DEF Readable
<1> QED BY <1>2, <1>4, <1>5 DEF SaveOutcomes

(* And a removal, which may stop half way and then leaves a record that nobody trusts. *)
LEMMA RemovalLeaves ==
  ASSUME BatchStands, Removed, UNCHANGED saved
  PROVE  /\ disk' \in Seq(Snapshots \cup {Torn}) /\ damaged' \in BOOLEAN
         /\ delegated' \in [Tasks -> Nat] /\ wrote' \subseteq Tasks
         /\ \A revision \in ToSet(disk') \ {Torn} : RevisionStands(revision)
         /\ Readable' /\ ~damaged' => Covers(Latest)'
         /\ HistoryStands'
<1>1. /\ disk \in Seq(Snapshots \cup {Torn}) /\ delegated \in [Tasks -> Nat] /\ wrote \subseteq Tasks
      /\ damaged \in BOOLEAN
      /\ \A revision \in ToSet(disk) \ {Torn} : RevisionStands(revision)
      /\ Readable /\ ~damaged => Covers(Latest)
  BY DEF BatchStands, TypeOK, SavesStand
<1>2. /\ disk' \in RemovedOutcomes
      /\ damaged' = (disk' # <<>> /\ (damaged \/ disk' # disk))
      /\ delegated' = IF disk' = <<>> THEN [i \in Tasks |-> 0] ELSE delegated
      /\ wrote' = IF disk' = <<>> THEN {} ELSE wrote
  BY DEF Removed
<1>3. disk' \in Seq(Snapshots \cup {Torn}) /\ ToSet(disk') \subseteq ToSet(disk) \cup {Torn}
  <2>1. CASE \E n \in 0 .. Len(disk) : disk' = SubSeq(disk, 1, n)
    BY <1>1, <2>1, Shortened
  <2>2. CASE disk' = <<Torn>>
    BY <2>2 DEF ToSet
  <2> QED BY <1>2, <2>1, <2>2 DEF RemovedOutcomes
<1>4. Readable' /\ ~damaged' => Covers(Latest)'
  BY <1>1, <1>2 DEF Readable, Latest, Covers
<1>5. HistoryStands'
  <2>1. CASE disk' = <<>>
    <3>1. wrote' = {} /\ damaged' = FALSE /\ \A i \in Tasks : delegated'[i] = 0
      BY <1>2, <2>1
    <3> QED BY <3>1 DEF HistoryStands
  <2>2. CASE disk' # <<>>
    BY <1>1, <1>2, <2>2 DEF BatchStands, HistoryStands
  <2> QED BY <2>1, <2>2
<1> QED BY <1>1, <1>2, <1>3, <1>4, <1>5

(* A deletion that is not forced spares every assignment the batch has made. *)
LEMMA DeletionSpares ==
  ASSUME BatchStands, deletion.step = "remove", TRUE \notin Forces, ~damaged
  PROVE  deletion.task \notin wrote
<1>1. deletion.task \in Tasks /\ deletion.force \in Forces /\ deletion.force \in BOOLEAN
  BY NothingIsNothing, BatchAssumption DEF BatchStands, TypeOK
<1>2. disk = <<>> \/ (Readable /\ ~Referenced(deletion.task))
  BY <1>1 DEF BatchStands, RunnerStands, Deletable
<1>3. CASE disk = <<>>
  BY <1>1, <1>3 DEF BatchStands, HistoryStands
<1>4. CASE Readable /\ ~Referenced(deletion.task)
  BY <1>1, <1>4 DEF BatchStands, SavesStand, Covers, Referenced
<1> QED BY <1>2, <1>3, <1>4

(* Without a run nothing is true of the batch but what its record says. *)
LEMMA EndRunKeeps ==
  ASSUME EndRun, active' = "none", disposal' \in {"none", "done"}, deletion' = NoDeletion,
         disk' \in Seq(Snapshots \cup {Torn}), saved' \subseteq Tasks, damaged' \in BOOLEAN,
         delegated' \in [Tasks -> Nat], wrote' \subseteq Tasks,
         \A revision \in ToSet(disk') \ {Torn} : RevisionStands(revision),
         Readable' /\ ~damaged' => Covers(Latest)', HistoryStands'
  PROVE  BatchStands'
<1>1. /\ pc' = [t \in Threads |-> "idle"] /\ item' = [w \in Workers |-> 0] /\ made' = {}
      /\ next' = 1 /\ opened' = FALSE /\ aborted' = FALSE /\ record' = NoRecord
      /\ commits' = <<>> /\ writing' = Nothing /\ settled' = [t \in Threads |-> "no"]
  BY DEF EndRun
<1>2. /\ Main \in Threads /\ Workers \subseteq Threads
      /\ pc'[Main] = "idle" /\ \A t \in Threads : pc'[t] = "idle"
  BY <1>1 DEF Threads
<1>3. ToSet(commits') = {} /\ commits' \in Seq(Threads) /\ IsInjective(commits')
  BY <1>1, EmptySeq DEF ToSet, IsInjective
<1>4. TypeOK'
  <2>1. /\ pc' \in [Threads -> MainLabels \cup WorkerLabels] /\ pc'[Main] \in MainLabels
        /\ \A w \in Workers : pc'[w] \in WorkerLabels
        /\ settled' \in [Threads -> {"no", "ok", "failed"}]
    BY <1>1, <1>2 DEF MainLabels, WorkerLabels
  <2>2. item' \in [Workers -> 0 .. Items] /\ next' \in 1 .. Items + 1 /\ made' \subseteq Workers
    BY <1>1, TasksAre
  <2>3. opened' \in BOOLEAN /\ aborted' \in BOOLEAN /\ record' = NoRecord /\ writing' = Nothing
    BY <1>1
  <2> QED BY <1>3, <2>1, <2>2, <2>3 DEF TypeOK
<1>5. RunnerStands'
  BY <1>1, <1>2, NothingIsNothing DEF RunnerStands
<1>6. ThreadsStand'
  BY <1>1, <1>2, <1>3 DEF ThreadsStand, Waiting
<1>7. TasksStand'
  BY <1>1, <1>2 DEF TasksStand, Busy
<1>8. SavesStand'
  BY <1>1, <1>2 DEF SavesStand
<1> QED BY <1>4, <1>5, <1>6, <1>7, <1>8 DEF BatchStands

LEMMA CloseKeeps ==
  ASSUME BatchStands, Close
  PROVE  BatchStands'
<1>1. /\ pc[Main] = "closing" /\ active' = "none" /\ EndRun /\ UNCHANGED <<deletion, diskVars>>
      /\ disposal' = IF disposal = "waiting" THEN "done" ELSE disposal
  BY DEF Close, Release
<1>2. active = "run" /\ deletion = NoDeletion /\ disposal' \in {"none", "done"}
  BY <1>1 DEF BatchStands, RunnerStands, TypeOK
<1> QED BY <1>1, <1>2, EndRunKeeps
     DEF BatchStands, TypeOK, SavesStand, Readable, Latest, Covers, HistoryStands, diskVars

LEMMA CrashKeeps ==
  ASSUME BatchStands, Crash
  PROVE  BatchStands'
<1>1. /\ EndRun /\ active' = "none" /\ disposal' = "none" /\ deletion' = NoDeletion
      /\ saved' \in IF deletion.step = "remove" THEN {saved, saved \ {deletion.task}} ELSE {saved}
  BY DEF Crash
<1>2. /\ disk \in Seq(Snapshots \cup {Torn}) /\ delegated \in [Tasks -> Nat] /\ wrote \subseteq Tasks
      /\ damaged \in BOOLEAN /\ saved \subseteq Tasks /\ saved' \subseteq Tasks
      /\ \A revision \in ToSet(disk) \ {Torn} : RevisionStands(revision)
      /\ Readable /\ ~damaged => Covers(Latest)
  BY <1>1 DEF BatchStands, TypeOK, SavesStand
<1>3. CASE active = "forget"
  <2>1. deletion.step # "remove"
    BY <1>3, NothingIsNothing DEF BatchStands, RunnerStands
  <2>2. Removed /\ saved' = saved
    BY <1>1, <1>3, <2>1 DEF Crash
  <2> QED BY <1>1, <1>2, <2>2, RemovalLeaves, EndRunKeeps
<1>4. CASE active # "forget" /\ writing # Nothing
  <2>1. disk' \in SaveOutcomes /\ UNCHANGED <<damaged, delegated, wrote>>
    BY <1>4 DEF Crash
  <2>2. pc[Main] # "idle"
    BY <1>4 DEF BatchStands, ThreadsStand
  <2>3. deletion = NoDeletion /\ saved' = saved
    BY <1>1, <2>2, NothingIsNothing DEF BatchStands, RunnerStands
  <2>4. /\ disk' \in Seq(Snapshots \cup {Torn})
        /\ disk # <<>> => disk' # <<>>
        /\ \A revision \in ToSet(disk') \ {Torn} : RevisionStands(revision)
        /\ Readable' => Covers(Latest)'
    BY <1>4, <2>1, SaveLeaves
  <2>5. HistoryStands'
    BY <2>1, <2>3, <2>4 DEF BatchStands, HistoryStands
  <2> QED BY <1>1, <1>2, <2>1, <2>4, <2>5, EndRunKeeps
<1>5. CASE active # "forget" /\ writing = Nothing
  <2>1. UNCHANGED <<disk, damaged, delegated, wrote>>
    BY <1>5 DEF Crash
  <2>2. HistoryStands'
    <3>1. TRUE \notin Forces /\ ~damaged => wrote \subseteq saved'
      BY <1>1, DeletionSpares DEF BatchStands, HistoryStands
    <3> QED BY <2>1, <3>1 DEF BatchStands, HistoryStands
  <2> QED BY <1>1, <1>2, <2>1, <2>2, EndRunKeeps DEF Readable, Latest, Covers
<1> QED BY <1>3, <1>4, <1>5
-----------------------------------------------------------------------------
(* What the run makes of its record while no worker is at work. *)
MainMakes(label) ==
  /\ pc' = [pc EXCEPT ![Main] = label]
  /\ IF label \in Waiting
     THEN commits' = Append(commits, Main) /\ settled' = [settled EXCEPT ![Main] = "no"]
     ELSE UNCHANGED <<commits, settled>>
  /\ opened' \in BOOLEAN
  /\ opened' => record' \in Records
  /\ ~opened' => record' = NoRecord
  /\ UNCHANGED <<active, disposal, item, made, next, aborted, writing, deletion, diskVars>>
MainFits(label) ==
  /\ pc[Main] \in {"lookup", "planned", "running", "workers", "final"}
  /\ pc[Main] \in Waiting => settled[Main] # "no"
  /\ \A w \in Workers : pc[w] \in {"idle", "exited"}
  /\ IF opened THEN opened' /\ record'.failed = record.failed
               ELSE opened' => ~record'.failed /\ disposal = "none"
  /\ label # "closing" => opened'
  /\ label \in {"planned", "running"} =>
       /\ pc[Main] \in {"lookup", "planned"}
       /\ record'.state \in Unfinished
       /\ \A i \in Tasks : record'.tasks[i] = "QUEUED" /\ delegated[i] = 0
  /\ opened' => RevisionStands(record)' /\ Covers(record)' /\ ~damaged
LEMMA MainMoves ==
  ASSUME BatchStands, NEW label \in {"planned", "running", "final", "closing"},
         MainMakes(label), MainFits(label)
  PROVE  BatchStands'
<1>1. /\ pc \in [Threads -> MainLabels \cup WorkerLabels] /\ settled \in [Threads -> {"no", "ok", "failed"}]
      /\ Main \in Threads /\ Workers \subseteq Threads \ {Main} /\ Threads \ {Main} \subseteq Workers
  BY BatchAssumption DEF BatchStands, TypeOK, Threads
<1>2. pc'[Main] = label /\ \A w \in Workers : pc'[w] = pc[w]
  BY <1>1 DEF MainMakes
<1>3. Main \notin ToSet(commits)
  BY <1>1 DEF MainFits, BatchStands, ThreadsStand
<1>4. /\ commits' \in Seq(Threads) /\ IsInjective(commits')
      /\ commits # <<>> => commits' # <<>>
      /\ settled' \in [Threads -> {"no", "ok", "failed"}]
      /\ \A w \in Workers : settled'[w] = settled[w] /\ (w \in ToSet(commits') <=> w \in ToSet(commits))
      /\ Main \in ToSet(commits') <=> label \in Waiting /\ settled'[Main] = "no"
  <2>1. CASE label \in Waiting
    <3>1. commits' = Append(commits, Main) /\ settled' = [settled EXCEPT ![Main] = "no"]
      BY <2>1 DEF MainMakes
    <3>2. /\ commits' \in Seq(Threads) /\ IsInjective(commits') /\ commits' # <<>>
          /\ ToSet(commits') = ToSet(commits) \cup {Main}
      BY <1>1, <1>3, <3>1, Joined DEF BatchStands, TypeOK
    <3> QED BY <1>1, <2>1, <3>1, <3>2
  <2>2. CASE label \notin Waiting
    BY <1>1, <1>3, <2>2 DEF MainMakes, BatchStands, TypeOK
  <2> QED BY <2>1, <2>2
<1>5. TypeOK'
  <2>1. pc' \in [Threads -> MainLabels \cup WorkerLabels] /\ pc'[Main] \in MainLabels
    BY <1>1, <1>2 DEF MainMakes, MainLabels
  <2>2. record' # NoRecord => record' \in Records
    BY DEF MainMakes
  <2> QED BY <1>2, <1>4, <2>1, <2>2 DEF MainMakes, BatchStands, TypeOK, Records, diskVars
<1>6. RunnerStands'
  <2>1. active = "run" /\ deletion = NoDeletion /\ deletion.step # "remove" /\ pc'[Main] # "idle"
    BY <1>2, NothingIsNothing DEF MainFits, BatchStands, RunnerStands
  <2>2. opened' <=> record' # NoRecord
    BY NothingIsNothing DEF MainMakes
  <2>3. opened' /\ (record'.failed \/ disposal # "none") => aborted
    BY DEF MainFits, BatchStands, RunnerStands
  <2> QED BY <2>1, <2>2, <2>3 DEF MainMakes, BatchStands, RunnerStands
<1>7. ThreadsStand'
  <2>1. label \in {"planned", "running"} =>
          /\ \A w \in Workers : pc'[w] = "idle"
          /\ next' = 1 /\ made' = {}
    BY <1>2 DEF MainMakes, MainFits, BatchStands, ThreadsStand
  <2>2. \A t \in Threads : t \in ToSet(commits') <=> pc'[t] \in Waiting /\ settled'[t] = "no"
    BY <1>1, <1>2, <1>4 DEF BatchStands, ThreadsStand
  <2>3. writing' # Nothing => commits' # <<>> /\ opened' /\ ~record'.failed
    BY <1>4 DEF MainMakes, MainFits, BatchStands, ThreadsStand
  <2> QED BY <1>2, <2>1, <2>2, <2>3 DEF MainFits, ThreadsStand
<1>8. TasksStand'
  <2>1. \A w \in Workers : ~Busy(w)'
    BY <1>2 DEF MainFits, Busy
  <2>2. made' = {}
    BY DEF MainMakes, MainFits, BatchStands, TasksStand, TypeOK
  <2>3. label \in {"planned", "running"} => next' = 1
    BY DEF MainMakes, MainFits, BatchStands, ThreadsStand
  <2> QED BY <1>2, <2>1, <2>2, <2>3, TasksAre DEF MainMakes, MainFits, BatchStands, TasksStand, diskVars
<1>9. SavesStand'
  BY <1>2 DEF MainMakes, MainFits, BatchStands, SavesStand, RevisionStands, Covers, Readable, Latest, diskVars
<1>10. HistoryStands'
  BY DEF MainMakes, BatchStands, HistoryStands, diskVars
<1> QED BY <1>5, <1>6, <1>7, <1>8, <1>9, <1>10 DEF BatchStands

LEMMA LookupKeeps ==
  ASSUME BatchStands, Lookup
  PROVE  BatchStands'
<1>1. /\ pc[Main] = "lookup"
      /\ UNCHANGED <<active, disposal, item, made, next, aborted, writing, deletion, diskVars>>
  BY DEF Lookup
<1>2. ~opened /\ record = NoRecord /\ \A w \in Workers : pc[w] = "idle"
  BY <1>1 DEF BatchStands, ThreadsStand, RunnerStands
<1>3. CASE Goto(Main, "closing") /\ UNCHANGED <<opened, record, commits, settled>>
  <2>1. MainMakes("closing")
    BY <1>1, <1>2, <1>3 DEF MainMakes, Goto, Waiting, BatchStands, TypeOK
  <2>2. MainFits("closing")
    BY <1>1, <1>2, <1>3 DEF MainFits, Waiting
  <2> QED BY <2>1, <2>2, MainMoves
<1>4. CASE /\ ~Taken /\ disposal = "none" /\ opened' = TRUE
           /\ record' = [state |-> "PLANNED", failed |-> FALSE, created |-> {},
                         tasks |-> [i \in Tasks |-> "QUEUED"]]
           /\ Commit(Main, "planned")
  <2>1. /\ record' \in Records /\ record'.state = "PLANNED" /\ record'.failed = FALSE
        /\ \A i \in Tasks : record'.tasks[i] = "QUEUED"
    BY <1>4, TaskFinalsAre DEF Records, Unfinished
  <2>2. ~damaged /\ wrote = {} /\ \A i \in Tasks : delegated[i] = 0
    BY <1>4 DEF Taken, BatchStands, HistoryStands, TypeOK
  <2>3. MainMakes("planned")
    BY <1>1, <1>4, <2>1 DEF MainMakes, Commit, Goto, Waiting
  <2>4. RevisionStands(record)' /\ Covers(record)'
    BY <1>1, <2>1, <2>2 DEF RevisionStands, Covers, Unfinished, diskVars
  <2>5. MainFits("planned")
    BY <1>1, <1>2, <1>4, <2>1, <2>2, <2>4 DEF MainFits, Waiting, Unfinished
  <2> QED BY <2>3, <2>5, MainMoves
<1> QED BY <1>3, <1>4 DEF Lookup

(* A run that waits for its commit has a record, and no worker yet or no worker any more. *)
LEMMA MainWaits ==
  ASSUME BatchStands, pc[Main] \in {"planned", "running", "workers", "final"}
  PROVE  /\ opened /\ record \in Records /\ ~damaged /\ RevisionStands(record) /\ Covers(record)
         /\ pc[Main] \in {"planned", "running"} =>
              /\ next = 1 /\ record.state \in Unfinished
              /\ \A w \in Workers : pc[w] = "idle"
              /\ \A i \in Tasks : record.tasks[i] = "QUEUED" /\ delegated[i] = 0
<1>1. opened /\ record # NoRecord
  BY DEF BatchStands, ThreadsStand, RunnerStands
<1>2. record \in Records /\ ~damaged /\ RevisionStands(record) /\ Covers(record)
  BY <1>1 DEF BatchStands, TypeOK, SavesStand, Records
<1>3. pc[Main] \in {"planned", "running"} =>
        /\ next = 1 /\ record.state \in Unfinished
        /\ \A w \in Workers : pc[w] = "idle"
  BY DEF BatchStands, ThreadsStand, TasksStand
<1>4. pc[Main] \in {"planned", "running"} => \A i \in Tasks : record.tasks[i] = "QUEUED" /\ delegated[i] = 0
  BY <1>3, TasksAre DEF BatchStands, TasksStand
<1> QED BY <1>1, <1>2, <1>3, <1>4

LEMMA PlannedKeeps ==
  ASSUME BatchStands, Planned
  PROVE  BatchStands'
<1>1. /\ pc[Main] = "planned"
      /\ UNCHANGED <<active, disposal, item, made, next, opened, aborted, writing, deletion, diskVars>>
  BY DEF Planned
<1>2. /\ opened /\ record \in Records /\ ~damaged /\ RevisionStands(record) /\ Covers(record)
      /\ \A w \in Workers : pc[w] = "idle"
      /\ \A i \in Tasks : record.tasks[i] = "QUEUED" /\ delegated[i] = 0
  BY <1>1, MainWaits
<1>3. CASE settled[Main] = "failed" /\ Goto(Main, "closing") /\ UNCHANGED <<record, commits, settled>>
  <2>1. MainMakes("closing")
    BY <1>1, <1>2, <1>3 DEF MainMakes, Goto, Waiting
  <2>2. RevisionStands(record)' /\ Covers(record)'
    BY <1>1, <1>2, <1>3 DEF RevisionStands, Covers, diskVars
  <2>3. MainFits("closing")
    BY <1>1, <1>2, <1>3, <2>2 DEF MainFits, Waiting
  <2> QED BY <2>1, <2>3, MainMoves
<1>4. CASE settled[Main] = "ok" /\ record' = [record EXCEPT !.state = "RUNNING"] /\ Commit(Main, "running")
  <2>1. /\ record' \in Records /\ record'.state = "RUNNING" /\ record'.failed = record.failed
        /\ record'.tasks = record.tasks /\ record'.created = record.created
    BY <1>2, <1>4 DEF Records, Unfinished
  <2>2. MainMakes("running")
    BY <1>1, <1>2, <1>4, <2>1 DEF MainMakes, Commit, Goto, Waiting
  <2>3. RevisionStands(record)' /\ Covers(record)'
    BY <1>1, <1>2, <2>1 DEF RevisionStands, Covers, diskVars, Unfinished
  <2>4. MainFits("running")
    BY <1>1, <1>2, <1>4, <2>1, <2>3 DEF MainFits, Waiting, Unfinished
  <2> QED BY <2>2, <2>4, MainMoves
<1> QED BY <1>3, <1>4 DEF Planned

LEMMA FinalKeeps ==
  ASSUME BatchStands, Final
  PROVE  BatchStands'
<1>1. /\ pc[Main] = "final" /\ settled[Main] # "no" /\ Goto(Main, "closing")
      /\ UNCHANGED <<active, disposal, item, made, next, opened, aborted, record, commits,
                     writing, settled, deletion, diskVars>>
  BY DEF Final
<1>2. /\ opened /\ record \in Records /\ ~damaged /\ RevisionStands(record) /\ Covers(record)
      /\ \A w \in Workers : pc[w] \in {"idle", "exited"}
  BY <1>1, MainWaits DEF BatchStands, ThreadsStand
<1>3. MainMakes("closing")
  BY <1>1, <1>2 DEF MainMakes, Goto, Waiting
<1>4. RevisionStands(record)' /\ Covers(record)'
  BY <1>1, <1>2 DEF RevisionStands, Covers, diskVars
<1>5. MainFits("closing")
  BY <1>1, <1>2, <1>4 DEF MainFits, Waiting
<1> QED BY <1>3, <1>5, MainMoves
-----------------------------------------------------------------------------
LEMMA StartWorkersKeeps ==
  ASSUME BatchStands, StartWorkers
  PROVE  BatchStands'
<1>1. /\ pc[Main] = "running"
      /\ UNCHANGED <<active, disposal, item, made, next, opened, aborted, record, commits,
                     writing, settled, deletion, diskVars>>
  BY DEF StartWorkers
<1>2. /\ opened /\ record \in Records /\ ~damaged /\ RevisionStands(record) /\ Covers(record)
      /\ next = 1 /\ record.state \in Unfinished
      /\ \A w \in Workers : pc[w] = "idle"
      /\ \A i \in Tasks : record.tasks[i] = "QUEUED" /\ delegated[i] = 0
  BY <1>1, MainWaits
<1>3. CASE settled[Main] = "failed" /\ Goto(Main, "closing")
  <2>1. MainMakes("closing")
    BY <1>1, <1>2, <1>3 DEF MainMakes, Goto, Waiting
  <2>2. RevisionStands(record)' /\ Covers(record)'
    BY <1>1, <1>2 DEF RevisionStands, Covers, diskVars
  <2>3. MainFits("closing")
    BY <1>1, <1>2, <1>3, <2>2 DEF MainFits, Waiting
  <2> QED BY <2>1, <2>3, MainMoves
<1>4. CASE settled[Main] = "ok" /\ pc' = [t \in Threads |-> IF t = Main THEN "workers" ELSE "loop"]
  <2>1. /\ Main \in Threads /\ Workers \subseteq Threads /\ Main \notin Workers
        /\ Threads = Workers \cup {Main}
    BY BatchAssumption DEF Threads
  <2>2. pc'[Main] = "workers" /\ \A w \in Workers : pc'[w] = "loop"
    BY <1>4, <2>1
  <2>3. \A t \in Threads : t \notin ToSet(commits)
    BY <1>1, <1>2, <1>4, <2>1 DEF BatchStands, ThreadsStand, Waiting
  <2>4. TypeOK'
    <3>1. pc' \in [Threads -> MainLabels \cup WorkerLabels] /\ pc'[Main] \in MainLabels
          /\ \A w \in Workers : pc'[w] \in WorkerLabels
      BY <1>4, <2>2 DEF MainLabels, WorkerLabels
    <3> QED BY <1>1, <3>1 DEF BatchStands, TypeOK, diskVars
  <2>5. RunnerStands'
    <3>1. deletion.step # "remove"
      BY <1>1, NothingIsNothing DEF BatchStands, RunnerStands
    <3> QED BY <1>1, <2>2, <3>1 DEF BatchStands, RunnerStands
  <2>6. ThreadsStand'
    BY <1>1, <1>2, <2>1, <2>2, <2>3 DEF BatchStands, ThreadsStand, Waiting
  <2>7. TasksStand'
    <3>1. made = {}
      BY <1>1 DEF BatchStands, ThreadsStand
    <3> QED BY <1>1, <1>2, <2>2, <3>1, TasksAre DEF BatchStands, TasksStand, Busy, diskVars
  <2>8. SavesStand'
    BY <1>1, <2>2 DEF BatchStands, SavesStand, RevisionStands, Covers, Readable, Latest, diskVars
  <2>9. HistoryStands'
    BY <1>1 DEF BatchStands, HistoryStands, diskVars
  <2> QED BY <2>4, <2>5, <2>6, <2>7, <2>8, <2>9 DEF BatchStands
<1> QED BY <1>3, <1>4 DEF StartWorkers

(* When both workers are through, every task that was taken is over. *)
LEMMA FinishKeeps ==
  ASSUME BatchStands, Finish
  PROVE  BatchStands'
<1> DEFINE tasks == [i \in Tasks |-> IF record.tasks[i] = "QUEUED" THEN "NOT_STARTED" ELSE record.tasks[i]]
<1>1. /\ pc[Main] = "workers" /\ \A w \in Workers : pc[w] = "exited"
      /\ record' = [record EXCEPT !.tasks = tasks, !.state = FinalState(tasks)]
      /\ UNCHANGED <<active, disposal, item, made, next, opened, aborted, writing, deletion, diskVars>>
  BY DEF Finish
<1>2. opened /\ record \in Records /\ ~damaged /\ RevisionStands(record) /\ Covers(record)
  BY <1>1, MainWaits
<1>3. \A i \in Tasks : record.tasks[i] \in TaskFinals \cup {"QUEUED"}
  <2>1. \A w \in Workers : ~Busy(w)
    BY <1>1 DEF Busy
  <2> QED BY <1>1, <2>1 DEF BatchStands, TasksStand
<1>4. "NOT_STARTED" \in TaskFinals /\ TaskFinals \subseteq TaskStates
      /\ TaskFinals \cap {"QUEUED", "RUNNING"} = {}
  BY TaskFinalsAre
<1>5. PICK done \in [Tasks -> TaskFinals] : done = tasks
  BY <1>3, <1>4
<1>6. PICK state \in BatchFinals :
        /\ state = FinalState(done)
        /\ state = "COMPLETED" => \A i \in Tasks : done[i] = "COMPLETED"
  BY DEF FinalState, BatchFinals
<1>7. \A i \in Tasks : done[i] = IF record.tasks[i] = "QUEUED" THEN "NOT_STARTED" ELSE record.tasks[i]
  BY <1>5
<1>8. record' = [record EXCEPT !.tasks = done, !.state = state]
  BY <1>1, <1>5, <1>6
<1>9. /\ record' \in Records /\ record'.state = state /\ record'.tasks = done
      /\ record'.created = record.created /\ record'.failed = record.failed
  <2>1. done \in [Tasks -> TaskStates]
    BY <1>4
  <2> QED BY <1>2, <1>8, <2>1 DEF Records
<1>10. state \notin Unfinished
  BY DEF Unfinished, BatchFinals
<1>11. RevisionStands(record)'
  BY <1>2, <1>6, <1>7, <1>9 DEF RevisionStands
<1>12. Covers(record)'
  BY <1>1, <1>2, <1>3, <1>4, <1>7, <1>9 DEF Covers, diskVars, BatchStands, TypeOK
<1>13. ASSUME NEW label \in {"final", "closing"}, pc' = [pc EXCEPT ![Main] = label],
              IF label \in Waiting
              THEN commits' = Append(commits, Main) /\ settled' = [settled EXCEPT ![Main] = "no"]
              ELSE UNCHANGED <<commits, settled>>
       PROVE  BatchStands'
  <2>1. MainMakes(label)
    BY <1>1, <1>2, <1>9, <1>13 DEF MainMakes
  <2>2. MainFits(label)
    BY <1>1, <1>2, <1>9, <1>11, <1>12 DEF MainFits, Waiting
  <2> QED BY <2>1, <2>2, MainMoves
<1>14. CASE record.failed
  BY <1>13, <1>14 DEF Finish, Goto, Waiting
<1>15. CASE ~record.failed
  BY <1>13, <1>15 DEF Finish, Commit, Goto, Waiting
<1> QED BY <1>14, <1>15

LEMMA RunKeeps ==
  ASSUME BatchStands, Run
  PROVE  BatchStands'
<1>1. /\ active = "none" /\ disposal = "none" /\ active' = "run" /\ pc' = [pc EXCEPT ![Main] = "lookup"]
      /\ UNCHANGED <<disposal, item, made, next, opened, aborted, record, commits, writing, settled,
                     deletion, diskVars>>
  BY DEF Run, Reserve, Goto
<1>2. pc[Main] = "idle" /\ deletion = NoDeletion /\ ~opened /\ deletion.step # "remove"
  BY <1>1, NothingIsNothing DEF BatchStands, RunnerStands, ThreadsStand
<1>3. /\ pc \in [Threads -> MainLabels \cup WorkerLabels] /\ Main \in Threads
      /\ Workers \subseteq Threads \ {Main} /\ Threads \ {Main} \subseteq Workers
  BY BatchAssumption DEF BatchStands, TypeOK, Threads
<1>4. pc'[Main] = "lookup" /\ \A w \in Workers : pc'[w] = pc[w]
  BY <1>1, <1>3
<1>5. TypeOK'
  <2>1. pc' \in [Threads -> MainLabels \cup WorkerLabels] /\ pc'[Main] \in MainLabels
    BY <1>1, <1>3, <1>4 DEF MainLabels
  <2> QED BY <1>1, <1>4, <2>1 DEF BatchStands, TypeOK, diskVars
<1>6. RunnerStands'
  BY <1>1, <1>2, <1>4 DEF BatchStands, RunnerStands
<1>7. ThreadsStand'
  BY <1>1, <1>2, <1>3, <1>4 DEF BatchStands, ThreadsStand, Waiting
<1>8. TasksStand'
  <2>1. made = {} /\ \A w \in Workers : pc[w] = "idle"
    BY <1>2 DEF BatchStands, ThreadsStand
  <2> QED BY <1>1, <1>4, <2>1 DEF BatchStands, TasksStand, Busy
<1>9. SavesStand'
  BY <1>1, <1>4 DEF BatchStands, SavesStand, RevisionStands, Covers, SaysRunning, Readable, Latest, diskVars
<1>10. HistoryStands'
  BY <1>1 DEF BatchStands, HistoryStands, diskVars
<1> QED BY <1>5, <1>6, <1>7, <1>8, <1>9, <1>10 DEF BatchStands
-----------------------------------------------------------------------------
(* The thread at the head of the chain learns how its commit went. *)
LEMMA Settles ==
  ASSUME BatchStands, commits # <<>>, NEW outcome \in {"ok", "failed"}, Settle(outcome), UNCHANGED pc
  PROVE  /\ commits' \in Seq(Threads) /\ IsInjective(commits')
         /\ settled' \in [Threads -> {"no", "ok", "failed"}]
         /\ Head(commits) \in Threads /\ pc[Head(commits)] \in Waiting
         /\ settled'[Head(commits)] = outcome
         /\ \A t \in Threads \ {Head(commits)} : settled'[t] = settled[t]
         /\ \A t \in Threads : t \in ToSet(commits') <=> pc'[t] \in Waiting /\ settled'[t] = "no"
<1>1. /\ commits' = Tail(commits) /\ settled' = [settled EXCEPT ![Head(commits)] = outcome]
      /\ commits \in Seq(Threads) /\ IsInjective(commits) /\ settled \in [Threads -> {"no", "ok", "failed"}]
      /\ \A t \in Threads : t \in ToSet(commits) <=> pc[t] \in Waiting /\ settled[t] = "no"
  BY DEF Settle, BatchStands, TypeOK, ThreadsStand
<1>2. /\ commits' \in Seq(Threads) /\ IsInjective(commits')
      /\ Head(commits) \in Threads /\ Head(commits) \in ToSet(commits)
      /\ ToSet(commits') = ToSet(commits) \ {Head(commits)}
  BY <1>1, Left
<1> QED BY <1>1, <1>2

(* No task and no other thread is touched when a commit goes its way. *)
LEMMA CommitMoves ==
  ASSUME BatchStands, opened, UNCHANGED <<active, disposal, pc, item, made, next, opened, deletion, saved,
                                   damaged, delegated, wrote>>,
         commits' \in Seq(Threads), IsInjective(commits'),
         settled' \in [Threads -> {"no", "ok", "failed"}],
         \A t \in Threads : t \in ToSet(commits') <=> pc'[t] \in Waiting /\ settled'[t] = "no",
         \A w \in Workers : pc[w] \notin Waiting => settled'[w] = settled[w],
         record' \in Records, aborted' \in BOOLEAN,
         record'.state = record.state, record'.tasks = record.tasks, record'.created = record.created,
         record'.failed \/ aborted => aborted',
         writing' # Nothing => /\ writing' \in Snapshots /\ commits' # <<>> /\ ~record'.failed,
         disk' \in Seq(Snapshots \cup {Torn}),
         disk # <<>> => disk' # <<>>
  PROVE  TypeOK' /\ RunnerStands' /\ ThreadsStand' /\ TasksStand' /\ HistoryStands'
<1>1. Main \in Threads /\ Workers \subseteq Threads
  BY DEF Threads
<1>2. pc[Main] # "idle" /\ active = "run" /\ deletion = NoDeletion /\ deletion.step # "remove"
  BY NothingIsNothing DEF BatchStands, ThreadsStand, RunnerStands
<1>3. TypeOK'
  BY DEF BatchStands, TypeOK, Records
<1>4. RunnerStands'
  <2>1. record' # NoRecord /\ opened'
    BY NothingIsNothing
  <2> QED BY <1>2, <2>1 DEF BatchStands, RunnerStands
<1>5. ThreadsStand'
  BY DEF BatchStands, ThreadsStand
<1>6. TasksStand'
  <2>1. ASSUME NEW w \in Workers, Busy(w)
        PROVE  Holds(w)'
    <3>1. Holds(w)
      BY <2>1 DEF BatchStands, TasksStand
    <3>2. pc[w] = "delegating" => settled'[w] = settled[w]
      BY DEF Waiting
    <3> QED BY <3>1, <3>2 DEF Holds
  <2>2. \A w \in Workers : Busy(w)' <=> Busy(w)
    BY DEF Busy
  <2> QED BY <2>1, <2>2 DEF BatchStands, TasksStand
<1>7. HistoryStands'
  BY DEF BatchStands, HistoryStands
<1> QED BY <1>3, <1>4, <1>5, <1>6, <1>7

(* The batch has a record as long as somebody waits for a commit. *)
LEMMA SomebodyWaits ==
  ASSUME BatchStands, commits # <<>>
  PROVE  opened /\ record \in Records /\ RevisionStands(record) /\ Covers(record) /\ ~damaged
<1>1. Head(commits) \in Threads /\ pc[Head(commits)] \in Waiting
  BY Left DEF BatchStands, TypeOK, ThreadsStand
<1>2. CASE Head(commits) = Main
  BY <1>1, <1>2, MainWaits DEF BatchStands, TypeOK, MainLabels, Waiting
<1>3. CASE Head(commits) \in Workers
  BY <1>1, <1>3, AtWork DEF Waiting, BatchStands, SavesStand
<1> QED BY <1>1, <1>2, <1>3 DEF Threads

LEMMA CommitBeginKeeps ==
  ASSUME BatchStands, CommitBegin
  PROVE  BatchStands'
<1>1. /\ commits # <<>> /\ writing = Nothing
      /\ UNCHANGED <<active, disposal, pc, item, made, next, opened, aborted, record, deletion, diskVars>>
  BY DEF CommitBegin
<1>2. opened /\ record \in Records /\ RevisionStands(record) /\ Covers(record) /\ ~damaged
  BY <1>1, SomebodyWaits
<1>3. CASE record.failed /\ Settle("failed") /\ UNCHANGED writing
  <2>1. /\ commits' \in Seq(Threads) /\ IsInjective(commits')
        /\ settled' \in [Threads -> {"no", "ok", "failed"}]
        /\ Head(commits) \in Threads /\ pc[Head(commits)] \in Waiting
        /\ settled'[Head(commits)] = "failed"
        /\ \A t \in Threads \ {Head(commits)} : settled'[t] = settled[t]
        /\ \A t \in Threads : t \in ToSet(commits') <=> pc'[t] \in Waiting /\ settled'[t] = "no"
    BY <1>1, <1>3, Settles
  <2>2. \A w \in Workers : pc[w] \notin Waiting => settled'[w] = settled[w]
    BY <2>1 DEF Threads
  <2>3. record.failed => aborted
    BY <1>2 DEF BatchStands, RunnerStands
  <2>4. TypeOK' /\ RunnerStands' /\ ThreadsStand' /\ TasksStand' /\ HistoryStands'
    <3>1. disk \in Seq(Snapshots \cup {Torn}) /\ aborted \in BOOLEAN
      BY DEF BatchStands, TypeOK
    <3> QED BY <1>1, <1>2, <1>3, <2>1, <2>2, <2>3, <3>1, CommitMoves DEF diskVars
  <2>5. SavesStand'
    <3>1. \A w \in Workers : pc'[w] = pc[w] /\ (settled'[w] = "ok" => settled[w] = "ok")
      BY <1>1, <2>1 DEF Threads
    <3> QED BY <1>1, <1>3, <3>1 DEF BatchStands, SavesStand, RevisionStands, Covers, SaysRunning, Readable, Latest, diskVars
  <2> QED BY <2>4, <2>5 DEF BatchStands
<1>4. CASE ~record.failed /\ writing' = Snapshot /\ UNCHANGED <<settled, commits>>
  <2>1. /\ writing' \in Snapshots /\ writing'.tasks = record.tasks /\ writing'.created = record.created
        /\ writing'.state = record.state
    BY <1>2, <1>4 DEF Snapshot, Snapshots, Records
  <2>2. TypeOK' /\ RunnerStands' /\ ThreadsStand' /\ TasksStand' /\ HistoryStands'
    <3>1. /\ disk \in Seq(Snapshots \cup {Torn}) /\ aborted \in BOOLEAN
          /\ commits \in Seq(Threads) /\ IsInjective(commits) /\ settled \in [Threads -> {"no", "ok", "failed"}]
          /\ \A t \in Threads : t \in ToSet(commits) <=> pc[t] \in Waiting /\ settled[t] = "no"
      BY DEF BatchStands, TypeOK, ThreadsStand
    <3> QED BY <1>1, <1>2, <1>4, <2>1, <3>1, CommitMoves DEF diskVars
  <2>3. RevisionStands(writing)' /\ Covers(writing)'
    BY <1>1, <1>2, <2>1 DEF RevisionStands, Covers, diskVars
  <2>4. ASSUME NEW w \in Workers, pc[w] \in {"committed", "delegating"}
        PROVE  writing'.tasks[item[w]] = "RUNNING"
    BY <2>1, <2>4 DEF BatchStands, TasksStand, Busy, Holds
  <2> QED BY <1>1, <1>4, <2>2, <2>3, <2>4 DEF BatchStands, SavesStand, RevisionStands, Covers, SaysRunning, Readable, Latest, diskVars
<1> QED BY <1>3, <1>4 DEF CommitBegin

LEMMA CommitOkKeeps ==
  ASSUME BatchStands, CommitOk
  PROVE  BatchStands'
<1>1. /\ writing # Nothing /\ disk' = Append(disk, writing) /\ Settle("ok") /\ writing' = Nothing
      /\ UNCHANGED <<active, disposal, pc, item, made, next, opened, aborted, record, deletion,
                     saved, damaged, delegated, wrote>>
  BY DEF CommitOk
<1>2. commits # <<>> /\ disk \in Seq(Snapshots \cup {Torn}) /\ writing \in Snapshots
  BY <1>1 DEF BatchStands, TypeOK, ThreadsStand
<1>3. opened /\ record \in Records /\ RevisionStands(record) /\ Covers(record) /\ ~damaged
  BY <1>2, SomebodyWaits
<1>4. /\ commits' \in Seq(Threads) /\ IsInjective(commits')
      /\ settled' \in [Threads -> {"no", "ok", "failed"}]
      /\ Head(commits) \in Threads /\ pc[Head(commits)] \in Waiting
      /\ settled'[Head(commits)] = "ok"
      /\ \A t \in Threads \ {Head(commits)} : settled'[t] = settled[t]
      /\ \A t \in Threads : t \in ToSet(commits') <=> pc'[t] \in Waiting /\ settled'[t] = "no"
  BY <1>1, <1>2, Settles
<1>5. /\ disk' \in Seq(Snapshots \cup {Torn}) /\ disk' # <<>> /\ Last(disk') = writing
      /\ ToSet(disk') = ToSet(disk) \cup {writing}
  BY <1>1, <1>2, Extended
<1>6. TypeOK' /\ RunnerStands' /\ ThreadsStand' /\ TasksStand' /\ HistoryStands'
  <2>1. \A w \in Workers : pc[w] \notin Waiting => settled'[w] = settled[w]
    BY <1>4 DEF Threads
  <2>2. (record.failed => aborted) /\ aborted \in BOOLEAN
    BY <1>3 DEF BatchStands, RunnerStands, TypeOK
  <2> QED BY <1>1, <1>3, <1>4, <1>5, <2>1, <2>2, CommitMoves
<1>7. SavesStand'
  <2>1. RevisionStands(writing) /\ Covers(writing)
    BY <1>1 DEF BatchStands, SavesStand
  <2>2. ASSUME NEW w \in Workers, pc[w] \in {"committed", "delegating"}, settled'[w] = "ok"
        PROVE  writing.tasks[item[w]] = "RUNNING"
    <3>1. CASE w = Head(commits)
      BY <1>1, <1>4, <2>2, <3>1 DEF BatchStands, SavesStand, Waiting
    <3>2. CASE w # Head(commits)
      BY <1>1, <1>4, <2>2, <3>2 DEF BatchStands, SavesStand, SaysRunning, Threads
    <3> QED BY <3>1, <3>2
  <2>3. Covers(Latest)'
    BY <1>1, <1>5, <2>1 DEF Covers, Latest
  <2>4. \A revision \in ToSet(disk') \ {Torn} : RevisionStands(revision)
    BY <1>5, <2>1 DEF BatchStands, SavesStand, RevisionStands
  <2>5. \A w \in Workers : pc'[w] \in {"committed", "delegating"} /\ settled'[w] = "ok" => SaysRunning(w)'
    BY <1>1, <1>5, <2>2 DEF SaysRunning, Latest
  <2> QED BY <1>1, <1>3, <2>3, <2>4, <2>5 DEF SavesStand, RevisionStands, Covers
<1> QED BY <1>6, <1>7 DEF BatchStands

LEMMA CommitFailsKeeps ==
  ASSUME BatchStands, CommitFails
  PROVE  BatchStands'
<1>1. /\ writing # Nothing /\ disk' \in SaveOutcomes /\ Settle("failed") /\ writing' = Nothing
      /\ record' = [record EXCEPT !.failed = TRUE] /\ aborted' = TRUE
      /\ UNCHANGED <<active, disposal, pc, item, made, next, opened, deletion,
                     saved, damaged, delegated, wrote>>
  BY DEF CommitFails
<1>2. commits # <<>> /\ disk \in Seq(Snapshots \cup {Torn}) /\ writing \in Snapshots
  BY <1>1 DEF BatchStands, TypeOK, ThreadsStand
<1>3. opened /\ record \in Records /\ RevisionStands(record) /\ Covers(record) /\ ~damaged
  BY <1>2, SomebodyWaits
<1>4. /\ commits' \in Seq(Threads) /\ IsInjective(commits')
      /\ settled' \in [Threads -> {"no", "ok", "failed"}]
      /\ Head(commits) \in Threads /\ pc[Head(commits)] \in Waiting
      /\ settled'[Head(commits)] = "failed"
      /\ \A t \in Threads \ {Head(commits)} : settled'[t] = settled[t]
      /\ \A t \in Threads : t \in ToSet(commits') <=> pc'[t] \in Waiting /\ settled'[t] = "no"
  BY <1>1, <1>2, Settles
<1>5. /\ disk' \in Seq(Snapshots \cup {Torn})
      /\ disk # <<>> => disk' # <<>>
      /\ \A revision \in ToSet(disk') \ {Torn} : RevisionStands(revision)
      /\ Readable' => Covers(Latest)'
  BY <1>1, SaveLeaves
<1>6. /\ record' \in Records /\ record'.failed /\ record'.state = record.state
      /\ record'.tasks = record.tasks /\ record'.created = record.created
  BY <1>1, <1>3 DEF Records
<1>7. TypeOK' /\ RunnerStands' /\ ThreadsStand' /\ TasksStand' /\ HistoryStands'
  <2>1. \A w \in Workers : pc[w] \notin Waiting => settled'[w] = settled[w]
    BY <1>4 DEF Threads
  <2> QED BY <1>1, <1>3, <1>4, <1>5, <1>6, <2>1, CommitMoves
<1>8. SavesStand'
  <2>1. ASSUME NEW w \in Workers, pc[w] \in {"committed", "delegating"}, settled'[w] = "ok"
        PROVE  SaysRunning(w)'
    <3>1. settled[w] = "ok" /\ SaysRunning(w) /\ writing.tasks[item[w]] = "RUNNING"
      BY <1>1, <1>4, <2>1 DEF BatchStands, SavesStand, SaysRunning, Threads
    <3>2. Readable' => Latest' = writing \/ (Readable /\ Latest' = Latest)
      <4>1. Latest' = Last(disk') /\ Latest = Last(disk)
        BY DEF Latest
      <4>2. CASE disk' = Append(disk, writing)
        BY <1>2, <4>1, <4>2, Extended
      <4>3. CASE disk' = Append(disk, Torn)
        <5>1. Last(disk') = Torn
          BY <1>2, <4>3, Extended
        <5> QED BY <5>1 DEF Readable
      <4>4. CASE disk' = disk
        BY <4>1, <4>4 DEF Readable
      <4> QED BY <1>1, <4>2, <4>3, <4>4 DEF SaveOutcomes
    <3>3. disk' # <<>>
      BY <1>5, <3>1 DEF SaysRunning
    <3> QED BY <1>1, <3>1, <3>2, <3>3 DEF SaysRunning
  <2>2. RevisionStands(record)' /\ Covers(record)'
    BY <1>1, <1>3, <1>6 DEF RevisionStands, Covers
  <2> QED BY <1>1, <1>3, <1>5, <2>1, <2>2 DEF SavesStand
<1> QED BY <1>7, <1>8 DEF BatchStands
-----------------------------------------------------------------------------
LEMMA AbortKeeps ==
  ASSUME BatchStands, Abort
  PROVE  BatchStands'
<1>1. /\ opened /\ aborted' = TRUE
      /\ UNCHANGED <<active, disposal, pc, item, made, next, opened, record, commits, writing,
                     settled, deletion, diskVars>>
  BY DEF Abort
<1>2. TypeOK'
  BY <1>1 DEF BatchStands, TypeOK, diskVars
<1>3. RunnerStands'
  <2>1. deletion.step = "remove" => (Deletable(deletion.task, deletion.force))'
    BY <1>1 DEF BatchStands, RunnerStands, Deletable, Readable, Referenced, Latest, diskVars
  <2> QED BY <1>1, <2>1 DEF BatchStands, RunnerStands
<1>4. ThreadsStand'
  BY <1>1 DEF BatchStands, ThreadsStand
<1>5. TasksStand'
  BY <1>1 DEF BatchStands, TasksStand, Busy, Holds, diskVars
<1>6. SavesStand'
  BY <1>1 DEF BatchStands, SavesStand, RevisionStands, Covers, SaysRunning, Readable, Latest, diskVars
<1>7. HistoryStands'
  BY <1>1 DEF BatchStands, HistoryStands, diskVars
<1> QED BY <1>2, <1>3, <1>4, <1>5, <1>6, <1>7 DEF BatchStands

LEMMA DisposeKeeps ==
  ASSUME BatchStands, Dispose
  PROVE  BatchStands'
<1>1. /\ disposal = "none" /\ disposal' = (IF active = "none" THEN "done" ELSE "waiting")
      /\ aborted' = (aborted \/ opened)
      /\ UNCHANGED <<active, pc, item, made, next, opened, record, commits, writing, settled,
                     deletion, diskVars>>
  BY DEF Dispose
<1>2. TypeOK'
  <2>1. aborted' \in BOOLEAN /\ disposal' \in {"none", "waiting", "done"}
    BY <1>1
  <2> QED BY <1>1, <2>1 DEF BatchStands, TypeOK, diskVars
<1>3. RunnerStands'
  <2>1. deletion.step = "remove" => (Deletable(deletion.task, deletion.force))'
    BY <1>1 DEF BatchStands, RunnerStands, Deletable, Readable, Referenced, Latest, diskVars
  <2> QED BY <1>1, <2>1 DEF BatchStands, RunnerStands
<1>4. ThreadsStand'
  BY <1>1 DEF BatchStands, ThreadsStand
<1>5. TasksStand'
  BY <1>1 DEF BatchStands, TasksStand, Busy, Holds, diskVars
<1>6. SavesStand'
  BY <1>1 DEF BatchStands, SavesStand, RevisionStands, Covers, SaysRunning, Readable, Latest, diskVars
<1>7. HistoryStands'
  BY <1>1 DEF BatchStands, HistoryStands, diskVars
<1> QED BY <1>2, <1>3, <1>4, <1>5, <1>6, <1>7 DEF BatchStands

(* Whoever forgets or deletes has the runner to itself: no run is under way, before and after. *)
LEMMA WithoutARun ==
  ASSUME BatchStands, active # "run",
         UNCHANGED runVars, active' \in {"none", "forget", "deletion"},
         disposal' \in {"none", "waiting", "done"}, disposal' = "done" => active' = "none",
         active' = "deletion" <=> deletion' # NoDeletion,
         deletion' # NoDeletion =>
           deletion' \in [step : {"check", "remove"}, task : Tasks, force : Forces],
         deletion'.step = "remove" => (Deletable(deletion.task, deletion.force))',
         disk' \in Seq(Snapshots \cup {Torn}), saved' \subseteq Tasks, damaged' \in BOOLEAN,
         delegated' \in [Tasks -> Nat], wrote' \subseteq Tasks,
         \A revision \in ToSet(disk') \ {Torn} : RevisionStands(revision),
         Readable' /\ ~damaged' => Covers(Latest)', HistoryStands'
  PROVE  BatchStands'
<1>1. /\ UNCHANGED <<pc, item, made, next, opened, aborted, record, commits, writing, settled>>
      /\ pc[Main] = "idle" /\ ~opened /\ (\A w \in Workers : pc[w] = "idle") /\ made = {}
  BY DEF runVars, BatchStands, RunnerStands, ThreadsStand
<1>2. TypeOK'
  BY <1>1 DEF BatchStands, TypeOK
<1>3. RunnerStands'
  BY <1>1 DEF BatchStands, RunnerStands
<1>4. ThreadsStand'
  BY <1>1 DEF BatchStands, ThreadsStand
<1>5. TasksStand'
  BY <1>1 DEF BatchStands, TasksStand, Busy
<1>6. SavesStand'
  BY <1>1 DEF BatchStands, SavesStand, ThreadsStand
<1> QED BY <1>2, <1>3, <1>4, <1>5, <1>6 DEF BatchStands

LEMMA ForgetKeeps ==
  ASSUME BatchStands, Forget
  PROVE  BatchStands'
<1>1. /\ active = "none" /\ disposal = "none" /\ active' = "forget"
      /\ UNCHANGED <<disposal, runVars, deletion, diskVars>>
  BY DEF Forget, Reserve
<1>2. deletion = NoDeletion /\ deletion.step # "remove"
  BY <1>1, NothingIsNothing DEF BatchStands, RunnerStands
<1> QED BY <1>1, <1>2, WithoutARun
     DEF BatchStands, TypeOK, SavesStand, Readable, Latest, Covers, HistoryStands, diskVars

LEMMA ForgetRemoveKeeps ==
  ASSUME BatchStands, ForgetRemove
  PROVE  BatchStands'
<1>1. /\ active = "forget" /\ Removed /\ active' = "none" /\ UNCHANGED <<runVars, deletion, saved>>
      /\ disposal' = IF disposal = "waiting" THEN "done" ELSE disposal
  BY DEF ForgetRemove, Release
<1>2. deletion = NoDeletion /\ deletion.step # "remove" /\ disposal' \in {"none", "waiting", "done"} /\ saved \subseteq Tasks
  BY <1>1, NothingIsNothing DEF BatchStands, RunnerStands, TypeOK
<1> QED BY <1>1, <1>2, RemovalLeaves, WithoutARun

LEMMA DeletionKeeps ==
  ASSUME BatchStands, NEW i \in Tasks, NEW force \in Forces, Deletion(i, force)
  PROVE  BatchStands'
<1>1. /\ active = "none" /\ disposal = "none" /\ active' = "deletion"
      /\ deletion' = [step |-> "check", task |-> i, force |-> force]
      /\ UNCHANGED <<disposal, runVars, diskVars>>
  BY DEF Deletion, Reserve
<1>2. /\ deletion' \in [step : {"check", "remove"}, task : Tasks, force : Forces]
      /\ deletion'.step = "check" /\ deletion' # NoDeletion
  BY <1>1, NothingIsNothing
<1> QED BY <1>1, <1>2, WithoutARun
     DEF BatchStands, TypeOK, SavesStand, Readable, Latest, Covers, HistoryStands, diskVars

LEMMA DeletionCheckKeeps ==
  ASSUME BatchStands, DeletionCheck
  PROVE  BatchStands'
<1>1. deletion.step = "check" /\ UNCHANGED <<runVars, diskVars>>
  BY DEF DeletionCheck
<1>2. /\ deletion # NoDeletion /\ active = "deletion"
      /\ deletion \in [step : {"check", "remove"}, task : Tasks, force : Forces]
      /\ disposal \in {"none", "waiting"}
  BY <1>1, NothingIsNothing DEF BatchStands, RunnerStands, TypeOK
<1>3. CASE /\ Deletable(deletion.task, deletion.force)
           /\ deletion' = [deletion EXCEPT !.step = "remove"] /\ UNCHANGED <<active, disposal>>
  <2>1. /\ deletion' \in [step : {"check", "remove"}, task : Tasks, force : Forces]
        /\ deletion'.task = deletion.task /\ deletion'.force = deletion.force
        /\ deletion'.step = "remove" /\ deletion' # NoDeletion
    BY <1>2, <1>3, NothingIsNothing
  <2>2. (Deletable(deletion.task, deletion.force))'
    BY <1>1, <1>3, <2>1 DEF Deletable, Readable, Referenced, Latest, diskVars
  <2> QED BY <1>1, <1>2, <1>3, <2>1, <2>2, WithoutARun
       DEF BatchStands, TypeOK, SavesStand, Readable, Latest, Covers, HistoryStands, diskVars
<1>4. CASE deletion' = NoDeletion /\ Release
  <2>1. active' = "none" /\ disposal' \in {"none", "waiting", "done"} /\ deletion'.step # "remove"
    BY <1>2, <1>4, NothingIsNothing DEF Release
  <2> QED BY <1>1, <1>2, <1>4, <2>1, WithoutARun
       DEF BatchStands, TypeOK, SavesStand, Readable, Latest, Covers, HistoryStands, diskVars
<1> QED BY <1>3, <1>4 DEF DeletionCheck

LEMMA DeletionRemoveKeeps ==
  ASSUME BatchStands, DeletionRemove
  PROVE  BatchStands'
<1>1. /\ deletion.step = "remove" /\ saved' \in {saved, saved \ {deletion.task}}
      /\ deletion' = NoDeletion /\ Release
      /\ UNCHANGED <<runVars, disk, damaged, delegated, wrote>>
  BY DEF DeletionRemove
<1>2. active = "deletion" /\ disposal \in {"none", "waiting"} /\ saved' \subseteq Tasks
  BY <1>1, NothingIsNothing DEF BatchStands, RunnerStands, TypeOK
<1>3. active' = "none" /\ disposal' \in {"none", "waiting", "done"} /\ deletion'.step # "remove"
  BY <1>1, <1>2, NothingIsNothing DEF Release
<1>4. HistoryStands'
  <2>1. TRUE \notin Forces /\ ~damaged => wrote \subseteq saved'
    BY <1>1, DeletionSpares DEF BatchStands, HistoryStands
  <2> QED BY <1>1, <2>1 DEF BatchStands, HistoryStands
<1> QED BY <1>1, <1>2, <1>3, <1>4, WithoutARun
     DEF BatchStands, TypeOK, SavesStand, Readable, Latest, Covers
-----------------------------------------------------------------------------
LEMMA StepKeeps == BatchStands /\ [Next]_vars => BatchStands'
<1> SUFFICES ASSUME BatchStands, [Next]_vars
             PROVE  BatchStands'
  OBVIOUS
<1>1. CASE MainStep
  BY <1>1, LookupKeeps, PlannedKeeps, StartWorkersKeeps, FinishKeeps, FinalKeeps, CloseKeeps DEF MainStep
<1>2. ASSUME NEW w \in Workers, WorkerStep(w) \/ Assigned(w)
      PROVE  BatchStands'
  BY <1>2, TakeKeeps, SelectKeeps, UnavailableKeeps, DelegateKeeps, AnsweredKeeps, DoneKeeps,
     AssignedKeeps DEF WorkerStep
<1>3. CASE SaveStep
  BY <1>3, CommitBeginKeeps, CommitOkKeeps, CommitFailsKeeps DEF SaveStep
<1>4. CASE DeletionStep
  BY <1>4, ForgetRemoveKeeps, DeletionCheckKeeps, DeletionRemoveKeeps DEF DeletionStep
<1>5. CASE UNCHANGED vars
  <2>1. UNCHANGED <<active, disposal, pc, item, made, next, opened, aborted, record, commits,
                    writing, settled, deletion, disk, saved, damaged, delegated, wrote>>
    BY <1>5 DEF vars, runVars, diskVars
  <2>2. TypeOK' /\ ThreadsStand' /\ HistoryStands'
    <3>1. TypeOK'
      BY <2>1 DEF BatchStands, TypeOK
    <3>2. ThreadsStand' /\ HistoryStands'
      BY <2>1 DEF BatchStands, ThreadsStand, HistoryStands
    <3> QED BY <3>1, <3>2
  <2>3. RunnerStands'
    BY <2>1 DEF BatchStands, RunnerStands, Deletable, Readable, Referenced, Latest
  <2>4. TasksStand'
    BY <2>1 DEF BatchStands, TasksStand, Busy, Holds
  <2>5. SavesStand'
    BY <2>1 DEF BatchStands, SavesStand, RevisionStands, Covers, SaysRunning, Readable, Latest
  <2> QED BY <2>2, <2>3, <2>4, <2>5 DEF BatchStands
<1> QED BY <1>1, <1>2, <1>3, <1>4, <1>5, RunKeeps, AbortKeeps, DisposeKeeps, ForgetKeeps,
           DeletionKeeps, CrashKeeps DEF Next

LEMMA InitStands == Init => BatchStands
<1> SUFFICES ASSUME Init
             PROVE  BatchStands
  OBVIOUS
<1>1. /\ active = "none" /\ disposal = "none" /\ item = [w \in Workers |-> 0] /\ made = {} /\ next = 1
      /\ opened = FALSE /\ aborted = FALSE /\ record = NoRecord /\ commits = <<>> /\ writing = Nothing
      /\ deletion = NoDeletion /\ disk = <<>> /\ saved = {} /\ damaged = FALSE /\ wrote = {}
      /\ pc = [t \in Threads |-> "idle"] /\ settled = [t \in Threads |-> "no"]
      /\ delegated = [i \in Tasks |-> 0]
  BY DEF Init
<1>2. /\ Main \in Threads /\ Workers \subseteq Threads
      /\ pc[Main] = "idle" /\ \A t \in Threads : pc[t] = "idle"
  BY <1>1 DEF Threads
<1>3. /\ ToSet(commits) = {} /\ commits \in Seq(Threads) /\ IsInjective(commits)
      /\ disk \in Seq(Snapshots \cup {Torn}) /\ ToSet(disk) = {}
  BY <1>1, EmptySeq DEF ToSet, IsInjective
<1>4. TypeOK
  <2>1. /\ pc \in [Threads -> MainLabels \cup WorkerLabels] /\ pc[Main] \in MainLabels
        /\ \A w \in Workers : pc[w] \in WorkerLabels
        /\ settled \in [Threads -> {"no", "ok", "failed"}]
    BY <1>1, <1>2 DEF MainLabels, WorkerLabels
  <2>2. /\ item \in [Workers -> 0 .. Items] /\ next \in 1 .. Items + 1
        /\ delegated \in [Tasks -> Nat]
    BY <1>1, TasksAre
  <2> QED BY <1>1, <1>3, <2>1, <2>2 DEF TypeOK
<1>5. RunnerStands
  BY <1>1, <1>2, NothingIsNothing DEF RunnerStands
<1>6. ThreadsStand
  BY <1>1, <1>2, <1>3 DEF ThreadsStand, Waiting
<1>7. TasksStand
  BY <1>1, <1>2 DEF TasksStand, Busy
<1>8. SavesStand
  BY <1>1, <1>2, <1>3 DEF SavesStand, Readable
<1>9. HistoryStands
  BY <1>1 DEF HistoryStands
<1> QED BY <1>4, <1>5, <1>6, <1>7, <1>8, <1>9 DEF BatchStands

LEMMA AlwaysStands == Spec => []BatchStands
<1> QED BY InitStands, StepKeeps, PTL DEF Spec

(* The record is true of the batch: it refers to every assignment the batch made, however the
   two workers' commits in createBatchRunner interleave, fail or are cut off; a deletion that is
   not forced spares those; a finished batch says what its tasks say; without a run it is shown
   as over; and a disposed runner does nothing any more. *)
THEOREM BatchSafe == Spec => []BatchInv
<1>1. BatchStands => BatchInv
  <2> SUFFICES ASSUME BatchStands
               PROVE  BatchInv
    OBVIOUS
  <2>1. Readable => /\ Latest \in Snapshots /\ RevisionStands(Latest)
                    /\ ~damaged => Covers(Latest)
    <3>1. disk \in Seq(Snapshots \cup {Torn})
      BY DEF BatchStands, TypeOK
    <3>2. disk # <<>> => Last(disk) \in ToSet(disk) /\ Last(disk) \in Snapshots \cup {Torn}
      BY <3>1, LatestIsOne
    <3> QED BY <3>2 DEF Readable, Latest, BatchStands, SavesStand
  <2>2. ReferencesHold
    BY <2>1 DEF ReferencesHold, BatchStands, HistoryStands, Covers, Referenced
  <2>3. FinishedBatch
    BY <2>1 DEF FinishedBatch, RevisionStands, Snapshots
  <2>4. ShownAsItIs
    <3> SUFFICES ASSUME Readable, active # "run"
                 PROVE  /\ ShownState \in BatchFinals
                        /\ \A i \in Tasks :
                             /\ ShownTask(i) \in TaskFinals \cup {"INTERRUPTED_UNKNOWN"}
                             /\ ShownTask(i) \in {"NOT_STARTED", "UNAVAILABLE"} /\ ~damaged => delegated[i] = 0
      BY DEF ShownAsItIs
    <3>1. ShownState \in BatchFinals
      BY <2>1 DEF ShownState, Snapshots, BatchFinals
    <3>2. ASSUME NEW i \in Tasks
          PROVE  ShownTask(i) \in TaskFinals \cup {"INTERRUPTED_UNKNOWN"}
      <4>1. Latest.tasks[i] \in {"QUEUED", "RUNNING"} \cup TaskFinals
        BY <2>1 DEF Snapshots, TaskStates
      <4>2. CASE Latest.state \in Unfinished
        BY <4>1, <4>2 DEF ShownTask, ShownState, Unfinished
      <4>3. CASE Latest.state \notin Unfinished
        BY <2>1, <4>3 DEF ShownTask, ShownState, RevisionStands
      <4> QED BY <4>2, <4>3
    <3>3. ASSUME NEW i \in Tasks, ShownTask(i) \in {"NOT_STARTED", "UNAVAILABLE"}, ~damaged
          PROVE  delegated[i] = 0
      <4>1. Latest.tasks[i] \in {"NOT_STARTED", "UNAVAILABLE"}
        BY <3>3 DEF ShownTask
      <4>2. ~(delegated[i] > 0) /\ delegated[i] \in Nat
        BY <2>1, <3>3, <4>1 DEF Covers, BatchStands, TypeOK
      <4> QED BY <4>2
    <3> QED BY <3>1, <3>2, <3>3
  <2>5. DisposedIsQuiet
    <3> SUFFICES ASSUME disposal = "done"
                 PROVE  /\ active = "none" /\ deletion = NoDeletion
                        /\ \A t \in Threads : pc[t] = "idle"
                        /\ commits = <<>>
      BY DEF DisposedIsQuiet
    <3>1. active = "none" /\ deletion = NoDeletion /\ \A t \in Threads : pc[t] = "idle"
      BY DEF BatchStands, RunnerStands, ThreadsStand, Threads
    <3>2. commits = <<>>
      <4>1. commits # <<>> => Head(commits) \in Threads /\ Head(commits) \in ToSet(commits)
        BY Left DEF BatchStands, TypeOK
      <4> QED BY <3>1, <4>1 DEF BatchStands, ThreadsStand, Waiting
    <3> QED BY <3>1, <3>2
  <2> QED BY <2>2, <2>3, <2>4, <2>5 DEF BatchInv
<1> QED BY <1>1, AlwaysStands, PTL

(* The batch hands a task to the dispatcher at most once as long as its record exists, across
   crashes and repeated calls of run(), and only after the record on disk said that it runs. *)
THEOREM TasksDelegatedOnce == Spec => []DelegatedOnce
<1>1. BatchStands => DelegatedOnce
  BY DEF BatchStands, HistoryStands, SavesStand, Covers, DelegatedOnce
<1> QED BY <1>1, AlwaysStands, PTL

(* No worker delegates once the scope has aborted, a save has failed or dispose() was called:
   what the worker checks after its commit, the failed save and the disposal have set. *)
THEOREM StoppedBatchDelegatesNothing == Spec => NothingAfterStop
<1>1. ASSUME BatchStands, [Next]_vars, NEW i \in Tasks, delegated'[i] > delegated[i]
      PROVE  ~aborted /\ ~record.failed /\ disposal = "none"
  <2>1. delegated \in [Tasks -> Nat]
    BY <1>1 DEF BatchStands, TypeOK
  <2>2. ~(0 > delegated[i]) /\ ~(delegated[i] > delegated[i])
    BY <2>1
  <2>3. delegated' # delegated
    BY <1>1, <2>2
  <2>4. PICK w \in Workers : Delegate(w)
    <3>1. ~Removed
      <4>1. Removed => delegated' = [j \in Tasks |-> 0] \/ delegated' = delegated
        BY DEF Removed
      <4> QED BY <1>1, <2>2, <2>3, <4>1
    <3> QED BY <1>1, <2>3, <3>1
         DEF Next, vars, diskVars, MainStep, WorkerStep, SaveStep, DeletionStep, Run, Lookup, Planned,
             StartWorkers, Finish, Final, Close, Take, Select, Unavailable, Assigned, Answered, Done,
             CommitBegin, CommitOk, CommitFails, Abort, Dispose, Forget, ForgetRemove, Deletion,
             DeletionCheck, DeletionRemove, Crash
  <2>5. pc[w] = "committed" /\ ~aborted
    BY <2>3, <2>4 DEF Delegate
  <2>6. opened
    BY <1>1, <2>5, AtWork
  <2> QED BY <1>1, <2>5, <2>6 DEF BatchStands, RunnerStands
<1>2. BatchStands /\ [Next]_vars =>
        [(\E i \in Tasks : delegated'[i] > delegated[i]) =>
           ~aborted /\ ~record.failed /\ disposal = "none"]_vars
  BY <1>1
<1> QED BY <1>2, AlwaysStands, PTL DEF Spec, NothingAfterStop
=============================================================================
