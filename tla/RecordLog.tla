----------------------------- MODULE RecordLog -----------------------------
(***************************************************************************)
(* What a record store promises those who save through it: per key a log   *)
(* of revisions that a save extends by one, all at once or not at all.  A  *)
(* save that fails or is cut off by a crash may still have happened, or    *)
(* have torn the record, which nothing extends from then on.  A removal    *)
(* that fails may leave any part of the log.                               *)
(***************************************************************************)
EXTENDS Naturals, Sequences, SequencesExt

CONSTANTS Keys,     \* record keys
          Torn      \* a revision that reads refuse

VARIABLE log        \* per key its revisions, oldest first

Whole(k) == log[k] = <<>> \/ Last(log[k]) # Torn

Init == log = [k \in Keys |-> <<>>]

(* One more revision: what was saved, or Torn when the save did not finish. *)
Extend(k) ==
  /\ Whole(k)
  /\ Len(log'[k]) = Len(log[k]) + 1
  /\ Front(log'[k]) = log[k]

(* A removal leaves a part of the log: an older end, or, when what is left lacks a
   predecessor, a record that reads refuse.  Removing more of that may uncover
   the whole revisions that were under it. *)
Cut(k) ==
  /\ log[k] # <<>>
  /\ \/ IsPrefix(log'[k], log[k])
     \/ log'[k] = <<Torn>>
     \/ log[k] = <<Torn>> /\ Torn \notin ToSet(log'[k])

(* The logs are independent of each other: what dies with a process is the save or the
   removal of every key that had one under way. *)
Next == \A k \in Keys : log'[k] = log[k] \/ Extend(k) \/ Cut(k)

Spec == Init /\ [][Next]_log
=============================================================================
