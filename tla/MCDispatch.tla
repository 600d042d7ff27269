----------------------------- MODULE MCDispatch -----------------------------
(***************************************************************************)
(* Dispatch for TLC.  The configurations choose what the calls may ask:    *)
(* one assignment or compaction in full depth, two assignments that        *)
(* compete for slots and are deleted, or a run and its review.             *)
(***************************************************************************)
EXTENDS Dispatch

AllReasons == {"completed", "max-tokens", "refused", "error", "thrown"}
LongOrDone == {"completed", "max-tokens"}

Symmetry == Permutations(Runs)

ReadOnly == [write |-> FALSE, subject |-> None, compact |-> FALSE]
Writing == [write |-> TRUE, subject |-> None, compact |-> FALSE]
Compaction == [write |-> FALSE, subject |-> Elsewhere, compact |-> TRUE]

PlainOrAlone == {ReadOnly, Writing, Compaction}
PlainOrReview == {ReadOnly} \cup [write : {FALSE}, subject : Runs, compact : {FALSE}]
=============================================================================
