------------------------------ MODULE MCBatch ------------------------------
(***************************************************************************)
(* Batch for TLC.  Two workers and two tasks: each worker may hold one, so *)
(* that their commits meet in the chain of saves, or one may take both.    *)
(***************************************************************************)
EXTENDS Batch, TLC

TwoTasks ==
  << [id |-> "t1", scope |-> "s1", prompt |-> "p1", role |-> "deep", capabilities |-> {}],
     [id |-> "t2", scope |-> "s2", prompt |-> "p2", role |-> "domain", capabilities |-> {"tools"}] >>

\* Two readable declarations of a finished assignment, complete and with the most findings.
Readables ==
  [state : {"COMPLETED"}, status : {"complete"}, findings : {1, 5}, uncertainties : {0}]

\* And one that says complete and leaves something open.
ReadableOrNot ==
  Readables \cup
  [state : {"COMPLETED"}, status : {"complete"}, findings : {1}, uncertainties : {1}]

=============================================================================
