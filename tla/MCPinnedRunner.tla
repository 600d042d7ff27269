--------------------------- MODULE MCPinnedRunner ---------------------------
(***************************************************************************)
(* PinnedRunner for TLC: one file, which the author may create, replace or *)
(* delete; the validator reads what it made and runs a command on it.      *)
(***************************************************************************)
EXTENDS PinnedRunner

PathSet == {"file"}
PlanSet == [PathSet -> {"create", "replace", "delete"}]
Judges == {"validator"}

\* The command has two tests; its child may leave one out, fail one, complain
\* on stderr, or print more than is kept.
TwoTests == <<"t1", "t2">>
Report(oks) == [i \in DOMAIN oks |-> [name |-> TwoTests[i], ok |-> oks[i]]]
OutputSet ==
  {[tests |-> Report(<<TRUE, TRUE>>), stderr |-> FALSE, lossy |-> FALSE],
   [tests |-> Report(<<TRUE>>), stderr |-> FALSE, lossy |-> FALSE],
   [tests |-> Report(<<TRUE, FALSE>>), stderr |-> FALSE, lossy |-> FALSE],
   [tests |-> Report(<<TRUE, TRUE>>), stderr |-> TRUE, lossy |-> FALSE],
   [tests |-> Report(<<TRUE, TRUE>>), stderr |-> FALSE, lossy |-> TRUE]}
=============================================================================
