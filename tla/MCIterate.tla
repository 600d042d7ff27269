----------------------------- MODULE MCIterate -----------------------------
(***************************************************************************)
(* Iterate for TLC.  Three routes with evidence, two of one provider: an   *)
(* ordinary task goes to the balanced pool, one that says it reviews (R07) *)
(* to the advanced, in which a reviewer may share the author's provider,   *)
(* and confidential data to no route with this evidence.                   *)
(***************************************************************************)
EXTENDS Iterate

OrdinaryTask ==
  [role |-> "standard", risk |-> "low", complexity |-> "complex", escalate |-> FALSE,
   dataClass |-> "public", needs |-> {}, pool |-> ""]

TaskSet ==
  {OrdinaryTask,
   [OrdinaryTask EXCEPT !.role = "R07"],
   [OrdinaryTask EXCEPT !.dataClass = "confidential"]}

Keys3 == {<<"codex-sol", "high">>, <<"claude-opus", "high">>, <<"claude-sonnet", "medium">>}

Reply(verdict, findings, questions) ==
  [verdict |-> verdict, onObjective |-> TRUE, summary |-> TRUE, findings |-> findings,
   questions |-> questions]

ReplySet ==
  {Prose,
   Reply("verified", <<>>, 0),
   [Reply("verified", <<>>, 0) EXCEPT !.onObjective = FALSE],
   Reply("verified", <<"minor", "blocker">>, 0),
   Reply("partial", <<"major">>, 0),
   Reply("needs-clarification", <<>>, 1)}
=============================================================================
