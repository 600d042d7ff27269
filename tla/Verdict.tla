------------------------------ MODULE Verdict ------------------------------
(***************************************************************************)
(* src/src/verdict.mjs: what a reviewer declared, read without judging it, *)
(* and whether another cycle may follow.                                   *)
(*                                                                         *)
(* A reply is Prose when no object can be read from it, or a record        *)
(* [verdict, onObjective, summary, findings, questions]: the findings are  *)
(* severities in the order given, questions counts the clarifications.     *)
(*                                                                         *)
(* Where two operators with the same parameters follow each other, the     *)
(* first is a plausible mistake in the second, as in RecordStore.          *)
(***************************************************************************)
EXTENDS Integers, Sequences, SequencesExt

CONSTANTS
  Kept,         \* findings a stored verdict has room for (50 in the code)
  Prose         \* a reply from which no object can be read

ASSUME VerdictAssumption == Kept \in Nat

Verdicts == {"verified", "partial", "failed", "needs-clarification"}
Revisable == {"partial", "failed"}
Severities == {"blocker", "major", "minor", "note"}

Unreadable == [verdict |-> "none", findings |-> <<>>, dropped |-> 0, contradictions |-> {}]

(* parseVerdict(): a verdict outside the list, or without a summary, is no verdict.  What
   does not fit is dropped and counted; whether the fields contradict each other is asked
   of what was declared. *)
Fitting(findings) ==
  LET usable(severity) == severity \in Severities
      all == SelectSeq(findings, usable)
  IN IF Len(all) <= Kept THEN all ELSE SubSeq(all, 1, Kept)

ContradictionsOfKept(reply) ==
  {which \in {"VERIFIED_BUT_OFF_OBJECTIVE", "VERIFIED_WITH_BLOCKER", "CLARIFICATION_WITHOUT_QUESTION"} :
     \/ which = "VERIFIED_BUT_OFF_OBJECTIVE" /\ reply.verdict = "verified" /\ ~reply.onObjective
     \/ which = "VERIFIED_WITH_BLOCKER" /\ reply.verdict = "verified"
          /\ "blocker" \in ToSet(Fitting(reply.findings))
     \/ which = "CLARIFICATION_WITHOUT_QUESTION"
          /\ reply.verdict = "needs-clarification" /\ reply.questions = 0}
Contradictions(reply) ==
  {which \in {"VERIFIED_BUT_OFF_OBJECTIVE", "VERIFIED_WITH_BLOCKER", "CLARIFICATION_WITHOUT_QUESTION"} :
     \/ which = "VERIFIED_BUT_OFF_OBJECTIVE" /\ reply.verdict = "verified" /\ ~reply.onObjective
     \/ which = "VERIFIED_WITH_BLOCKER" /\ reply.verdict = "verified"
          /\ "blocker" \in ToSet(reply.findings)
     \/ which = "CLARIFICATION_WITHOUT_QUESTION"
          /\ reply.verdict = "needs-clarification" /\ reply.questions = 0}

ParseVerdict(reply) ==
  IF reply = Prose THEN Unreadable
  ELSE IF reply.verdict \notin Verdicts \/ ~reply.summary THEN Unreadable
  ELSE [verdict |-> reply.verdict,
        findings |-> Fitting(reply.findings),
        dropped |-> Len(reply.findings) - Len(Fitting(reply.findings)),
        contradictions |-> Contradictions(reply)]

(* loopDecision(): the state that ends the loop, or REVISING. *)
LoopDecisionUnlimited(verdict, state, cycle, maxCycles) ==
  IF verdict.verdict = "none" THEN "VERDICT_UNREADABLE"
  ELSE IF state # "COMPLETED" THEN "REVIEW_DID_NOT_COMPLETE"
  ELSE IF verdict.contradictions # {} THEN "VERDICT_INCOHERENT"
  ELSE IF verdict.verdict = "verified" THEN "VERIFIED"
  ELSE IF verdict.verdict = "needs-clarification" THEN "NEEDS_CLARIFICATION"
  ELSE "REVISING"
LoopDecision(verdict, state, cycle, maxCycles) ==
  IF verdict.verdict = "none" THEN "VERDICT_UNREADABLE"
  ELSE IF state # "COMPLETED" THEN "REVIEW_DID_NOT_COMPLETE"
  ELSE IF verdict.contradictions # {} THEN "VERDICT_INCOHERENT"
  ELSE IF verdict.verdict = "verified" THEN "VERIFIED"
  ELSE IF verdict.verdict = "needs-clarification" THEN "NEEDS_CLARIFICATION"
  ELSE IF cycle >= maxCycles THEN "UNCONVERGED"
  ELSE "REVISING"

(* parseCompaction(): taken only when it is smaller than 0.8 of what it replaces. *)
ParseCompaction(produced, original) == 10 * produced < 8 * original
=============================================================================
