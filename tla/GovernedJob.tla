----------------------------- MODULE GovernedJob -----------------------------
(* What the journal of a governed job promises: a plan is granted once, it has a
   bounded number of attempts that are never given back, each is authored and
   then judged, and a job that is ready or over stays so. *)
EXTENDS Naturals

CONSTANT Budget
VARIABLES stage, attempts

Init == stage = "none" /\ attempts = 0

Propose == stage = "none" /\ stage' = "planning" /\ UNCHANGED attempts
Grant == stage = "planning" /\ stage' = "granted" /\ UNCHANGED attempts
Attempt ==
  /\ stage = "granted" /\ attempts < Budget
  /\ stage' = "authoring" /\ attempts' = attempts + 1
Freeze == stage = "authoring" /\ stage' = "judging" /\ UNCHANGED attempts
(* An attempt that failed leaves the grant to the next one, if there is one. *)
Fail ==
  /\ stage \in {"authoring", "judging"}
  /\ stage' = IF attempts < Budget THEN "granted" ELSE "over"
  /\ UNCHANGED attempts
Pass == stage = "judging" /\ stage' = "ready" /\ UNCHANGED attempts
End == stage \notin {"none", "ready", "over"} /\ stage' = "over" /\ UNCHANGED attempts

Next == Propose \/ Grant \/ Attempt \/ Freeze \/ Fail \/ Pass \/ End
Spec == Init /\ [][Next]_<<stage, attempts>>
=============================================================================
