---------------------------- MODULE GovernedState ----------------------------
(* The state of a governed job as its journal carries it, and the table of the
   transitions that the journal accepts (src/src/governance/contracts.mjs
   226-282).  There is one plan; the digests that bind everything to it are left
   out.  Assignments are named by role and generation, which identify them, and
   an author's generation stands for the candidate it seals (0: no candidate).
   Each role raises at most one finding, a blocker. *)
EXTENDS Naturals, FiniteSets

CONSTANTS
  Commands,   \* the commands of the plan
  Budget      \* the attempts that a job has: three in the code

ASSUME CommandsAssumption == IsFiniteSet(Commands) /\ "frozen" \notin Commands
ASSUME BudgetAssumption == Budget \in Nat \ {0}

Judges == {"validator", "reviewer"}
Roles == {"plan-review", "author"} \cup Judges
Terminal == {"STOPPED", "REASSESS_REQUIRED", "RECONCILIATION_REQUIRED"}
Phases == Terminal \cup
  {"PLANNING", "AWAITING_HUMAN", "PLAN_AUTHORIZED", "AUTHORING", "FROZEN",
   "VALIDATING", "REVIEWING", "DIAGNOSTIC_READY", "CORRECTION_REQUIRED"}

Generations == 1 .. (Budget + 1)
Frozen == "frozen"
Evidence == [of : Commands \cup {Frozen}, generation : Generations, passed : BOOLEAN]
Results == [role : Roles, generation : Generations, outcome : {"pass", "fail", "broken"},
            finding : {"none", "open", "resolved"}, cites : SUBSET (Commands \cup {Frozen})]
States == [phase : Phases, revision : Nat, generation : Generations, candidate : Generations \cup {0},
           assignments : SUBSET (Roles \X Generations), results : SUBSET Results,
           evidence : SUBSET Evidence, decision : {"none", "authorize", "reject"}]

NoState == [phase |-> "EMPTY", revision |-> 0]
Proposed ==
  [phase |-> "PLANNING", revision |-> 1, generation |-> 1, candidate |-> 0,
   assignments |-> {}, results |-> {}, evidence |-> {}, decision |-> "none"]
-----------------------------------------------------------------------------
Authors(s) == {a \in s.assignments : a[1] = "author"}
Attempts(s) == Cardinality(Authors(s))
\* Mutant: one attempt too many.
BudgetLeftInclusive(s) == Attempts(s) <= Budget
BudgetLeft(s) == Attempts(s) < Budget
ResultsOf(s, role, generation) == {r \in s.results : r.role = role /\ r.generation = generation}
CurrentEvidence(s) == {e \in s.evidence : e.generation = s.generation}
Judged(s) == \A role \in Judges : ResultsOf(s, role, s.generation) # {}
PlanReviewed(s) == \E r \in s.results : r.role = "plan-review" /\ r.outcome = "pass"

(* The phase after an attempt has failed. *)
Corrected(s) == IF BudgetLeft(s) THEN "CORRECTION_REQUIRED" ELSE "REASSESS_REQUIRED"

(* A blocker stays open across attempts until its own role, in a later judgment
   that was completed, calls it resolved. *)
OpenBlocker(s) ==
  \E r \in s.results :
    /\ r.finding = "open"
    /\ \A q \in s.results :
         q.role = r.role /\ q.generation > r.generation /\ q.outcome \in {"pass", "fail"} => q.finding # "resolved"

\* Mutant: a judge may pass what it has not looked at.
FactsReadyUncited(s) ==
  /\ s.candidate # 0 /\ s.decision = "authorize"
  /\ \A role \in Judges : \E r \in ResultsOf(s, role, s.generation) : r.outcome = "pass"
  /\ \A c \in Commands : \E e \in CurrentEvidence(s) : e.of = c /\ e.passed
  /\ ~OpenBlocker(s)

(* diagnosticFactsReadyV2(): both judges pass the candidate and cite all of its
   evidence, its commands have all run, once, and passed. *)
FactsReady(s) ==
  /\ s.candidate # 0 /\ s.decision = "authorize"
  /\ Cardinality({e \in CurrentEvidence(s) : e.of = Frozen}) = 1
  /\ \A role \in Judges : \E r \in ResultsOf(s, role, s.generation) :
       r.outcome = "pass" /\ {e.of : e \in CurrentEvidence(s)} \subseteq r.cites
  /\ \A c \in Commands :
       LET ran == {e \in CurrentEvidence(s) : e.of = c}
       IN Cardinality(ran) = 1 /\ \A e \in ran : e.passed
  /\ ~OpenBlocker(s)

(* validateStateV2(): what every state on the journal satisfies by itself. *)
WellFormed(s) ==
  /\ {a[2] : a \in Authors(s)} = 2 .. (Attempts(s) + 1) /\ Attempts(s) <= Budget
  /\ \A a \in s.assignments : a[2] <= s.generation /\ (a[1] = "plan-review" => a[2] = 1)
  /\ \A r \in s.results :
       /\ <<r.role, r.generation>> \in s.assignments
       /\ Cardinality(ResultsOf(s, r.role, r.generation)) = 1
       /\ r.outcome = "pass" => r.finding # "open"
       /\ r.cites \subseteq {e.of : e \in {x \in s.evidence : x.generation = r.generation}}
  /\ \A e \in s.evidence :
       <<IF e.of = Frozen THEN "author" ELSE "validator", e.generation>> \in s.assignments
  /\ s.decision # "none" => PlanReviewed(s)
-----------------------------------------------------------------------------
(* validateTransitionV2(): each event fixes everything that it does not change. *)
AttemptReserved(p, s) ==
  /\ p.phase \in {"PLAN_AUTHORIZED", "CORRECTION_REQUIRED"} /\ BudgetLeft(p)
  /\ p.decision = "authorize" /\ PlanReviewed(p)
  /\ s = [p EXCEPT !.revision = @ + 1, !.phase = "AUTHORING", !.generation = @ + 1, !.candidate = 0,
                   !.assignments = @ \cup {<<"author", p.generation + 1>>}]

AssignmentCreated(p, s) ==
  \E a \in s.assignments \ p.assignments :
    /\ CASE a[1] = "plan-review" -> p.phase = "PLANNING" /\ a[2] = 1
         [] a[1] \in Judges -> /\ p.phase \in {"FROZEN", "VALIDATING", "REVIEWING"}
                               /\ p.candidate # 0 /\ a[2] = p.generation
         [] OTHER -> FALSE
    /\ s = [p EXCEPT !.revision = @ + 1, !.assignments = @ \cup {a},
                     !.phase = CASE a[1] = "plan-review" -> "PLANNING"
                                 [] a[1] = "validator" -> "VALIDATING"
                                 [] OTHER -> "REVIEWING"]

ResultRecorded(p, s) ==
  \/ \E r \in s.results \ p.results :
       /\ CASE r.role = "plan-review" -> p.phase = "PLANNING"
            [] r.role = "author" -> p.phase = "AUTHORING" /\ r.outcome = "broken"
            [] r.role = "validator" -> p.phase = "VALIDATING"
            [] OTHER -> p.phase = "REVIEWING"
       /\ s = [p EXCEPT !.revision = @ + 1, !.results = @ \cup {r},
                        !.phase = CASE r.role = "plan-review" /\ r.outcome = "pass" -> "AWAITING_HUMAN"
                                    [] r.role = "plan-review" -> "REASSESS_REQUIRED"
                                    [] r.role = "author" -> Corrected(p)
                                    [] OTHER -> p.phase]
  \/ /\ p.phase \in {"VALIDATING", "REVIEWING"} /\ Judged(p)
     /\ s = [p EXCEPT !.revision = @ + 1, !.phase = Corrected(p)]

CandidateSealed(p, s) ==
  /\ p.phase = "AUTHORING"
  /\ \E r \in s.results \ p.results, e \in s.evidence \ p.evidence :
       /\ r.role = "author" /\ r.outcome \in {"pass", "fail"}
       /\ e = [of |-> Frozen, generation |-> r.generation, passed |-> TRUE]
       /\ s = [p EXCEPT !.revision = @ + 1, !.phase = "FROZEN", !.candidate = r.generation,
                        !.results = @ \cup {r}, !.evidence = @ \cup {e}]

EvidenceRegistered(p, s) ==
  /\ p.phase = "VALIDATING"
  /\ \E e \in s.evidence \ p.evidence :
       e.of # Frozen /\ s = [p EXCEPT !.revision = @ + 1, !.evidence = @ \cup {e}]

HumanDecided(p, s) ==
  /\ p.phase = "AWAITING_HUMAN" /\ p.decision = "none" /\ PlanReviewed(p)
  /\ \E d \in {"authorize", "reject"} :
       s = [p EXCEPT !.revision = @ + 1, !.decision = d,
                     !.phase = IF d = "authorize" THEN "PLAN_AUTHORIZED" ELSE "STOPPED"]

AuthorFailed(p, s) ==
  /\ p.phase = "AUTHORING"
  /\ \E phase \in {"CORRECTION_REQUIRED", "REASSESS_REQUIRED"} : s = [p EXCEPT !.revision = @ + 1, !.phase = phase]

DiagnosticReady(p, s) ==
  /\ p.phase \in {"VALIDATING", "REVIEWING"} /\ FactsReady(p)
  /\ s = [p EXCEPT !.revision = @ + 1, !.phase = "DIAGNOSTIC_READY"]

Stopped(p, s) == s = [p EXCEPT !.revision = @ + 1, !.phase = "STOPPED"]

Follows(p, type, s) ==
  IF p = NoState THEN type = "PLAN_PROPOSED" /\ s = Proposed
  ELSE /\ p.phase \notin Terminal
       /\ WellFormed(s)
       /\ \/ type = "ATTEMPT_RESERVED" /\ AttemptReserved(p, s)
          \/ type = "ASSIGNMENT_CREATED" /\ AssignmentCreated(p, s)
          \/ type = "RESULT_RECORDED" /\ ResultRecorded(p, s)
          \/ type = "CANDIDATE_SEALED" /\ CandidateSealed(p, s)
          \/ type = "EVIDENCE_REGISTERED" /\ EvidenceRegistered(p, s)
          \/ type = "HUMAN_DECIDED" /\ HumanDecided(p, s)
          \/ type = "AUTHOR_FAILED" /\ AuthorFailed(p, s)
          \/ type = "DIAGNOSTIC_READY" /\ DiagnosticReady(p, s)
          \/ type = "STOPPED" /\ Stopped(p, s)
=============================================================================
