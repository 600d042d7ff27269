--------------------------- MODULE PipelineProofs ---------------------------
(***************************************************************************)
(* The safety properties of Pipeline and its refinement of GovernedJob,    *)
(* proved for every plan, every budget and every set of judges that raise  *)
(* blockers.                                                               *)
(***************************************************************************)
EXTENDS Pipeline, FiniteSetTheorems, TLAPS
-----------------------------------------------------------------------------
(* A record of the job is not the empty one, and its attempts can be counted. *)
LEMMA AttemptsAreCounted ==
  ASSUME NEW s \in States
  PROVE  s # NoState /\ IsFiniteSet(Authors(s)) /\ Attempts(s) \in Nat
<1>1. s # NoState
  BY DEF States, NoState, Phases, Terminal
<1>2. IsFiniteSet(Roles)
  <2>1. Roles = {} \cup {"plan-review"} \cup {"author"} \cup {"validator"} \cup {"reviewer"}
    BY DEF Roles, Judges
  <2> QED BY <2>1, FS_EmptySet, FS_AddElement
<1>3. IsFiniteSet(Generations)
  BY BudgetAssumption, FS_Interval DEF Generations
<1>4. IsFiniteSet(Roles \X Generations)
  BY <1>2, <1>3, FS_Product
<1>5. Authors(s) \subseteq Roles \X Generations
  BY DEF Authors, States
<1>6. IsFiniteSet(Authors(s))
  BY <1>4, <1>5, FS_Subset
<1> QED BY <1>1, <1>6, FS_CardinalityType DEF Attempts

(* What the journal validates of a record stays so while the record only grows: new
   assignments of the job's generation, one result for each of them, and evidence of what is
   assigned. *)
LEMMA WellFormedGrows ==
  ASSUME NEW p \in States, NEW s \in States, WellFormed(p),
         p.assignments \subseteq s.assignments, p.results \subseteq s.results,
         p.evidence \subseteq s.evidence, s.generation = p.generation, Authors(s) = Authors(p),
         \A a \in s.assignments \ p.assignments :
           a[2] <= s.generation /\ (a[1] = "plan-review" => a[2] = 1),
         \A r \in s.results \ p.results :
           /\ <<r.role, r.generation>> \in s.assignments
           /\ ResultsOf(s, r.role, r.generation) = {r}
           /\ r.outcome = "pass" => r.finding # "open"
           /\ r.cites \subseteq {e.of : e \in {x \in s.evidence : x.generation = r.generation}},
         \A e \in s.evidence \ p.evidence :
           <<IF e.of = Frozen THEN "author" ELSE "validator", e.generation>> \in s.assignments,
         s.decision # "none" => PlanReviewed(s)
  PROVE  WellFormed(s)
<1>1. Attempts(s) = Attempts(p)
  BY DEF Attempts
<1>2. {a[2] : a \in Authors(s)} = 2 .. (Attempts(s) + 1) /\ Attempts(s) <= Budget
  BY <1>1 DEF WellFormed
<1>3. \A a \in s.assignments : a[2] <= s.generation /\ (a[1] = "plan-review" => a[2] = 1)
  BY DEF WellFormed
<1>4. ASSUME NEW r \in s.results
      PROVE  /\ <<r.role, r.generation>> \in s.assignments
             /\ Cardinality(ResultsOf(s, r.role, r.generation)) = 1
             /\ r.outcome = "pass" => r.finding # "open"
             /\ r.cites \subseteq {e.of : e \in {x \in s.evidence : x.generation = r.generation}}
  <2>1. CASE r \notin p.results
    <3>1. r \in s.results \ p.results
      BY <2>1
    <3>2. Cardinality({r}) = 1
      BY FS_Singleton
    <3> QED BY <3>1, <3>2
  <2>2. CASE r \in p.results
    <3>1. /\ <<r.role, r.generation>> \in p.assignments
          /\ Cardinality(ResultsOf(p, r.role, r.generation)) = 1
          /\ r.outcome = "pass" => r.finding # "open"
          /\ r.cites \subseteq {e.of : e \in {x \in p.evidence : x.generation = r.generation}}
      BY <2>2 DEF WellFormed
    <3>2. ResultsOf(s, r.role, r.generation) = ResultsOf(p, r.role, r.generation)
      <4>1. ASSUME NEW q \in s.results, q.role = r.role, q.generation = r.generation
            PROVE  q \in p.results
        <5>1. r \in ResultsOf(s, q.role, q.generation)
          BY <4>1 DEF ResultsOf
        <5> QED BY <2>2, <5>1
      <4> QED BY <4>1 DEF ResultsOf
    <3>3. {e.of : e \in {x \in p.evidence : x.generation = r.generation}}
            \subseteq {e.of : e \in {x \in s.evidence : x.generation = r.generation}}
      OBVIOUS
    <3> QED BY <3>1, <3>2, <3>3
  <2> QED BY <2>1, <2>2
<1>5. \A e \in s.evidence :
        <<IF e.of = Frozen THEN "author" ELSE "validator", e.generation>> \in s.assignments
  BY DEF WellFormed
<1> QED BY <1>2, <1>3, <1>4, <1>5 DEF WellFormed
-----------------------------------------------------------------------------
(* The steps of GovernedJob, from one record to the next. *)
JobMoves(p, s) ==
  \/ StageOf(s) = StageOf(p) /\ AttemptsOf(s) = AttemptsOf(p)
  \/ StageOf(p) = "none" /\ StageOf(s) = "planning" /\ AttemptsOf(s) = AttemptsOf(p)
  \/ StageOf(p) = "planning" /\ StageOf(s) = "granted" /\ AttemptsOf(s) = AttemptsOf(p)
  \/ /\ StageOf(p) = "granted" /\ AttemptsOf(p) < Budget
     /\ StageOf(s) = "authoring" /\ AttemptsOf(s) = AttemptsOf(p) + 1
  \/ StageOf(p) = "authoring" /\ StageOf(s) = "judging" /\ AttemptsOf(s) = AttemptsOf(p)
  \/ /\ StageOf(p) \in {"authoring", "judging"}
     /\ StageOf(s) = (IF AttemptsOf(p) < Budget THEN "granted" ELSE "over")
     /\ AttemptsOf(s) = AttemptsOf(p)
  \/ StageOf(p) = "judging" /\ StageOf(s) = "ready" /\ AttemptsOf(s) = AttemptsOf(p)
  \/ StageOf(p) \notin {"none", "ready", "over"} /\ StageOf(s) = "over" /\ AttemptsOf(s) = AttemptsOf(p)

(* An event that takes up no attempt and begins no authoring leaves a sound record sound. *)
LEMMA SoundStays ==
  ASSUME NEW p \in States, NEW s \in States, Sound(p), WellFormed(s),
         Authors(s) = Authors(p), s.generation = p.generation,
         s.candidate \in {p.candidate, p.generation},
         s.phase # "AUTHORING",
         s.phase \in {"PLANNING", "AWAITING_HUMAN"} =>
           p.phase \in {"PLANNING", "AWAITING_HUMAN"} /\ s.decision = p.decision
  PROVE  Sound(s) /\ AttemptsOf(s) = AttemptsOf(p)
<1>1. p # NoState /\ s # NoState
  BY AttemptsAreCounted
<1>2. Attempts(s) = Attempts(p)
  BY DEF Attempts
<1>3. /\ p.generation = Attempts(p) + 1 /\ p.candidate \in {0, p.generation}
      /\ p.phase \in {"PLANNING", "AWAITING_HUMAN"} => p.generation = 1 /\ p.decision = "none"
  BY <1>1 DEF Sound
<1>4. s.generation = Attempts(s) + 1 /\ s.candidate \in {0, s.generation}
  BY <1>2, <1>3
<1>5. s.phase \in {"PLANNING", "AWAITING_HUMAN"} => s.generation = 1 /\ s.decision = "none"
  BY <1>3
<1>6. Sound(s)
  BY <1>4, <1>5 DEF Sound
<1> QED BY <1>1, <1>2, <1>6 DEF AttemptsOf

(* A reserved attempt is one more, of a generation that nothing was judged in yet. *)
LEMMA ReservationIsSound ==
  ASSUME NEW p \in States, NEW s \in States, Sound(p), WellFormed(s), AttemptReserved(p, s)
  PROVE  Sound(s) /\ Attempts(s) = Attempts(p) + 1
<1> DEFINE a == <<"author", p.generation + 1>>
<1>1. /\ p # NoState /\ s # NoState /\ IsFiniteSet(Authors(p)) /\ Attempts(p) \in Nat
      /\ WellFormed(p) /\ p.generation = Attempts(p) + 1 /\ p.generation \in Nat
  BY AttemptsAreCounted DEF Sound, States, Generations
<1>2. /\ s.phase = "AUTHORING" /\ s.generation = p.generation + 1 /\ s.candidate = 0
      /\ s.assignments = p.assignments \cup {a}
      /\ s.results = p.results /\ s.evidence = p.evidence
  BY DEF AttemptReserved, States
<1>3. \A x \in p.assignments : x[2] <= p.generation
  BY <1>1 DEF WellFormed
<1>4. a \notin p.assignments
  BY <1>1, <1>3
<1>5. Authors(s) = Authors(p) \cup {a} /\ a \notin Authors(p)
  BY <1>2, <1>4 DEF Authors
<1>6. Attempts(s) = Attempts(p) + 1
  BY <1>1, <1>5, FS_AddElement, SMTT(30) DEF Attempts
<1>7. ResultsOf(s, "author", s.generation) = {}
  <2> SUFFICES ASSUME NEW r \in p.results, r.role = "author", r.generation = p.generation + 1
               PROVE  FALSE
    BY <1>2 DEF ResultsOf
  <2>1. <<r.role, r.generation>> \in p.assignments
    BY <1>1 DEF WellFormed
  <2> QED BY <1>4, <2>1
<1>8. CurrentEvidence(s) = {}
  <2> SUFFICES ASSUME NEW e \in p.evidence, e.generation = p.generation + 1
               PROVE  FALSE
    BY <1>2 DEF CurrentEvidence
  <2>1. <<IF e.of = Frozen THEN "author" ELSE "validator", e.generation>> \in p.assignments
    BY <1>1 DEF WellFormed
  <2>2. e.generation <= p.generation
    BY <1>3, <2>1
  <2> QED BY <1>1, <2>2
<1>9. <<"author", s.generation>> \in s.assignments /\ s.generation = Attempts(s) + 1
  BY <1>1, <1>2, <1>6
<1> QED BY <1>2, <1>6, <1>7, <1>8, <1>9 DEF Sound

(* The first event: a plan and no attempt. *)
LEMMA ProposalIsSound ==
  Proposed \in States /\ Sound(Proposed) /\ JobMoves(NoState, Proposed)
<1>1. Budget + 1 \in Nat /\ 1 \in Generations
  BY BudgetAssumption DEF Generations
<1>2. Proposed \in States
  BY <1>1 DEF Proposed, States, Phases, Terminal
<1>3. Authors(Proposed) = {} /\ Attempts(Proposed) = 0
  BY FS_EmptySet DEF Authors, Attempts, Proposed
<1>4. WellFormed(Proposed)
  <2>1. {a[2] : a \in Authors(Proposed)} = 2 .. (Attempts(Proposed) + 1)
    BY <1>3
  <2> QED BY <1>3, <2>1, BudgetAssumption DEF WellFormed, Proposed
<1>5. Sound(Proposed)
  BY <1>3, <1>4 DEF Sound, Proposed
<1>6. Proposed # NoState
  BY <1>2, AttemptsAreCounted
<1> QED BY <1>2, <1>3, <1>5, <1>6 DEF JobMoves, StageOf, AttemptsOf, NoState, Proposed

(* Every event that the journal accepts keeps a record sound and is a step of GovernedJob,
   provided that a candidate is of the last attempt, a failed author leaves the phase its
   budget gives and nobody stops a job that is ready. *)
LEMMA EventsMoveTheJob ==
  ASSUME NEW p \in States, NEW s \in States, NEW type, Sound(p), Follows(p, type, s),
         type = "CANDIDATE_SEALED" => s.candidate = p.generation,
         type = "AUTHOR_FAILED" => s.phase = Corrected(p),
         type = "STOPPED" => p.phase # "DIAGNOSTIC_READY"
  PROVE  Sound(s) /\ JobMoves(p, s)
<1>1. /\ p # NoState /\ s # NoState /\ Attempts(p) \in Nat
      /\ AttemptsOf(p) = Attempts(p) /\ AttemptsOf(s) = Attempts(s)
  BY AttemptsAreCounted DEF AttemptsOf
<1>2. p.phase \notin Terminal /\ WellFormed(s) /\ p.phase \in Phases /\ s.phase \in Phases
  BY <1>1 DEF Follows, States
<1>3. Corrected(p) = IF AttemptsOf(p) < Budget THEN "CORRECTION_REQUIRED" ELSE "REASSESS_REQUIRED"
  BY <1>1 DEF Corrected, BudgetLeft
<1>4. CASE AttemptReserved(p, s)
  <2>1. Sound(s) /\ AttemptsOf(s) = AttemptsOf(p) + 1
    BY <1>1, <1>2, <1>4, ReservationIsSound
  <2>2. /\ p.phase \in {"PLAN_AUTHORIZED", "CORRECTION_REQUIRED"} /\ s.phase = "AUTHORING"
        /\ AttemptsOf(p) < Budget
    BY <1>1, <1>4 DEF AttemptReserved, BudgetLeft, States
  <2>3. StageOf(p) = "granted" /\ StageOf(s) = "authoring"
    BY <2>2 DEF StageOf
  <2> QED BY <2>1, <2>2, <2>3 DEF JobMoves
<1>5. CASE AssignmentCreated(p, s)
  <2>1. PICK a \in s.assignments \ p.assignments :
          /\ a[1] # "author"
          /\ \/ a[1] = "plan-review" /\ p.phase = "PLANNING" /\ s.phase = "PLANNING"
             \/ /\ p.phase \in {"FROZEN", "VALIDATING", "REVIEWING"}
                /\ s.phase \in {"VALIDATING", "REVIEWING"}
          /\ s.assignments = p.assignments \cup {a} /\ s.generation = p.generation
          /\ s.candidate = p.candidate /\ s.decision = p.decision
    <3>1. PICK a \in s.assignments \ p.assignments :
          /\ CASE a[1] = "plan-review" -> p.phase = "PLANNING" /\ a[2] = 1
               [] a[1] \in Judges -> /\ p.phase \in {"FROZEN", "VALIDATING", "REVIEWING"}
                                     /\ p.candidate # 0 /\ a[2] = p.generation
               [] OTHER -> FALSE
          /\ s = [p EXCEPT !.revision = @ + 1, !.assignments = @ \cup {a},
                           !.phase = CASE a[1] = "plan-review" -> "PLANNING"
                                       [] a[1] = "validator" -> "VALIDATING"
                                       [] OTHER -> "REVIEWING"]
      BY <1>5 DEF AssignmentCreated
    <3>2. a[1] \in {"plan-review", "validator", "reviewer"}
      BY <3>1 DEF Judges
    <3> QED BY <3>1, <3>2 DEF Judges, States
  <2>2. Authors(s) = Authors(p)
    BY <2>1 DEF Authors
  <2>3. Sound(s) /\ AttemptsOf(s) = AttemptsOf(p)
    BY <1>2, <2>1, <2>2, SoundStays
  <2>4. StageOf(s) = StageOf(p)
    BY <2>1 DEF StageOf
  <2> QED BY <2>3, <2>4 DEF JobMoves
<1>6. CASE ResultRecorded(p, s)
  <2>1. /\ s.assignments = p.assignments /\ s.generation = p.generation
        /\ s.candidate = p.candidate /\ s.decision = p.decision
        /\ \/ p.phase = "PLANNING" /\ s.phase \in {"AWAITING_HUMAN", "REASSESS_REQUIRED"}
           \/ p.phase \in {"AUTHORING", "VALIDATING", "REVIEWING"} /\ s.phase = Corrected(p)
           \/ p.phase \in {"VALIDATING", "REVIEWING"} /\ s.phase = p.phase
    <3>1. CASE p.phase \in {"VALIDATING", "REVIEWING"} /\ s = [p EXCEPT !.revision = @ + 1, !.phase = Corrected(p)]
      BY <3>1 DEF States
    <3>2. ASSUME NEW r,
                 CASE r.role = "plan-review" -> p.phase = "PLANNING"
                   [] r.role = "author" -> p.phase = "AUTHORING" /\ r.outcome = "broken"
                   [] r.role = "validator" -> p.phase = "VALIDATING"
                   [] OTHER -> p.phase = "REVIEWING",
                 s = [p EXCEPT !.revision = @ + 1, !.results = @ \cup {r},
                        !.phase = CASE r.role = "plan-review" /\ r.outcome = "pass" -> "AWAITING_HUMAN"
                                    [] r.role = "plan-review" -> "REASSESS_REQUIRED"
                                    [] r.role = "author" -> Corrected(p)
                                    [] OTHER -> p.phase]
          PROVE  /\ s.assignments = p.assignments /\ s.generation = p.generation
                 /\ s.candidate = p.candidate /\ s.decision = p.decision
                 /\ \/ p.phase = "PLANNING" /\ s.phase \in {"AWAITING_HUMAN", "REASSESS_REQUIRED"}
                    \/ p.phase \in {"AUTHORING", "VALIDATING", "REVIEWING"} /\ s.phase = Corrected(p)
                    \/ p.phase \in {"VALIDATING", "REVIEWING"} /\ s.phase = p.phase
      <4>1. CASE r.role = "plan-review"
        BY <3>2, <4>1 DEF States
      <4>2. CASE r.role = "author"
        BY <3>2, <4>2 DEF States
      <4>3. CASE r.role \notin {"plan-review", "author"}
        BY <3>2, <4>3 DEF States
      <4> QED BY <4>1, <4>2, <4>3
    <3> QED BY <1>6, <3>1, <3>2 DEF ResultRecorded
  <2>2. Authors(s) = Authors(p) /\ s.phase # "AUTHORING"
    BY <1>3, <2>1 DEF Authors
  <2>3. Sound(s) /\ AttemptsOf(s) = AttemptsOf(p)
    BY <1>2, <1>3, <2>1, <2>2, SoundStays
  <2> QED BY <1>3, <2>1, <2>3 DEF JobMoves, StageOf
<1>7. CASE CandidateSealed(p, s) /\ type = "CANDIDATE_SEALED"
  <2>2. /\ s.assignments = p.assignments /\ s.generation = p.generation
        /\ p.phase = "AUTHORING" /\ s.phase = "FROZEN"
    BY <1>7 DEF CandidateSealed, States
  <2>4. Authors(s) = Authors(p)
    BY <2>2 DEF Authors
  <2>5. Sound(s) /\ AttemptsOf(s) = AttemptsOf(p)
    BY <1>2, <1>7, <2>2, <2>4, SoundStays
  <2> QED BY <2>2, <2>5 DEF JobMoves, StageOf
<1>8. CASE EvidenceRegistered(p, s)
  <2>1. /\ s.assignments = p.assignments /\ s.generation = p.generation
        /\ s.candidate = p.candidate /\ s.phase = "VALIDATING" /\ p.phase = "VALIDATING"
    BY <1>8 DEF EvidenceRegistered, States
  <2>2. Authors(s) = Authors(p)
    BY <2>1 DEF Authors
  <2>3. Sound(s) /\ AttemptsOf(s) = AttemptsOf(p)
    BY <1>2, <2>1, <2>2, SoundStays
  <2> QED BY <2>1, <2>3 DEF JobMoves, StageOf
<1>9. CASE HumanDecided(p, s)
  <2>1. /\ s.assignments = p.assignments /\ s.generation = p.generation
        /\ s.candidate = p.candidate /\ p.phase = "AWAITING_HUMAN"
        /\ s.phase \in {"PLAN_AUTHORIZED", "STOPPED"}
    BY <1>9 DEF HumanDecided, States
  <2>2. Authors(s) = Authors(p)
    BY <2>1 DEF Authors
  <2>3. Sound(s) /\ AttemptsOf(s) = AttemptsOf(p)
    BY <1>2, <2>1, <2>2, SoundStays
  <2> QED BY <2>1, <2>3 DEF JobMoves, StageOf
<1>10. CASE AuthorFailed(p, s) /\ type = "AUTHOR_FAILED"
  <2>1. /\ s.assignments = p.assignments /\ s.generation = p.generation
        /\ s.candidate = p.candidate /\ p.phase = "AUTHORING" /\ s.phase = Corrected(p)
    BY <1>10 DEF AuthorFailed, States
  <2>2. Authors(s) = Authors(p)
    BY <2>1 DEF Authors
  <2>3. Sound(s) /\ AttemptsOf(s) = AttemptsOf(p)
    BY <1>2, <1>3, <2>1, <2>2, SoundStays
  <2> QED BY <1>3, <2>1, <2>3 DEF JobMoves, StageOf
<1>11. CASE DiagnosticReady(p, s)
  <2>1. /\ s.assignments = p.assignments /\ s.generation = p.generation
        /\ s.candidate = p.candidate /\ p.phase \in {"VALIDATING", "REVIEWING"}
        /\ s.phase = "DIAGNOSTIC_READY"
    BY <1>11 DEF DiagnosticReady, States
  <2>2. Authors(s) = Authors(p)
    BY <2>1 DEF Authors
  <2>3. Sound(s) /\ AttemptsOf(s) = AttemptsOf(p)
    BY <1>2, <2>1, <2>2, SoundStays
  <2> QED BY <2>1, <2>3 DEF JobMoves, StageOf
<1>12. CASE Stopped(p, s) /\ type = "STOPPED"
  <2>1. /\ s.assignments = p.assignments /\ s.generation = p.generation
        /\ s.candidate = p.candidate /\ p.phase # "DIAGNOSTIC_READY" /\ s.phase = "STOPPED"
    BY <1>12 DEF Stopped, States
  <2>2. Authors(s) = Authors(p)
    BY <2>1 DEF Authors
  <2>3. Sound(s) /\ AttemptsOf(s) = AttemptsOf(p)
    BY <1>2, <2>1, <2>2, SoundStays
  <2>4. StageOf(p) \notin {"none", "ready", "over"} /\ StageOf(s) = "over"
    BY <1>2, <2>1 DEF StageOf, Phases, Terminal
  <2> QED BY <2>3, <2>4 DEF JobMoves
<1> QED BY <1>1, <1>4, <1>5, <1>6, <1>7, <1>8, <1>9, <1>10, <1>11, <1>12 DEF Follows
-----------------------------------------------------------------------------
(* What the controller asks for is what the journal accepts: one lemma for each event.
   First, a reservation of the next attempt. *)
LEMMA ReservationFollows ==
  ASSUME NEW p \in States, NEW s, Sound(p),
         p.phase \in {"PLAN_AUTHORIZED", "CORRECTION_REQUIRED"}, BudgetLeft(p),
         p.decision = "authorize", PlanReviewed(p),
         s = [Step(p) EXCEPT !.phase = "AUTHORING", !.generation = @ + 1, !.candidate = 0,
                             !.assignments = @ \cup {<<"author", p.generation + 1>>}]
  PROVE  s \in States /\ Follows(p, "ATTEMPT_RESERVED", s) /\ s.generation = p.generation + 1
         /\ s.phase = "AUTHORING" /\ s.results = p.results /\ <<"author", s.generation>> \in s.assignments
<1> DEFINE a == <<"author", p.generation + 1>>
<1>1. /\ p # NoState /\ IsFiniteSet(Authors(p)) /\ Attempts(p) \in Nat
      /\ WellFormed(p) /\ p.generation = Attempts(p) + 1 /\ p.generation \in Nat
  BY AttemptsAreCounted DEF Sound, States, Generations
<1>2. p.generation + 1 \in Generations
  BY <1>1, BudgetAssumption DEF BudgetLeft, Generations
<1>3. a \in Roles \X Generations
  BY <1>2 DEF Roles
<1>4. /\ s = [p EXCEPT !.revision = @ + 1, !.phase = "AUTHORING", !.generation = @ + 1, !.candidate = 0,
                       !.assignments = @ \cup {a}]
      /\ s \in States
  <2> DEFINE A == p.assignments \cup {a}
             g == p.generation + 1
             n == p.revision + 1
  <2>1. s = [p EXCEPT !.revision = n, !.phase = "AUTHORING", !.generation = g, !.candidate = 0,
                      !.assignments = A]
    BY DEF Step, States
  <2>2. A \in SUBSET (Roles \X Generations) /\ g \in Generations /\ n \in Nat /\ "AUTHORING" \in Phases
    BY <1>2, <1>3 DEF States, Phases
  <2> HIDE DEF A, g, n
  <2>3. s \in States
    BY <2>1, <2>2 DEF States
  <2> QED BY <2>1, <2>3 DEF A, g, n
<1>5. /\ s.phase = "AUTHORING" /\ s.generation = p.generation + 1
      /\ s.assignments = p.assignments \cup {a}
      /\ s.results = p.results /\ s.evidence = p.evidence /\ s.decision = p.decision
  BY <1>4 DEF States
<1>6. \A x \in p.assignments : x[2] <= p.generation /\ (x[1] = "plan-review" => x[2] = 1) /\ x[2] \in Nat
  BY <1>1 DEF WellFormed, States, Generations
<1>7. Authors(s) = Authors(p) \cup {a} /\ a \notin Authors(p)
  BY <1>1, <1>5, <1>6 DEF Authors
<1>8. Attempts(s) = Attempts(p) + 1
  BY <1>1, <1>7, FS_AddElement DEF Attempts
<1>9. WellFormed(s)
  <2>1. {x[2] : x \in Authors(s)} = 2 .. (Attempts(s) + 1) /\ Attempts(s) <= Budget
    <3>1. {x[2] : x \in Authors(p)} = 2 .. (Attempts(p) + 1)
      BY <1>1 DEF WellFormed
    <3>2. {x[2] : x \in Authors(s)} = {x[2] : x \in Authors(p)} \cup {p.generation + 1}
      BY <1>7
    <3>3. 2 .. (Attempts(p) + 1 + 1) = (2 .. (Attempts(p) + 1)) \cup {Attempts(p) + 1 + 1}
      BY <1>1
    <3> QED BY <1>1, <1>8, <3>1, <3>2, <3>3, BudgetAssumption DEF BudgetLeft
  <2>2. \A x \in s.assignments : x[2] <= s.generation /\ (x[1] = "plan-review" => x[2] = 1)
    BY <1>1, <1>5, <1>6
  <2>3. ASSUME NEW r \in s.results
        PROVE  /\ <<r.role, r.generation>> \in s.assignments
               /\ Cardinality(ResultsOf(s, r.role, r.generation)) = 1
               /\ r.outcome = "pass" => r.finding # "open"
               /\ r.cites \subseteq {e.of : e \in {x \in s.evidence : x.generation = r.generation}}
    <3>1. ResultsOf(s, r.role, r.generation) = ResultsOf(p, r.role, r.generation)
      BY <1>5 DEF ResultsOf
    <3> QED BY <1>1, <1>5, <3>1 DEF WellFormed
  <2>4. PlanReviewed(s)
    BY <1>5 DEF PlanReviewed
  <2>5. \A e \in s.evidence :
          <<IF e.of = Frozen THEN "author" ELSE "validator", e.generation>> \in s.assignments
    BY <1>1, <1>5 DEF WellFormed
  <2> QED BY <2>1, <2>2, <2>3, <2>4, <2>5 DEF WellFormed
<1>10. AttemptReserved(p, s)
  BY <1>4 DEF AttemptReserved
<1>11. p.phase \notin Terminal
  BY DEF Terminal
<1> QED BY <1>1, <1>4, <1>5, <1>9, <1>10, <1>11 DEF Follows

(* The state that AskAssignment asks for. *)
AssignedNext(p, role, g) ==
  [Step(p) EXCEPT !.assignments = @ \cup {<<role, g>>},
                  !.phase = CASE role = "validator" -> "VALIDATING"
                              [] role = "reviewer" -> "REVIEWING"
                              [] OTHER -> @]

(* An assignment of a reviewer of the plan, or of a judge of the candidate. *)
LEMMA AssignmentFollows ==
  ASSUME NEW p \in States, NEW s, NEW role \in {"plan-review"} \cup Judges, NEW g \in Generations, Sound(p),
         <<role, g>> \notin p.assignments,
         IF role = "plan-review" THEN p.phase = "PLANNING" /\ g = 1
         ELSE p.phase \in {"FROZEN", "VALIDATING", "REVIEWING"} /\ p.candidate # 0 /\ g = p.generation,
         s = AssignedNext(p, role, g)
  PROVE  s \in States /\ Follows(p, "ASSIGNMENT_CREATED", s)
         /\ s.generation = p.generation /\ g = p.generation /\ s.results = p.results
         /\ s.candidate = p.candidate /\ <<role, g>> \in s.assignments
         /\ s.phase = PhaseOf(role)
<1> DEFINE a == <<role, g>>
           next == CASE role = "plan-review" -> "PLANNING" [] role = "validator" -> "VALIDATING"
                     [] OTHER -> "REVIEWING"
<1>1. /\ p # NoState /\ WellFormed(p) /\ p.candidate \in {0, p.generation}
      /\ p.phase = "PLANNING" => p.generation = 1 /\ p.decision = "none"
  BY AttemptsAreCounted DEF Sound
<1>2. a \in Roles \X Generations /\ role \in {"plan-review", "validator", "reviewer"}
  BY DEF Roles, Judges
<1>3. s = [p EXCEPT !.revision = @ + 1, !.assignments = @ \cup {a}, !.phase = next]
  BY <1>2 DEF AssignedNext, Step, States
<1>4. next \in Phases
  BY <1>2 DEF Phases
<1> HIDE DEF a, next
<1>5. s \in States /\ s.phase = next
  <2> DEFINE A == p.assignments \cup {a}
             n == p.revision + 1
  <2>1. A \in SUBSET (Roles \X Generations) /\ n \in Nat
    BY <1>2 DEF States
  <2>2. s = [p EXCEPT !.revision = n, !.assignments = A, !.phase = next]
    BY <1>3
  <2> HIDE DEF A, n
  <2> QED BY <1>4, <2>1, <2>2 DEF States
<1>6. /\ s.assignments = p.assignments \cup {a} /\ s.generation = p.generation
      /\ s.results = p.results /\ s.evidence = p.evidence /\ s.decision = p.decision
      /\ s.candidate = p.candidate
  BY <1>3 DEF States
<1>7. Authors(s) = Authors(p)
  BY <1>2, <1>6 DEF Authors, a
<1>8. g = p.generation
  BY <1>1
<1>9. p.generation \in Nat
  BY DEF States, Generations
<1>10. s.decision # "none" => PlanReviewed(s)
  BY <1>1, <1>6 DEF WellFormed, PlanReviewed
<1>11. \A x \in s.assignments \ p.assignments : x[2] <= s.generation /\ (x[1] = "plan-review" => x[2] = 1)
  BY <1>6, <1>8, <1>9 DEF a
<1>12. WellFormed(s)
  BY <1>1, <1>5, <1>6, <1>7, <1>10, <1>11, WellFormedGrows
<1>13. AssignmentCreated(p, s)
  <2>1. a \in s.assignments \ p.assignments
    BY <1>6 DEF a
  <2>2. /\ CASE a[1] = "plan-review" -> p.phase = "PLANNING" /\ a[2] = 1
             [] a[1] \in Judges -> /\ p.phase \in {"FROZEN", "VALIDATING", "REVIEWING"}
                                   /\ p.candidate # 0 /\ a[2] = p.generation
             [] OTHER -> FALSE
        /\ next = CASE a[1] = "plan-review" -> "PLANNING"
                    [] a[1] = "validator" -> "VALIDATING"
                    [] OTHER -> "REVIEWING"
    BY <1>2 DEF a, next, Judges
  <2> QED BY <1>3, <2>1, <2>2 DEF AssignmentCreated
<1>14. p.phase \notin Terminal
  BY DEF Terminal
<1>15. next = PhaseOf(role)
  BY <1>2 DEF next, PhaseOf
<1> QED BY <1>1, <1>5, <1>6, <1>8, <1>12, <1>13, <1>14, <1>15 DEF Follows, a

(* A record of which only the phase changes stays well formed; so a failed author, a stop,
   the end of a judgment and readiness follow. *)
LEMMA PhaseFollows ==
  ASSUME NEW p \in States, NEW s, NEW phase \in Phases, Sound(p), p.phase \notin Terminal,
         s = [Step(p) EXCEPT !.phase = phase]
  PROVE  /\ s \in States /\ s.phase = phase /\ s.generation = p.generation
         /\ s.assignments = p.assignments /\ s.results = p.results /\ s.evidence = p.evidence
         /\ s.candidate = p.candidate
         /\ phase = "STOPPED" => Follows(p, "STOPPED", s)
         /\ p.phase = "AUTHORING" /\ phase = Corrected(p) => Follows(p, "AUTHOR_FAILED", s)
         /\ p.phase \in {"VALIDATING", "REVIEWING"} /\ Judged(p) /\ phase = Corrected(p) =>
              Follows(p, "RESULT_RECORDED", s)
         /\ p.phase \in {"VALIDATING", "REVIEWING"} /\ FactsReady(p) /\ phase = "DIAGNOSTIC_READY" =>
              Follows(p, "DIAGNOSTIC_READY", s)
<1>1. p # NoState /\ WellFormed(p)
  BY AttemptsAreCounted DEF Sound
<1>2. s = [p EXCEPT !.revision = @ + 1, !.phase = phase]
  BY DEF Step, States
<1>3. s \in States
  <2> DEFINE n == p.revision + 1
  <2>1. n \in Nat
    BY DEF States
  <2>2. s = [p EXCEPT !.revision = n, !.phase = phase]
    BY <1>2
  <2> HIDE DEF n
  <2> QED BY <2>1, <2>2 DEF States
<1>4. /\ s.phase = phase /\ s.generation = p.generation
      /\ s.assignments = p.assignments /\ s.results = p.results /\ s.evidence = p.evidence
      /\ s.candidate = p.candidate /\ s.decision = p.decision
  BY <1>2 DEF States
<1>5. Authors(s) = Authors(p) /\ PlanReviewed(s) = PlanReviewed(p)
  BY <1>4 DEF Authors, PlanReviewed
<1>6. s.decision # "none" => PlanReviewed(s)
  BY <1>1, <1>4, <1>5 DEF WellFormed
<1>7. WellFormed(s)
  BY <1>1, <1>3, <1>4, <1>5, <1>6, WellFormedGrows
<1>8. phase = "STOPPED" => Stopped(p, s)
  BY <1>2 DEF Stopped
<1>9. p.phase = "AUTHORING" /\ phase = Corrected(p) => AuthorFailed(p, s)
  BY <1>2 DEF AuthorFailed, Corrected
<1>10. p.phase \in {"VALIDATING", "REVIEWING"} /\ Judged(p) /\ phase = Corrected(p) => ResultRecorded(p, s)
  BY <1>2 DEF ResultRecorded
<1>11. p.phase \in {"VALIDATING", "REVIEWING"} /\ FactsReady(p) /\ phase = "DIAGNOSTIC_READY" => DiagnosticReady(p, s)
  BY <1>2 DEF DiagnosticReady
<1> QED BY <1>1, <1>3, <1>4, <1>7, <1>8, <1>9, <1>10, <1>11 DEF Follows

(* The human decision on a plan that was reviewed. *)
LEMMA DecisionFollows ==
  ASSUME NEW p \in States, NEW s, NEW d \in {"authorize", "reject"}, Sound(p),
         p.phase = "AWAITING_HUMAN", PlanReviewed(p),
         s = [Step(p) EXCEPT !.decision = d,
                             !.phase = IF d = "authorize" THEN "PLAN_AUTHORIZED" ELSE "STOPPED"]
  PROVE  s \in States /\ Follows(p, "HUMAN_DECIDED", s)
<1> DEFINE next == IF d = "authorize" THEN "PLAN_AUTHORIZED" ELSE "STOPPED"
           n == p.revision + 1
<1>1. p # NoState /\ WellFormed(p) /\ p.decision = "none"
  BY AttemptsAreCounted DEF Sound
<1>2. /\ s = [p EXCEPT !.revision = @ + 1, !.decision = d, !.phase = next]
      /\ s = [p EXCEPT !.revision = n, !.decision = d, !.phase = next]
  BY DEF Step, States
<1>3. n \in Nat /\ next \in Phases \ {"AUTHORING"}
  BY DEF States, Phases, Terminal
<1>4. HumanDecided(p, s)
  BY <1>1, <1>2 DEF HumanDecided
<1> HIDE DEF next, n
<1>5. s \in States
  BY <1>2, <1>3 DEF States
<1>6. /\ s.generation = p.generation
      /\ s.assignments = p.assignments /\ s.results = p.results /\ s.evidence = p.evidence
  BY <1>2 DEF States
<1>7. Authors(s) = Authors(p) /\ PlanReviewed(s)
  BY <1>6 DEF Authors, PlanReviewed
<1>8. WellFormed(s)
  BY <1>1, <1>5, <1>6, <1>7, WellFormedGrows
<1>9. p.phase \notin Terminal
  BY DEF Terminal
<1> QED BY <1>1, <1>4, <1>5, <1>8, <1>9 DEF Follows

(* The result of the stage that is open: it is the only one of its assignment, it passes
   without a blocker of its own and it cites what is there. *)
LEMMA ResultFollows ==
  ASSUME NEW p \in States, NEW s, NEW r \in Results, Sound(p),
         <<r.role, r.generation>> \in p.assignments, ResultsOf(p, r.role, r.generation) = {},
         r.outcome = "pass" => r.finding # "open",
         r.cites \subseteq {e.of : e \in {x \in p.evidence : x.generation = r.generation}},
         p.phase = PhaseOf(r.role), r.role = "author" => r.outcome = "broken",
         s = [Step(p) EXCEPT !.results = @ \cup {r},
                             !.phase = CASE r.role = "plan-review" ->
                                              IF r.outcome = "pass" THEN "AWAITING_HUMAN" ELSE "REASSESS_REQUIRED"
                                         [] r.role = "author" -> Corrected(p)
                                         [] OTHER -> @]
  PROVE  /\ s \in States /\ Follows(p, "RESULT_RECORDED", s)
         /\ r.role \in Judges => s.phase = p.phase
<1> DEFINE next == CASE r.role = "plan-review" ->
                          IF r.outcome = "pass" THEN "AWAITING_HUMAN" ELSE "REASSESS_REQUIRED"
                     [] r.role = "author" -> Corrected(p)
                     [] OTHER -> p.phase
           n == p.revision + 1
           R == p.results \cup {r}
<1>1. p # NoState /\ WellFormed(p)
  BY AttemptsAreCounted DEF Sound
<1>2. r.role \in {"plan-review", "author", "validator", "reviewer"} /\ p.phase \in Phases
  BY DEF Results, Roles, Judges, States
<1>3. /\ s = [p EXCEPT !.revision = @ + 1, !.results = @ \cup {r}, !.phase = next]
      /\ s = [p EXCEPT !.revision = n, !.results = R, !.phase = next]
  BY <1>2 DEF Step, States
<1>4. next \in Phases /\ n \in Nat /\ R \in SUBSET Results
  BY <1>2 DEF Corrected, Phases, Terminal, States
<1>5. p.phase \notin Terminal
  BY <1>2 DEF PhaseOf, Terminal
<1>6. r \notin p.results
  <2>1. r \notin ResultsOf(p, r.role, r.generation)
    OBVIOUS
  <2> QED BY <2>1 DEF ResultsOf
<1>7. next = CASE r.role = "plan-review" /\ r.outcome = "pass" -> "AWAITING_HUMAN"
               [] r.role = "plan-review" -> "REASSESS_REQUIRED"
               [] r.role = "author" -> Corrected(p)
               [] OTHER -> p.phase
  <2>1. CASE r.role = "plan-review"
    <3>1. CASE r.outcome = "pass"
      BY <2>1, <3>1
    <3>2. CASE r.outcome # "pass"
      BY <2>1, <3>2
    <3> QED BY <3>1, <3>2
  <2>2. CASE r.role = "author"
    BY <2>2
  <2>3. CASE r.role \notin {"plan-review", "author"}
    BY <2>3
  <2> QED BY <2>1, <2>2, <2>3
<1>8. r.role \in Judges => next = p.phase
  BY DEF Judges
<1> HIDE DEF next, n, R
<1>9. s \in States /\ s.phase = next
  BY <1>3, <1>4 DEF States
<1>10. /\ s.generation = p.generation /\ s.decision = p.decision
       /\ s.assignments = p.assignments /\ s.evidence = p.evidence /\ s.results = p.results \cup {r}
  BY <1>3 DEF States
<1>11. Authors(s) = Authors(p) /\ (PlanReviewed(p) => PlanReviewed(s))
  BY <1>10 DEF Authors, PlanReviewed
<1>12. ResultsOf(s, r.role, r.generation) = {r}
  BY <1>10 DEF ResultsOf
<1>13. s.decision # "none" => PlanReviewed(s)
  BY <1>1, <1>10, <1>11 DEF WellFormed
<1>14. WellFormed(s)
  <2>1. /\ p.assignments \subseteq s.assignments /\ p.results \subseteq s.results /\ p.evidence \subseteq s.evidence
        /\ s.generation = p.generation /\ Authors(s) = Authors(p)
        /\ s.assignments \ p.assignments = {} /\ s.evidence \ p.evidence = {}
    BY <1>10, <1>11
  <2>2. ASSUME NEW x \in s.results \ p.results
        PROVE  /\ <<x.role, x.generation>> \in s.assignments
               /\ ResultsOf(s, x.role, x.generation) = {x}
               /\ x.outcome = "pass" => x.finding # "open"
               /\ x.cites \subseteq {e.of : e \in {y \in s.evidence : y.generation = x.generation}}
    <3>1. x = r
      BY <1>10
    <3> QED BY <1>10, <1>12, <3>1
  <2> QED BY <1>1, <1>9, <1>13, <2>1, <2>2, WellFormedGrows, ZenonT(40)
<1>15. ResultRecorded(p, s)
  <2>1. r \in s.results \ p.results
    BY <1>6, <1>10
  <2>2. (CASE r.role = "plan-review" -> p.phase = "PLANNING"
           [] r.role = "author" -> p.phase = "AUTHORING" /\ r.outcome = "broken"
           [] r.role = "validator" -> p.phase = "VALIDATING"
           [] OTHER -> p.phase = "REVIEWING")
    BY <1>2 DEF PhaseOf
  <2> QED BY <1>3, <1>7, <2>1, <2>2 DEF ResultRecorded
<1> QED BY <1>1, <1>5, <1>8, <1>9, <1>14, <1>15 DEF Follows

(* The seal of the attempt at hand: its workspace is frozen under its generation and the
   result of its author is recorded with it. *)
LEMMA SealFollows ==
  ASSUME NEW p \in States, NEW s, NEW g, Sound(p), p.phase = "AUTHORING", g = p.generation,
         s = [Step(p) EXCEPT !.phase = "FROZEN", !.candidate = g,
                             !.evidence = @ \cup {[of |-> Frozen, generation |-> g, passed |-> TRUE]},
                             !.results = @ \cup {[role |-> "author", generation |-> g, outcome |-> "fail",
                                                  finding |-> "none", cites |-> {}]}]
  PROVE  /\ s \in States /\ Follows(p, "CANDIDATE_SEALED", s)
         /\ s.candidate = p.generation /\ s.generation = p.generation /\ s.phase = "FROZEN"
<1> DEFINE e == [of |-> Frozen, generation |-> g, passed |-> TRUE]
           r == [role |-> "author", generation |-> g, outcome |-> "fail", finding |-> "none", cites |-> {}]
           n == p.revision + 1
           E == p.evidence \cup {e}
           R == p.results \cup {r}
<1>1. /\ p # NoState /\ WellFormed(p) /\ <<"author", g>> \in p.assignments
      /\ ResultsOf(p, "author", g) = {} /\ CurrentEvidence(p) = {}
  BY AttemptsAreCounted DEF Sound
<1>2. n \in Nat /\ g \in Generations /\ p.generation \in Nat
  BY DEF States, Generations
<1>3. e \in Evidence /\ r \in Results
  BY <1>2 DEF Evidence, Results, Roles
<1>4. e \notin p.evidence /\ r \notin p.results
  BY <1>1 DEF CurrentEvidence, ResultsOf
<1>5. E \in SUBSET Evidence /\ R \in SUBSET Results
  BY <1>3 DEF States
<1>6. /\ e.of = Frozen /\ e.generation = g
      /\ r.role = "author" /\ r.generation = g /\ r.outcome = "fail" /\ r.finding = "none" /\ r.cites = {}
  OBVIOUS
<1>7. /\ s = [p EXCEPT !.revision = @ + 1, !.phase = "FROZEN", !.candidate = g,
                       !.results = @ \cup {r}, !.evidence = @ \cup {e}]
      /\ s = [p EXCEPT !.revision = n, !.phase = "FROZEN", !.candidate = g,
                       !.results = R, !.evidence = E]
  BY DEF Step, States
<1>8. e = [of |-> Frozen, generation |-> r.generation, passed |-> TRUE]
  OBVIOUS
<1> HIDE DEF n, e, r
<1>9. /\ E = p.evidence \cup {e} /\ R = p.results \cup {r}
  OBVIOUS
<1> HIDE DEF E, R
<1>10. s \in States
  BY <1>2, <1>5, <1>7 DEF States, Phases
<1>11. /\ s.phase = "FROZEN" /\ s.candidate = g /\ s.generation = p.generation
       /\ s.assignments = p.assignments /\ s.results = R /\ s.evidence = E /\ s.decision = p.decision
  BY <1>7 DEF States
<1>12. Authors(s) = Authors(p) /\ (PlanReviewed(p) => PlanReviewed(s))
  BY <1>9, <1>11 DEF Authors, PlanReviewed
<1>13. ResultsOf(s, "author", g) = {r}
  BY <1>1, <1>6, <1>9, <1>11 DEF ResultsOf
<1>14. WellFormed(s)
  <2>1. /\ p.assignments \subseteq s.assignments /\ p.results \subseteq s.results /\ p.evidence \subseteq s.evidence
        /\ s.assignments \ p.assignments = {}
        /\ s.decision # "none" => PlanReviewed(s)
    BY <1>1, <1>9, <1>11, <1>12 DEF WellFormed
  <2>2. ASSUME NEW x \in s.results \ p.results
        PROVE  /\ <<x.role, x.generation>> \in s.assignments
               /\ ResultsOf(s, x.role, x.generation) = {x}
               /\ x.outcome = "pass" => x.finding # "open"
               /\ x.cites \subseteq {y.of : y \in {z \in s.evidence : z.generation = x.generation}}
    <3>1. x = r
      BY <1>9, <1>11
    <3> QED BY <1>1, <1>6, <1>11, <1>13, <3>1
  <2>3. ASSUME NEW x \in s.evidence \ p.evidence
        PROVE  <<IF x.of = Frozen THEN "author" ELSE "validator", x.generation>> \in s.assignments
    <3>1. x = e
      BY <1>9, <1>11
    <3> QED BY <1>1, <1>6, <1>11, <3>1
  <2>4. \A a \in s.assignments \ p.assignments :
          a[2] <= s.generation /\ (a[1] = "plan-review" => a[2] = 1)
    BY <2>1
  <2>5. Authors(s) = Authors(p) /\ s.generation = p.generation /\ WellFormed(p)
    BY <1>1, <1>11, <1>12
  <2> HIDE <1>1, <1>11
  <2> QED BY <1>10, <2>1, <2>2, <2>3, <2>4, <2>5, WellFormedGrows, ZenonT(60)
<1>15. CandidateSealed(p, s)
  <2>1. r \in s.results \ p.results /\ e \in s.evidence \ p.evidence
    BY <1>4, <1>9, <1>11
  <2>2. s = [p EXCEPT !.revision = @ + 1, !.phase = "FROZEN", !.candidate = r.generation,
                      !.results = @ \cup {r}, !.evidence = @ \cup {e}]
    BY <1>6, <1>7
  <2> QED BY <1>6, <1>8, <2>1, <2>2 DEF CandidateSealed
<1>16. p.phase \notin Terminal
  BY DEF Terminal
<1> QED BY <1>1, <1>10, <1>11, <1>14, <1>15, <1>16 DEF Follows

(* The evidence of a command that the validator of the candidate has run. *)
LEMMA EvidenceFollows ==
  ASSUME NEW p \in States, NEW s, NEW c \in Commands, NEW passed \in BOOLEAN, NEW g, Sound(p),
         p.phase = "VALIDATING", g = p.generation, <<"validator", g>> \in p.assignments,
         \A e \in CurrentEvidence(p) : e.of # c,
         s = [Step(p) EXCEPT !.evidence = @ \cup {[of |-> c, generation |-> g, passed |-> passed]}]
  PROVE  /\ s \in States /\ Follows(p, "EVIDENCE_REGISTERED", s)
         /\ s.phase = p.phase /\ s.generation = p.generation /\ s.candidate = p.candidate
         /\ s.assignments = p.assignments /\ s.results = p.results
         /\ CurrentEvidence(p) \subseteq CurrentEvidence(s)
<1> DEFINE e == [of |-> c, generation |-> g, passed |-> passed]
           n == p.revision + 1
           E == p.evidence \cup {e}
<1>1. p # NoState /\ WellFormed(p)
  BY AttemptsAreCounted DEF Sound
<1>2. n \in Nat /\ g \in Generations
  BY DEF States
<1>3. e \in Evidence /\ e.of # Frozen /\ e.of = c /\ e.generation = g
  BY <1>2, CommandsAssumption DEF Evidence, Frozen
<1>4. e \notin p.evidence
  BY <1>3 DEF CurrentEvidence
<1>5. E \in SUBSET Evidence
  BY <1>3 DEF States
<1>6. /\ s = [p EXCEPT !.revision = @ + 1, !.evidence = @ \cup {e}]
      /\ s = [p EXCEPT !.revision = n, !.evidence = E]
  BY DEF Step, States
<1> HIDE DEF n, e
<1>7. E = p.evidence \cup {e}
  OBVIOUS
<1> HIDE DEF E
<1>8. s \in States
  BY <1>2, <1>5, <1>6 DEF States
<1>9. /\ s.phase = p.phase /\ s.candidate = p.candidate /\ s.generation = p.generation
      /\ s.assignments = p.assignments /\ s.results = p.results /\ s.evidence = E /\ s.decision = p.decision
  BY <1>6 DEF States
<1>10. Authors(s) = Authors(p) /\ PlanReviewed(s) = PlanReviewed(p)
  BY <1>9 DEF Authors, PlanReviewed
<1>11. WellFormed(s)
  <2>1. p.evidence \subseteq s.evidence /\ (s.decision # "none" => PlanReviewed(s))
    BY <1>1, <1>7, <1>9, <1>10 DEF WellFormed
  <2>2. ASSUME NEW x \in s.evidence \ p.evidence
        PROVE  <<IF x.of = Frozen THEN "author" ELSE "validator", x.generation>> \in s.assignments
    <3>1. x = e
      BY <1>7, <1>9
    <3> QED BY <1>3, <1>9, <3>1
  <2> QED BY <1>1, <1>8, <1>9, <1>10, <2>1, <2>2, WellFormedGrows
<1>12. EvidenceRegistered(p, s)
  BY <1>3, <1>4, <1>6, <1>7, <1>9 DEF EvidenceRegistered
<1>13. p.phase \notin Terminal
  BY DEF Terminal
<1>14. CurrentEvidence(p) \subseteq CurrentEvidence(s)
  BY <1>7, <1>9 DEF CurrentEvidence
<1> QED BY <1>1, <1>8, <1>9, <1>11, <1>12, <1>13, <1>14 DEF Follows
-----------------------------------------------------------------------------
(* A job that is ready became so by its own event, on the facts that make it so. *)
LEMMA ReadyIsItsEvent ==
  ASSUME NEW p \in States, NEW s \in States, NEW type, Follows(p, type, s), s.phase = "DIAGNOSTIC_READY",
         p.phase # "DIAGNOSTIC_READY"
  PROVE  type = "DIAGNOSTIC_READY" /\ DiagnosticReady(p, s)
<1>1. p # NoState
  BY AttemptsAreCounted
<1>2. ~AttemptReserved(p, s)
  BY DEF AttemptReserved, States
<1>3. ~AssignmentCreated(p, s)
  <2> SUFFICES ASSUME AssignmentCreated(p, s) PROVE FALSE
    OBVIOUS
  <2>1. \E phase \in {"PLANNING", "VALIDATING", "REVIEWING"} : s.phase = phase
    BY DEF AssignmentCreated, States
  <2> QED BY <2>1
<1>4. ~ResultRecorded(p, s)
  <2> SUFFICES ASSUME ResultRecorded(p, s) PROVE FALSE
    OBVIOUS
  <2>1. s.phase \in {"AWAITING_HUMAN", "REASSESS_REQUIRED", Corrected(p), p.phase}
    <3>1. CASE s = [p EXCEPT !.revision = @ + 1, !.phase = Corrected(p)]
      BY <3>1 DEF States
    <3>2. ASSUME NEW r,
                 s = [p EXCEPT !.revision = @ + 1, !.results = @ \cup {r},
                        !.phase = CASE r.role = "plan-review" /\ r.outcome = "pass" -> "AWAITING_HUMAN"
                                    [] r.role = "plan-review" -> "REASSESS_REQUIRED"
                                    [] r.role = "author" -> Corrected(p)
                                    [] OTHER -> p.phase]
          PROVE  s.phase \in {"AWAITING_HUMAN", "REASSESS_REQUIRED", Corrected(p), p.phase}
      <4>1. CASE r.role = "plan-review"
        BY <3>2, <4>1 DEF States
      <4>2. CASE r.role = "author"
        BY <3>2, <4>2 DEF States
      <4>3. CASE r.role \notin {"plan-review", "author"}
        BY <3>2, <4>3 DEF States
      <4> QED BY <4>1, <4>2, <4>3
    <3> QED BY <3>1, <3>2 DEF ResultRecorded
  <2> QED BY <2>1 DEF Corrected
<1>5. ~CandidateSealed(p, s)
  BY DEF CandidateSealed, States
<1>6. ~EvidenceRegistered(p, s)
  BY DEF EvidenceRegistered, States
<1>7. ~HumanDecided(p, s)
  BY DEF HumanDecided, States
<1>8. ~AuthorFailed(p, s) /\ ~Stopped(p, s)
  BY DEF AuthorFailed, Stopped, States
<1> QED BY <1>1, <1>2, <1>3, <1>4, <1>5, <1>6, <1>7, <1>8 DEF Follows

(* Which events take the job into a phase of judgment, or leave it there. *)
LEMMA JudgmentIsEntered ==
  ASSUME NEW p \in States, NEW s \in States, NEW type, Follows(p, type, s),
         s.phase \in {"FROZEN", "VALIDATING", "REVIEWING"}
  PROVE  \/ type \in {"CANDIDATE_SEALED", "ASSIGNMENT_CREATED"}
         \/ p.phase \in {"FROZEN", "VALIDATING", "REVIEWING"} /\ s.generation = p.generation
<1>1. p # NoState
  BY AttemptsAreCounted
<1>2. ~AttemptReserved(p, s)
  BY DEF AttemptReserved, States
<1>3. ASSUME ResultRecorded(p, s)
      PROVE  p.phase \in {"FROZEN", "VALIDATING", "REVIEWING"} /\ s.generation = p.generation
  <2>1. CASE s = [p EXCEPT !.revision = @ + 1, !.phase = Corrected(p)]
    BY <2>1 DEF States, Corrected
  <2>2. ASSUME NEW r,
               s = [p EXCEPT !.revision = @ + 1, !.results = @ \cup {r},
                      !.phase = CASE r.role = "plan-review" /\ r.outcome = "pass" -> "AWAITING_HUMAN"
                                  [] r.role = "plan-review" -> "REASSESS_REQUIRED"
                                  [] r.role = "author" -> Corrected(p)
                                  [] OTHER -> p.phase]
        PROVE  p.phase \in {"FROZEN", "VALIDATING", "REVIEWING"} /\ s.generation = p.generation
    <3>1. CASE r.role = "plan-review"
      BY <2>2, <3>1 DEF States
    <3>2. CASE r.role = "author"
      BY <2>2, <3>2 DEF States, Corrected
    <3>3. CASE r.role \notin {"plan-review", "author"}
      BY <2>2, <3>3 DEF States
    <3> QED BY <3>1, <3>2, <3>3
  <2> QED BY <1>3, <2>1, <2>2 DEF ResultRecorded
<1>4. ASSUME EvidenceRegistered(p, s)
      PROVE  p.phase \in {"FROZEN", "VALIDATING", "REVIEWING"} /\ s.generation = p.generation
  BY <1>4 DEF EvidenceRegistered, States
<1>5. ~HumanDecided(p, s)
  BY DEF HumanDecided, States
<1>6. ~AuthorFailed(p, s) /\ ~Stopped(p, s) /\ ~DiagnosticReady(p, s)
  BY DEF AuthorFailed, Stopped, DiagnosticReady, States
<1> QED BY <1>1, <1>2, <1>3, <1>4, <1>5, <1>6 DEF Follows

(* The events of the pipeline have their own tables: a registration leaves the stage as it is. *)
LEMMA RegistrationKeeps ==
  ASSUME NEW p \in States, NEW s \in States, Follows(p, "EVIDENCE_REGISTERED", s)
  PROVE  /\ s.phase = p.phase /\ s.generation = p.generation /\ s.candidate = p.candidate
         /\ s.assignments = p.assignments /\ s.results = p.results
         /\ CurrentEvidence(p) \subseteq CurrentEvidence(s)
<1>1. EvidenceRegistered(p, s)
  BY AttemptsAreCounted DEF Follows
<1>2. /\ s.phase = p.phase /\ s.generation = p.generation /\ s.candidate = p.candidate
      /\ s.assignments = p.assignments /\ s.results = p.results /\ p.evidence \subseteq s.evidence
  BY <1>1 DEF EvidenceRegistered, States
<1> QED BY <1>2 DEF CurrentEvidence
-----------------------------------------------------------------------------
(* Between operations no commit is under way. *)
LEMMA NothingAsked ==
  ASSUME TypeOK, OperationStands, pc \notin Committing, pc # "running" \/ test = NoTest
  PROVE  commit = NoCommit /\ commit.step = "none"
<1>1. CASE pc = "running"
  BY <1>1 DEF OperationStands, NoCommit
<1>2. CASE pc # "running"
  <2>1. TypesAt(pc) = {}
    BY <1>2 DEF TypesAt, Committing
  <2> QED BY <2>1 DEF OperationStands, NoCommit
<1> QED BY <1>1, <1>2

(* A controller that runs over an open journal knows what is on it. *)
LEMMA OpenMemory ==
  ASSUME PipelineInv, ~stopped, store = "open", commit.step # "written"
  PROVE  journal = state /\ Sound(state) /\ epoch = 0 /\ since = 0
BY DEF PipelineInv, MemoryStands

(* A commit that is lost is lost to a stop, or to its journal. *)
LEMMA LostIsOver ==
  ASSUME PipelineInv, Lost
  PROVE  commit # NoCommit /\ (stopped \/ store # "open") /\ commit.step # "asked"
BY DEF PipelineInv, MemoryStands, NeverRefused, Lost, Live, NoCommit

(* A commit that is asked for, and the memory with it. *)
LEMMA MemoryAsked ==
  ASSUME PipelineInv, ~stopped, store = "open", commit.step # "written",
         NEW type \in Events, NEW next \in States, NEW e, e = 0,
         Ask(type, next, e), Lawful(type, next),
         journal' = journal, store' = store, state' = state, stopped' = stopped, epoch' = epoch, since' = 0
  PROVE  /\ commit' \in CommitType /\ commit' # NoCommit
         /\ commit'.type = type /\ commit'.next = next /\ commit'.step = "asked"
         /\ MemoryStands' /\ NeverRefused'
<1>1. journal = state /\ epoch = 0
  BY OpenMemory
<1>2. /\ commit' \in CommitType
      /\ commit'.type = type /\ commit'.next = next /\ commit'.step = "asked" /\ commit'.epoch = 0
  BY DEF Ask, CommitType
<1>3. commit' # NoCommit
  BY <1>2 DEF NoCommit
<1>4. Lawful(type, next)'
  BY DEF Lawful
<1>5. Lawful(commit.type, commit.next)'
  BY <1>2, <1>4 DEF Lawful
<1>6. MemoryStands'
  BY <1>1, <1>2, <1>5 DEF MemoryStands
<1> QED BY <1>2, <1>3, <1>6 DEF NeverRefused

(* A commit that is acknowledged: the memory is what is on disk. *)
LEMMA MemoryWritten ==
  ASSUME PipelineInv, Acknowledged,
         journal' = journal, store' = store, stopped' = stopped, epoch' = epoch, since' = since
  PROVE  /\ commit' = NoCommit /\ state' = commit.next /\ journal = commit.next /\ commit.next \in States
         /\ commit # NoCommit /\ ~stopped /\ store = "open" /\ MemoryStands' /\ NeverRefused'
<1>1. commit' = NoCommit /\ state' = commit.next /\ commit.step = "written" /\ commit # NoCommit
  BY DEF Acknowledged, NoCommit
<1>2. journal = commit.next /\ commit \in CommitType /\ commit.next \in States
  BY <1>1 DEF PipelineInv, TypeOK, MemoryStands, CommitType
<1>3. commit'.step = "none"
  BY <1>1 DEF NoCommit
<1>4. since = 0 /\ (~stopped => epoch = 0) /\ ~stopped /\ store = "open"
  BY DEF PipelineInv, MemoryStands, Acknowledged, Live
<1>5. MemoryStands'
  BY <1>1, <1>2, <1>3, <1>4 DEF MemoryStands
<1> QED BY <1>1, <1>2, <1>3, <1>4, <1>5 DEF NeverRefused

(* A commit that is dropped, or was never made: the memory is let go with it. *)
LEMMA MemoryDropped ==
  ASSUME PipelineInv, commit' = NoCommit, commit.step # "written" \/ stopped \/ store # "open",
         journal' = journal, state' = state, since' = since \/ since' = 0,
         \/ store' = store /\ stopped' = stopped /\ epoch' = epoch
         \/ stopped'
  PROVE  MemoryStands' /\ NeverRefused'
<1>1. commit'.step = "none"
  BY DEF NoCommit
<1>2. since = 0 /\ (~stopped => epoch = 0) /\ (~stopped /\ store = "open" => journal = state)
  BY DEF PipelineInv, MemoryStands
<1> QED BY <1>1, <1>2 DEF MemoryStands, NeverRefused

(* What leaves the journal and the memory alone leaves them in agreement. *)
LEMMA MemoryLeft ==
  ASSUME PipelineInv, commit' = commit, journal' = journal, state' = state, store' = store,
         stopped' = stopped, epoch' = epoch, since' = since \/ since' = 0
  PROVE  MemoryStands' /\ NeverRefused'
<1>1. Lawful(commit.type, commit.next) => Lawful(commit.type, commit.next)'
  BY DEF Lawful
<1>2. MemoryStands /\ NeverRefused
  BY DEF PipelineInv
<1> QED BY <1>1, <1>2 DEF MemoryStands, NeverRefused
-----------------------------------------------------------------------------
(* From a record to the one with one more piece of evidence of the same candidate. *)
RegistrationStep(p, s) ==
  /\ s # NoState /\ s.phase = p.phase /\ s.generation = p.generation /\ s.candidate = p.candidate
  /\ s.assignments = p.assignments /\ s.results = p.results
  /\ CurrentEvidence(p) \subseteq CurrentEvidence(s)

(* What the journal is asked to append is sound, is a step of GovernedJob, leaves the stage
   under way as it is when it is evidence, and is ready only where readiness is decided. *)
LEMMA Appending ==
  ASSUME PipelineInv, commit.step = "asked", store = "open"
  PROVE  /\ commit \in CommitType /\ commit.next \in States /\ journal = state
         /\ Follows(journal, commit.type, commit.next)
         /\ Sound(commit.next) /\ JobMoves(journal, commit.next)
         /\ commit.next.phase = "DIAGNOSTIC_READY" =>
              pc = "finalizing" /\ (journal.phase = "DIAGNOSTIC_READY" \/ DiagnosticReady(journal, commit.next))
         /\ commit.next.phase \in {"FROZEN", "VALIDATING", "REVIEWING"} =>
              \/ pc \in {"sealing", "assigning"}
              \/ journal.phase \in {"FROZEN", "VALIDATING", "REVIEWING"} /\ commit.next.generation = journal.generation
         /\ pc \in {"starting", "running", "observing"} => RegistrationStep(journal, commit.next)
<1>1. /\ commit \in CommitType /\ commit.next \in States /\ commit.type \in Events /\ commit # NoCommit
  BY DEF PipelineInv, TypeOK, CommitType, NoCommit
<1>2. /\ journal = state /\ Lawful(commit.type, commit.next) /\ Sound(journal)
      /\ journal \in States \cup {NoState} /\ pc \in Pcs /\ commit.type \in TypesAt(pc)
  BY <1>1 DEF PipelineInv, TypeOK, MemoryStands, OperationStands
<1>3. Follows(journal, commit.type, commit.next)
  BY <1>2 DEF Lawful
<1>4. CASE journal = NoState
  <2>1. commit.type = "PLAN_PROPOSED" /\ commit.next = Proposed
    BY <1>3, <1>4 DEF Follows
  <2>2. commit.next.phase = "PLANNING"
    BY <2>1 DEF Proposed
  <2>3. pc \notin {"starting", "running", "observing"}
    BY <1>2, <2>1 DEF TypesAt
  <2> QED BY <1>1, <1>2, <1>3, <1>4, <2>1, <2>2, <2>3, ProposalIsSound
<1>5. CASE journal \in States
  <2>1. Sound(commit.next) /\ JobMoves(journal, commit.next)
    BY <1>1, <1>2, <1>3, <1>5, EventsMoveTheJob DEF Lawful
  <2>2. ASSUME commit.next.phase = "DIAGNOSTIC_READY"
        PROVE  pc = "finalizing" /\ (journal.phase = "DIAGNOSTIC_READY" \/ DiagnosticReady(journal, commit.next))
    <3>1. CASE journal.phase = "DIAGNOSTIC_READY"
      <4>1. pc \in {"finalizing", "idle"}
        BY <3>1 DEF PipelineInv, OperationStands
      <4>2. pc # "idle"
        BY <1>2 DEF TypesAt
      <4> QED BY <3>1, <4>1, <4>2
    <3>2. CASE journal.phase # "DIAGNOSTIC_READY"
      <4>1. commit.type = "DIAGNOSTIC_READY" /\ DiagnosticReady(journal, commit.next)
        BY <1>1, <1>3, <1>5, <2>2, <3>2, ReadyIsItsEvent
      <4>2. pc = "finalizing"
        BY <1>2, <4>1 DEF TypesAt
      <4> QED BY <4>1, <4>2
    <3> QED BY <3>1, <3>2
  <2>3. ASSUME commit.next.phase \in {"FROZEN", "VALIDATING", "REVIEWING"}
        PROVE  \/ pc \in {"sealing", "assigning"}
               \/ journal.phase \in {"FROZEN", "VALIDATING", "REVIEWING"} /\ commit.next.generation = journal.generation
    <3>1. \/ commit.type \in {"CANDIDATE_SEALED", "ASSIGNMENT_CREATED"}
          \/ journal.phase \in {"FROZEN", "VALIDATING", "REVIEWING"} /\ commit.next.generation = journal.generation
      BY <1>1, <1>3, <1>5, <2>3, JudgmentIsEntered
    <3>2. commit.type \in {"CANDIDATE_SEALED", "ASSIGNMENT_CREATED"} => pc \in {"sealing", "assigning"}
      BY <1>2 DEF TypesAt
    <3> QED BY <3>1, <3>2
  <2>4. ASSUME pc \in {"starting", "running", "observing"}
        PROVE  RegistrationStep(journal, commit.next)
    <3>1. commit.type = "EVIDENCE_REGISTERED"
      BY <1>2, <2>4 DEF TypesAt
    <3> QED BY <1>1, <1>3, <1>5, <3>1, RegistrationKeeps, AttemptsAreCounted DEF RegistrationStep
  <2> QED BY <1>1, <1>2, <1>3, <2>1, <2>2, <2>3, <2>4
<1> QED BY <1>2, <1>4, <1>5

(* The journal takes a new last event: whether its writer learns of it or not, what the
   operation stands on stays. *)
LEMMA JournalGrows ==
  ASSUME PipelineInv, commit.step = "asked", store = "open", journal' \in {journal, commit.next},
         commit'.type = commit.type, commit'.next = commit.next, commit' # NoCommit,
         UNCHANGED <<state, control, pc, op, child, test, files, finished>>
  PROVE  Sound(journal)' /\ OperationStands' /\ StageStands' /\ SealStands' /\ JudgesReadTheSeal'
<1>1. CASE journal' = journal
  <2>1. Sound(journal)'
    BY <1>1 DEF PipelineInv, Sound
  <2>2. OperationStands'
    BY <1>1, NothingAsked DEF PipelineInv, OperationStands, control, op, files, NoCommit
  <2>3. StageStands'
    BY <1>1 DEF PipelineInv, StageStands, StageOpen, Accepted, Staged, control, op, files
  <2>4. SealStands' /\ JudgesReadTheSeal'
    BY <1>1 DEF PipelineInv, SealStands, JudgesReadTheSeal, control, op, files
  <2> QED BY <2>1, <2>2, <2>3, <2>4
<1>2. CASE journal' = commit.next
  <2>1. Sound(journal)'
    BY <1>2, Appending DEF Sound
  <2>2. OperationStands'
    BY <1>2, Appending DEF PipelineInv, OperationStands, RegistrationStep, control, op, files, NoCommit
  <2>3. StageStands'
    BY <1>2, Appending DEF PipelineInv, StageStands, StageOpen, Accepted, Staged, RegistrationStep, ResultsOf, control, op, files
  <2>4. SealStands' /\ JudgesReadTheSeal'
    <3>1. ASSUME ~stopped, commit.next.phase \in {"FROZEN", "VALIDATING", "REVIEWING"}
          PROVE  custody \in {0, commit.next.generation} /\ workspace # "open"
      <4>1. CASE pc = "sealing"
        BY <4>1 DEF PipelineInv, SealStands
      <4>2. CASE pc = "assigning"
        <5>1. Staged(commit.next)
          BY <4>2 DEF PipelineInv, StageStands
        <5>2. stage[1] \in Judges /\ stage[2] = commit.next.generation
          BY <3>1, <5>1 DEF Staged, PhaseOf, Roles, Judges
        <5> QED BY <4>2, <5>2 DEF PipelineInv, SealStands
      <4>3. CASE journal.phase \in {"FROZEN", "VALIDATING", "REVIEWING"} /\ commit.next.generation = journal.generation
        BY <3>1, <4>3 DEF PipelineInv, SealStands
      <4> QED BY <3>1, <4>1, <4>2, <4>3, Appending
    <3>2. pc \in {"starting", "running", "observing"} => commit.next.candidate = journal.candidate
      BY Appending DEF RegistrationStep
    <3>3. /\ journal' = commit.next /\ commit'.next = commit.next
          /\ UNCHANGED <<stopped, pc, stage, workspace, custody>>
      BY <1>2 DEF control, op, files
    <3> QED BY <3>1, <3>2, <3>3 DEF PipelineInv, SealStands, JudgesReadTheSeal
  <2> QED BY <2>1, <2>2, <2>3, <2>4
<1> QED BY <1>1, <1>2

(* An append that succeeds keeps the invariant. *)
LEMMA StoreAppendsKeeps ==
  ASSUME PipelineInv, StoreAppends
  PROVE  PipelineInv'
<1>1. /\ commit.step = "asked" /\ store = "open"
      /\ journal' = commit.next /\ commit' = [commit EXCEPT !.step = "written"]
      /\ UNCHANGED <<store, state, control, pc, op, child, test, files, finished>>
  BY Appending DEF StoreAppends
<1>2. /\ commit' \in CommitType /\ commit'.step = "written" /\ commit'.type = commit.type
      /\ commit'.next = commit.next /\ commit'.epoch = commit.epoch /\ commit' # NoCommit /\ commit # NoCommit
  BY <1>1, Appending DEF CommitType, NoCommit
<1>3. TypeOK'
  BY <1>1, <1>2, Appending DEF PipelineInv, TypeOK, control, op, files
<1>4. MemoryStands' /\ NeverRefused'
  BY <1>1, <1>2 DEF PipelineInv, MemoryStands, NeverRefused, control, op
<1> QED BY <1>1, <1>2, <1>3, <1>4, JournalGrows DEF PipelineInv

(* An append that fails, with or without its event on disk keeps the invariant. *)
LEMMA StoreFailsKeeps ==
  ASSUME PipelineInv, StoreFails
  PROVE  PipelineInv'
<1>1. /\ commit.step = "asked" /\ store = "open" /\ store' = "poisoned"
      /\ journal' \in {journal, commit.next} /\ commit' = [commit EXCEPT !.step = "failed"]
      /\ UNCHANGED <<state, control, pc, op, child, test, files, finished>>
  BY DEF StoreFails
<1>2. /\ commit' \in CommitType /\ commit'.step = "failed" /\ commit'.type = commit.type
      /\ commit'.next = commit.next /\ commit'.epoch = commit.epoch /\ commit' # NoCommit /\ commit # NoCommit
  BY <1>1, Appending DEF CommitType, NoCommit
<1>3. TypeOK'
  BY <1>1, <1>2, Appending DEF PipelineInv, TypeOK, control, op, files
<1>4. MemoryStands' /\ NeverRefused'
  BY <1>1, <1>2 DEF PipelineInv, MemoryStands, NeverRefused, control, op
<1> QED BY <1>1, <1>2, <1>3, <1>4, JournalGrows DEF PipelineInv

(* A commit that is not made any more keeps the invariant. *)
LEMMA CommitDroppedKeeps ==
  ASSUME PipelineInv, CommitDropped
  PROVE  PipelineInv'
<1>1. /\ commit.step = "asked" /\ ~Live(commit.epoch) /\ commit' = [commit EXCEPT !.step = "failed"]
      /\ UNCHANGED <<disk, state, control, pc, op, child, test, files, finished>>
  BY DEF CommitDropped
<1>2. commit \in CommitType /\ commit # NoCommit
  BY <1>1 DEF PipelineInv, TypeOK, NoCommit
<1>3. /\ commit' \in CommitType /\ commit'.step = "failed" /\ commit'.type = commit.type
      /\ commit'.next = commit.next /\ commit'.epoch = commit.epoch /\ commit' # NoCommit
  BY <1>1, <1>2 DEF CommitType, NoCommit
<1>4. TypeOK'
  BY <1>1, <1>3 DEF PipelineInv, TypeOK, disk, control, op, files
<1>5. MemoryStands' /\ NeverRefused'
  BY <1>1, <1>2, <1>3 DEF PipelineInv, MemoryStands, NeverRefused, Live, disk, control, op
<1>6. Sound(journal)'
  BY <1>1 DEF PipelineInv, Sound, disk
<1>7. OperationStands'
  BY <1>1, <1>2, <1>3 DEF PipelineInv, OperationStands, disk, control, op, files
<1>8. StageStands'
  BY <1>1, <1>2, <1>3 DEF PipelineInv, StageStands, StageOpen, Accepted, Staged, disk, control, op, files
<1>9. SealStands' /\ JudgesReadTheSeal'
  BY <1>1, <1>3 DEF PipelineInv, SealStands, JudgesReadTheSeal, disk, control, op, files
<1> QED BY <1>4, <1>5, <1>6, <1>7, <1>8, <1>9 DEF PipelineInv
-----------------------------------------------------------------------------
(* A controller that is live and has no commit under way stands on what is on disk. *)
LEMMA AtRest ==
  ASSUME PipelineInv, pc \notin Committing, pc # "running" \/ test = NoTest, NEW e, Live(e)
  PROVE  /\ ~stopped /\ store = "open" /\ journal = state /\ Sound(state)
         /\ epoch = 0 /\ since = 0 /\ e = 0 /\ commit = NoCommit /\ commit.step # "written"
         /\ (state # NoState => state \in States)
<1>1. commit = NoCommit /\ commit.step = "none"
  BY NothingAsked DEF PipelineInv
<1>2. ~stopped /\ store = "open" /\ epoch = e
  BY DEF Live
<1> QED BY <1>1, <1>2, OpenMemory DEF PipelineInv, TypeOK

(* The proposal of the plan keeps the invariant. *)
LEMMA ProposeKeeps ==
  ASSUME PipelineInv, Propose
  PROVE  PipelineInv'
<1>1. /\ pc = "idle" /\ pc' = "proposing" /\ Live(epoch) /\ since' = epoch /\ state = NoState
      /\ Ask("PLAN_PROPOSED", Proposed, epoch)
      /\ UNCHANGED <<disk, state, control, stage, child, test, files, finished>>
  BY DEF Propose, Begin
<1>2. /\ ~stopped /\ store = "open" /\ journal = NoState /\ epoch = 0 /\ since' = 0
      /\ commit = NoCommit /\ commit.step # "written" /\ child = NoChild /\ test = NoTest
  <2>1. pc \notin Committing /\ pc # "running"
    BY <1>1 DEF Committing
  <2> QED BY <1>1, <2>1, AtRest DEF PipelineInv, OperationStands
<1>3. Lawful("PLAN_PROPOSED", Proposed)
  BY <1>2 DEF Lawful, Follows
<1>4. Proposed \in States /\ "PLAN_PROPOSED" \in Events
  BY ProposalIsSound DEF Events
<1>5. /\ commit' \in CommitType /\ commit' # NoCommit /\ commit'.type = "PLAN_PROPOSED" /\ commit'.next = Proposed
      /\ MemoryStands' /\ NeverRefused'
  BY <1>1, <1>2, <1>3, <1>4, MemoryAsked DEF disk, control
<1>6. TypeOK'
  BY <1>1, <1>2, <1>5 DEF PipelineInv, TypeOK, Pcs, Committing, disk, control, files
<1>7. Sound(journal)'
  BY <1>1 DEF PipelineInv, Sound, disk
<1>8. OperationStands'
  BY <1>1, <1>2, <1>5 DEF OperationStands, TypesAt, NoState, disk, control, files
<1>9. StageStands'
  BY <1>1 DEF StageStands
<1>10. SealStands' /\ JudgesReadTheSeal'
  BY <1>1 DEF PipelineInv, SealStands, JudgesReadTheSeal, disk, control, files
<1> QED BY <1>5, <1>6, <1>7, <1>8, <1>9, <1>10 DEF PipelineInv

(* The human decision keeps the invariant. *)
LEMMA DecideKeeps ==
  ASSUME PipelineInv, NEW d \in {"authorize", "reject"}, Decide(d)
  PROVE  PipelineInv'
<1> DEFINE next == [Step(state) EXCEPT !.decision = d, !.phase = IF d = "authorize" THEN "PLAN_AUTHORIZED" ELSE "STOPPED"]
<1>1. /\ pc = "idle" /\ pc' = "deciding" /\ Live(epoch) /\ since' = epoch
      /\ state.phase = "AWAITING_HUMAN" /\ PlanReviewed(state)
      /\ Ask("HUMAN_DECIDED", next, epoch)
      /\ UNCHANGED <<disk, state, control, stage, child, test, files, finished>>
  BY DEF Decide, Begin
<1>2. /\ ~stopped /\ store = "open" /\ journal = state /\ Sound(state) /\ epoch = 0 /\ since' = 0 /\ state \in States
      /\ commit = NoCommit /\ commit.step # "written" /\ child = NoChild /\ test = NoTest
  <2>1. pc \notin Committing /\ pc # "running"
    BY <1>1 DEF Committing
  <2>2. state # NoState
    BY <1>1 DEF NoState
  <2> QED BY <1>1, <2>1, <2>2, AtRest DEF PipelineInv, OperationStands
<1>3. next \in States /\ Follows(state, "HUMAN_DECIDED", next)
  BY <1>1, <1>2, DecisionFollows
<1> HIDE DEF next
<1>4. Lawful("HUMAN_DECIDED", next) /\ "HUMAN_DECIDED" \in Events
  BY <1>2, <1>3 DEF Lawful, Events
<1>5. /\ commit' \in CommitType /\ commit' # NoCommit /\ commit'.type = "HUMAN_DECIDED"
      /\ MemoryStands' /\ NeverRefused'
  BY <1>1, <1>2, <1>3, <1>4, MemoryAsked DEF disk, control
<1>6. TypeOK'
  BY <1>1, <1>2, <1>5 DEF PipelineInv, TypeOK, Pcs, Committing, disk, control, files
<1>7. Sound(journal)'
  BY <1>1 DEF PipelineInv, Sound, disk
<1>8. OperationStands'
  BY <1>1, <1>2, <1>5 DEF OperationStands, TypesAt, disk, control, files
<1>9. StageStands'
  BY <1>1 DEF StageStands
<1>10. SealStands' /\ JudgesReadTheSeal'
  BY <1>1 DEF PipelineInv, SealStands, JudgesReadTheSeal, disk, control, files
<1> QED BY <1>5, <1>6, <1>7, <1>8, <1>9, <1>10 DEF PipelineInv

(* An operation's commit is acknowledged, or lost: the facts that every such step needs. *)
LEMMA Settled ==
  ASSUME PipelineInv, Acknowledged \/ Rejected,
         journal' = journal, store' = store, stopped' = stopped, epoch' = epoch, since' = since
  PROVE  /\ commit' = NoCommit /\ MemoryStands' /\ NeverRefused' /\ Sound(journal)'
         /\ state' \in States \cup {NoState} /\ commit # NoCommit
         /\ \/ (Acknowledged /\ state' = journal /\ journal = commit.next /\ journal \in States)
            \/ (Rejected /\ state' = state)
<1>1. Sound(journal)'
  BY DEF PipelineInv, Sound
<1>2. CASE Acknowledged
  BY <1>1, <1>2, MemoryWritten
<1>3. CASE Rejected
  <2>1. commit # NoCommit /\ (stopped \/ store # "open") /\ commit' = NoCommit /\ state' = state
    BY <1>3, LostIsOver DEF Rejected
  <2> QED BY <1>1, <1>3, <2>1, MemoryDropped DEF PipelineInv, TypeOK
<1> QED BY <1>2, <1>3

(* The end of an operation that only commits keeps the invariant. *)
LEMMA CommittedKeeps ==
  ASSUME PipelineInv, Committed
  PROVE  PipelineInv'
<1>1. /\ pc \in {"proposing", "deciding", "failing"} /\ pc' = "idle" /\ (Acknowledged \/ Rejected)
      /\ UNCHANGED <<disk, control, op, child, test, files, finished>>
  BY DEF Committed
<1>2. /\ commit' = NoCommit /\ MemoryStands' /\ NeverRefused' /\ Sound(journal)'
      /\ state' \in States \cup {NoState}
  BY <1>1, Settled DEF disk, control, op
<1>3. TypeOK'
  BY <1>1, <1>2 DEF PipelineInv, TypeOK, Pcs, disk, control, op, files
<1>4. OperationStands'
  BY <1>1, <1>2 DEF PipelineInv, OperationStands, Committing, disk
<1>5. StageStands'
  BY <1>1 DEF StageStands
<1>6. SealStands' /\ JudgesReadTheSeal'
  BY <1>1 DEF PipelineInv, SealStands, JudgesReadTheSeal, disk, control, op, files
<1> QED BY <1>2, <1>3, <1>4, <1>5, <1>6 DEF PipelineInv
-----------------------------------------------------------------------------
(* A stage that may begin asks for its assignment: it is of the generation at hand, it has
   no result, and what a judge is to read is what was sealed under that generation. *)
LEMMA AssignmentAsked ==
  ASSUME PipelineInv, NEW role \in Roles, StageOpen(role), state \in States, ~stopped, store = "open",
         commit = NoCommit, NEW e, e = 0, AskAssignment(role, e), stage' = <<role, GenerationOf(role)>>,
         journal' = journal, store' = store, state' = state, stopped' = stopped, epoch' = epoch, since' = 0
  PROVE  /\ commit' \in CommitType /\ commit' # NoCommit /\ commit'.type \in {"ATTEMPT_RESERVED", "ASSIGNMENT_CREATED"}
         /\ MemoryStands' /\ NeverRefused'
         /\ stage' \in Roles \X Generations /\ Staged(commit.next)'
         /\ role \in Judges => custody = stage'[2] /\ commit'.next.candidate = stage'[2] /\ workspace # "open"
<1>1. commit.step # "written"
  BY DEF NoCommit
<1>2. journal = state /\ Sound(state) /\ epoch = 0
  BY <1>1, OpenMemory
<1>3. state # NoState /\ WellFormed(state) /\ state.candidate \in {0, state.generation}
  BY <1>2, AttemptsAreCounted DEF Sound
<1>4. CASE role = "author"
  <2> DEFINE next == [Step(state) EXCEPT !.phase = "AUTHORING", !.generation = @ + 1, !.candidate = 0,
                                         !.assignments = @ \cup {<<"author", state.generation + 1>>}]
  <2>1. Ask("ATTEMPT_RESERVED", next, e)
    BY <1>4 DEF AskAssignment
  <2>2. /\ state.phase \in {"PLAN_AUTHORIZED", "CORRECTION_REQUIRED"} /\ BudgetLeft(state)
        /\ state.decision = "authorize" /\ PlanReviewed(state)
    BY <1>4 DEF StageOpen, Accepted, Judges
  <2>3. /\ next \in States /\ Follows(state, "ATTEMPT_RESERVED", next) /\ next.generation = state.generation + 1
        /\ next.phase = "AUTHORING" /\ <<"author", next.generation>> \in next.assignments
    BY <1>2, <2>2, ReservationFollows
  <2> HIDE DEF next
  <2>4. Sound(next)
    BY <1>2, <2>3, EventsMoveTheJob
  <2>5. next # NoState /\ ResultsOf(next, "author", next.generation) = {}
    BY <2>3, <2>4, AttemptsAreCounted DEF Sound
  <2>6. Lawful("ATTEMPT_RESERVED", next) /\ "ATTEMPT_RESERVED" \in Events
    BY <1>2, <2>3 DEF Lawful, Events
  <2>7. /\ commit' \in CommitType /\ commit' # NoCommit /\ commit'.type = "ATTEMPT_RESERVED" /\ commit'.next = next
        /\ MemoryStands' /\ NeverRefused'
    BY <1>1, <2>1, <2>3, <2>6, MemoryAsked
  <2>8. stage' = <<"author", next.generation>> /\ next.generation \in Generations
    BY <1>4, <2>3 DEF GenerationOf, States
  <2>9. Staged(commit.next)'
    BY <2>3, <2>5, <2>7, <2>8 DEF Staged, PhaseOf, Roles
  <2> QED BY <1>4, <2>7, <2>8, <2>9 DEF Roles, Judges
<1>5. CASE role \in {"plan-review"} \cup Judges
  <2> DEFINE g == GenerationOf(role)
             next == [Step(state) EXCEPT !.assignments = @ \cup {<<role, g>>},
                               !.phase = CASE role = "validator" -> "VALIDATING"
                                           [] role = "reviewer" -> "REVIEWING"
                                           [] OTHER -> @]
  <2>1. Ask("ASSIGNMENT_CREATED", next, e)
    BY <1>5 DEF AskAssignment, Judges
  <2>2. g \in Generations /\ <<role, g>> \notin state.assignments
    <3>1. state.generation \in Generations /\ 1 \in Generations
      BY BudgetAssumption DEF States, Generations
    <3> QED BY <1>5, <3>1 DEF GenerationOf, StageOpen, Judges
  <2>3. IF role = "plan-review" THEN state.phase = "PLANNING" /\ g = 1
        ELSE state.phase \in {"FROZEN", "VALIDATING", "REVIEWING"} /\ state.candidate # 0 /\ g = state.generation
    BY <1>5 DEF GenerationOf, StageOpen, Judges
  <2>4. /\ stage' = <<role, g>>
        /\ role \in Judges => custody # 0
    BY <1>5 DEF StageOpen, Judges
  <2> HIDE DEF g
  <2>5. /\ next \in States /\ Follows(state, "ASSIGNMENT_CREATED", next)
        /\ next.generation = state.generation /\ g = state.generation /\ next.results = state.results
        /\ next.candidate = state.candidate /\ <<role, g>> \in next.assignments
        /\ next.phase = PhaseOf(role)
    <3>1. next = AssignedNext(state, role, g)
      BY DEF AssignedNext
    <3> HIDE DEF next
    <3>2. /\ state \in States /\ Sound(state) /\ role \in {"plan-review"} \cup Judges /\ g \in Generations
          /\ <<role, g>> \notin state.assignments
      BY <1>2, <1>5, <2>2
    <3> QED BY <2>3, <3>1, <3>2, AssignmentFollows
  <2> HIDE DEF next
  <2>6. next # NoState /\ ResultsOf(next, role, g) = {}
    <3>1. \A r \in state.results : <<r.role, r.generation>> \in state.assignments
      BY <1>3 DEF WellFormed
    <3> QED BY <2>2, <2>5, <3>1, AttemptsAreCounted DEF ResultsOf
  <2>7. Lawful("ASSIGNMENT_CREATED", next) /\ "ASSIGNMENT_CREATED" \in Events
    BY <1>2, <2>5 DEF Lawful, Events
  <2>8. /\ commit' \in CommitType /\ commit' # NoCommit /\ commit'.type = "ASSIGNMENT_CREATED" /\ commit'.next = next
        /\ MemoryStands' /\ NeverRefused'
    BY <1>1, <2>1, <2>5, <2>7, MemoryAsked
  <2>9. Staged(commit.next)'
    BY <2>4, <2>5, <2>6, <2>8 DEF Staged
  <2>10. role \in Judges => custody = g /\ next.candidate = g /\ workspace # "open"
    <3> SUFFICES ASSUME role \in Judges PROVE custody = g /\ next.candidate = g /\ workspace # "open"
      OBVIOUS
    <3>1. state.phase \in {"FROZEN", "VALIDATING", "REVIEWING"} /\ state.candidate # 0
      BY <2>3 DEF Judges
    <3>2. custody \in {0, state.generation} /\ workspace # "open"
      BY <1>2, <3>1 DEF PipelineInv, SealStands
    <3> QED BY <1>3, <2>4, <2>5, <3>1, <3>2
  <2> QED BY <2>2, <2>4, <2>8, <2>9, <2>10
<1> QED BY <1>4, <1>5 DEF Roles

(* The beginning of a stage keeps the invariant. *)
LEMMA BeginStageKeeps ==
  ASSUME PipelineInv, NEW role \in Roles, BeginStage(role)
  PROVE  PipelineInv'
<1>1. /\ pc = "idle" /\ Live(epoch) /\ since' = epoch /\ state # NoState /\ StageOpen(role)
      /\ stage' = <<role, GenerationOf(role)>>
      /\ UNCHANGED <<disk, state, control, child, test, custody, finished>>
  BY DEF BeginStage, Begin
<1>2. /\ ~stopped /\ store = "open" /\ journal = state /\ Sound(state) /\ epoch = 0 /\ since' = 0 /\ state \in States
      /\ commit = NoCommit /\ commit.step # "written" /\ child = NoChild /\ test = NoTest
  <2>1. pc \notin Committing /\ pc # "running"
    BY <1>1 DEF Committing
  <2> QED BY <1>1, <2>1, AtRest DEF PipelineInv, OperationStands
<1>3. journal' = journal /\ store' = store /\ stopped' = stopped /\ epoch' = epoch /\ closing' = closing
  BY <1>1 DEF disk, control
<1>4. Sound(journal)'
  BY <1>3 DEF PipelineInv, Sound
<1>5. state.phase # "DIAGNOSTIC_READY"
  BY <1>1 DEF StageOpen, Roles
<1>6. CASE role = "author" /\ pc' = "clearing" /\ workspace' = "revoked" /\ UNCHANGED commit
  <2>1. /\ state.phase \in {"PLAN_AUTHORIZED", "CORRECTION_REQUIRED"} /\ BudgetLeft(state)
        /\ state.decision = "authorize" /\ PlanReviewed(state)
    BY <1>1, <1>6 DEF StageOpen, Accepted, Judges
  <2>2. state.generation + 1 \in Generations
    <3> DEFINE next == [Step(state) EXCEPT !.phase = "AUTHORING", !.generation = @ + 1, !.candidate = 0,
                                           !.assignments = @ \cup {<<"author", state.generation + 1>>}]
    <3>1. next \in States /\ next.generation = state.generation + 1
      BY <1>2, <2>1, ReservationFollows
    <3> HIDE DEF next
    <3> QED BY <3>1 DEF States
  <2>3. stage' = <<"author", state.generation + 1>> /\ stage' \in Roles \X Generations
    BY <1>1, <1>6, <2>2 DEF GenerationOf, Roles
  <2>4. TypeOK'
    BY <1>1, <1>2, <1>3, <1>6, <2>3 DEF PipelineInv, TypeOK, Pcs
  <2>5. MemoryStands' /\ NeverRefused'
    BY <1>1, <1>2, <1>3, <1>6, MemoryLeft
  <2>6. OperationStands'
    BY <1>1, <1>2, <1>3, <1>5, <1>6 DEF OperationStands, Committing
  <2>7. StageOpen("author")'
    BY <1>1, <1>6, <2>1 DEF StageOpen, Accepted
  <2>8. StageStands'
    BY <1>1, <1>6, <2>3, <2>7 DEF StageStands
  <2>9. SealStands' /\ JudgesReadTheSeal'
    BY <1>1, <1>3, <1>6 DEF PipelineInv, SealStands, JudgesReadTheSeal
  <2> QED BY <1>4, <2>4, <2>5, <2>6, <2>8, <2>9 DEF PipelineInv
<1>7. CASE pc' = "assigning" /\ AskAssignment(role, epoch) /\ UNCHANGED workspace
  <2>1. /\ commit' \in CommitType /\ commit' # NoCommit /\ commit'.type \in {"ATTEMPT_RESERVED", "ASSIGNMENT_CREATED"}
        /\ MemoryStands' /\ NeverRefused'
        /\ stage' \in Roles \X Generations /\ Staged(commit.next)'
        /\ role \in Judges => custody = stage'[2] /\ commit'.next.candidate = stage'[2] /\ workspace # "open"
    BY <1>1, <1>2, <1>3, <1>7, AssignmentAsked
  <2>2. TypeOK'
    BY <1>1, <1>2, <1>3, <1>7, <2>1 DEF PipelineInv, TypeOK, Pcs, Committing
  <2>3. OperationStands'
    BY <1>1, <1>2, <1>3, <1>5, <1>7, <2>1 DEF OperationStands, TypesAt
  <2>4. StageStands'
    BY <1>7, <2>1 DEF StageStands
  <2>5. SealStands' /\ JudgesReadTheSeal'
    <3>1. stage'[1] = role
      BY <1>1
    <3> QED BY <1>1, <1>3, <1>7, <2>1, <3>1 DEF PipelineInv, SealStands, JudgesReadTheSeal
  <2> QED BY <1>4, <2>1, <2>2, <2>3, <2>4, <2>5 DEF PipelineInv
<1> QED BY <1>6, <1>7 DEF BeginStage, Begin

(* The old workspace is closed, and its author's next attempt asked for; or it is not. *)
LEMMA WorkspaceClosedKeeps ==
  ASSUME PipelineInv, WorkspaceClosed
  PROVE  PipelineInv'
<1>1. /\ pc = "clearing" /\ workspace' = "none" /\ custody' = 0
      /\ UNCHANGED <<disk, state, control, op, child, test, finished>>
  BY DEF WorkspaceClosed
<1>2. /\ journal' = journal /\ store' = store /\ stopped' = stopped /\ epoch' = epoch /\ closing' = closing
      /\ stage' = stage /\ since' = since
  BY <1>1 DEF disk, control, op
<1>3. Sound(journal)'
  BY <1>2 DEF PipelineInv, Sound
<1>4. commit = NoCommit /\ commit.step = "none" /\ child = NoChild /\ test = NoTest /\ journal.phase # "DIAGNOSTIC_READY"
  <2>1. pc \notin Committing /\ pc # "running"
    BY <1>1 DEF Committing
  <2> QED BY <1>1, <2>1, NothingAsked DEF PipelineInv, OperationStands
<1>5. (SealStands' /\ JudgesReadTheSeal') \/ pc' = "assigning"
  BY <1>1, <1>2, <1>4 DEF WorkspaceClosed, SealStands, JudgesReadTheSeal
<1>6. CASE pc' = "idle" /\ UNCHANGED commit
  <2>1. MemoryStands' /\ NeverRefused'
    BY <1>1, <1>2, <1>6, MemoryLeft
  <2>2. TypeOK'
    BY <1>1, <1>2, <1>6 DEF PipelineInv, TypeOK, Pcs
  <2>3. OperationStands'
    BY <1>1, <1>2, <1>4, <1>6 DEF OperationStands, Committing
  <2>4. StageStands'
    BY <1>6 DEF StageStands
  <2> QED BY <1>3, <1>5, <1>6, <2>1, <2>2, <2>3, <2>4 DEF PipelineInv
<1>7. CASE Live(since) /\ pc' = "assigning" /\ AskAssignment("author", since)
  <2>1. stage = <<"author", state.generation + 1>> /\ StageOpen("author")
    BY <1>1 DEF PipelineInv, StageStands
  <2>2. /\ ~stopped /\ store = "open" /\ since = 0 /\ state \in States
    <3>1. pc \notin Committing /\ pc # "running"
      BY <1>1 DEF Committing
    <3>2. state # NoState
      BY <2>1 DEF StageOpen, Judges, NoState
    <3> QED BY <1>7, <3>1, <3>2, AtRest
  <2>3. stage' = <<"author", GenerationOf("author")>> /\ "author" \in Roles /\ "author" \notin Judges
    BY <1>2, <2>1 DEF GenerationOf, Roles, Judges
  <2>4. /\ commit' \in CommitType /\ commit' # NoCommit /\ commit'.type \in {"ATTEMPT_RESERVED", "ASSIGNMENT_CREATED"}
        /\ MemoryStands' /\ NeverRefused' /\ stage' \in Roles \X Generations /\ Staged(commit.next)'
    BY <1>1, <1>2, <1>4, <1>7, <2>1, <2>2, <2>3, AssignmentAsked
  <2>5. TypeOK'
    BY <1>1, <1>2, <1>7, <2>2, <2>4 DEF PipelineInv, TypeOK, Pcs, Committing
  <2>6. OperationStands'
    BY <1>1, <1>2, <1>4, <1>7, <2>4 DEF OperationStands, TypesAt
  <2>7. StageStands'
    BY <1>7, <2>4 DEF StageStands
  <2>8. SealStands' /\ JudgesReadTheSeal'
    BY <1>1, <1>2, <1>7, <2>3 DEF SealStands, JudgesReadTheSeal
  <2> QED BY <1>3, <2>4, <2>5, <2>6, <2>7, <2>8 DEF PipelineInv
<1> QED BY <1>6, <1>7 DEF WorkspaceClosed

(* An author's next attempt that cannot begin keeps the invariant. *)
LEMMA WorkspaceNotClosedKeeps ==
  ASSUME PipelineInv, WorkspaceNotClosed
  PROVE  PipelineInv'
<1>1. /\ pc = "clearing" /\ pc' = "idle" /\ journal' = journal /\ store' = store /\ state' = state /\ commit' = commit
      /\ UNCHANGED <<stopped, epoch, closing, stage, since, child, test, workspace, custody, finished>>
  BY DEF WorkspaceNotClosed, disk, control, op, files
<1>2. commit = NoCommit
  <2>1. pc \notin Committing /\ pc # "running"
    BY <1>1 DEF Committing
  <2> QED BY <2>1, NothingAsked DEF PipelineInv
<1>3. TypeOK'
  BY <1>1 DEF PipelineInv, TypeOK, Pcs
<1>4. Sound(journal)' /\ MemoryStands' /\ NeverRefused'
  BY <1>1, MemoryLeft DEF PipelineInv, Sound
<1>5. OperationStands'
  BY <1>1, <1>2 DEF PipelineInv, OperationStands, Committing
<1>6. StageStands'
  BY <1>1 DEF StageStands
<1>7. SealStands' /\ JudgesReadTheSeal'
  BY <1>1 DEF PipelineInv, SealStands, JudgesReadTheSeal
<1> QED BY <1>3, <1>4, <1>5, <1>6, <1>7 DEF PipelineInv

(* An assignment that is on record, or lost, keeps the invariant. *)
LEMMA AssignedKeeps ==
  ASSUME PipelineInv, Assigned
  PROVE  PipelineInv'
<1>1. /\ pc = "assigning" /\ journal' = journal /\ store' = store
      /\ UNCHANGED <<stopped, epoch, closing, stage, since, child, test, workspace, custody, finished>>
      /\ (Acknowledged /\ pc' = "starting") \/ (Rejected /\ pc' = "idle")
  BY DEF Assigned, disk, control, op, files
<1>2. /\ commit' = NoCommit /\ MemoryStands' /\ NeverRefused' /\ Sound(journal)'
      /\ state' \in States \cup {NoState}
  BY <1>1, Settled
<1>3. pc' \in {"starting", "idle"} /\ (pc' = "starting" => Acknowledged)
  BY <1>1
<1>4. TypeOK'
  BY <1>1, <1>2, <1>3 DEF PipelineInv, TypeOK, Pcs
<1>5. OperationStands'
  BY <1>1, <1>2, <1>3 DEF PipelineInv, OperationStands, Committing
<1>6. Staged(commit.next)
  BY <1>1 DEF PipelineInv, StageStands
<1>7. Acknowledged => journal = commit.next /\ state' = commit.next
  BY <1>1, MemoryWritten
<1>8. StageStands'
  <2>1. CASE pc' = "idle"
    BY <2>1 DEF StageStands
  <2>2. CASE pc' = "starting"
    <3>1. Staged(state)' /\ Staged(journal)'
      BY <1>1, <1>3, <1>6, <1>7, <2>2 DEF Staged
    <3> QED BY <2>2, <3>1 DEF StageStands
  <2> QED BY <1>3, <2>1, <2>2
<1>9. SealStands' /\ JudgesReadTheSeal'
  BY <1>1, <1>3, <1>7 DEF PipelineInv, SealStands, JudgesReadTheSeal
<1> QED BY <1>2, <1>4, <1>5, <1>8, <1>9 DEF PipelineInv

(* The start of the child keeps the invariant. *)
LEMMA StageStartsKeeps ==
  ASSUME PipelineInv, StageStarts
  PROVE  PipelineInv'
<1> DEFINE new == [status |-> "running", submission |-> Nothing, submitted |-> FALSE]
<1>1. /\ pc = "starting" /\ pc' = "running" /\ Live(epoch) /\ child' = new
      /\ workspace' = (IF stage[1] = "author" THEN "open" ELSE workspace)
      /\ journal' = journal /\ store' = store /\ state' = state /\ commit' = commit
      /\ UNCHANGED <<stopped, epoch, closing, stage, since, test, custody, finished>>
  BY DEF StageStarts, disk, control
<1>2. /\ ~stopped /\ store = "open" /\ journal = state /\ commit = NoCommit /\ test = NoTest
      /\ journal.phase # "DIAGNOSTIC_READY"
  <2>1. pc \notin Committing /\ pc # "running"
    BY <1>1 DEF Committing
  <2> QED BY <1>1, <2>1, AtRest DEF PipelineInv, OperationStands
<1>3. new \in ChildType /\ new # NoChild /\ new.submission = Nothing
  <2>1. new.submission = Nothing
    OBVIOUS
  <2> QED BY <2>1 DEF ChildType, SubmissionType, Nothing, NoChild, Findings
<1> HIDE DEF new
<1>4. TypeOK'
  BY <1>1, <1>3 DEF PipelineInv, TypeOK, Pcs, Committing
<1>5. Sound(journal)' /\ MemoryStands' /\ NeverRefused'
  BY <1>1, MemoryLeft DEF PipelineInv, Sound
<1>6. OperationStands'
  BY <1>1, <1>2, <1>3 DEF OperationStands, Committing, Nothing
<1>7. Staged(state) /\ Staged(journal)
  BY <1>1 DEF PipelineInv, StageStands
<1>8. Staged(state)' /\ Staged(journal)'
  BY <1>1, <1>7 DEF Staged
<1>9. StageStands'
  BY <1>1, <1>8 DEF StageStands
<1>10. stage[1] = "author" => journal.phase = "AUTHORING"
  BY <1>7 DEF Staged, PhaseOf
<1>11. SealStands' /\ JudgesReadTheSeal'
  <2>1. CASE stage[1] = "author"
    BY <1>1, <1>10, <2>1 DEF SealStands, JudgesReadTheSeal, Judges
  <2>2. CASE stage[1] # "author"
    BY <1>1, <2>2 DEF PipelineInv, SealStands, JudgesReadTheSeal
  <2> QED BY <2>1, <2>2
<1> QED BY <1>4, <1>5, <1>6, <1>9, <1>11 DEF PipelineInv
-----------------------------------------------------------------------------
(* What only concerns the child and its tools leaves the records and the seal alone. *)
LEMMA ChildMoves ==
  ASSUME PipelineInv, pc \in {"running", "observing"}, pc' \in {pc, "observing"},
         journal' = journal, store' = store, state' = state,
         UNCHANGED <<stopped, epoch, closing, stage, since, workspace, custody, finished>>
  PROVE  Sound(journal)' /\ StageStands' /\ SealStands' /\ JudgesReadTheSeal'
<1>1. Sound(journal)'
  BY DEF PipelineInv, Sound
<1>2. Staged(state)' /\ Staged(journal)'
  BY DEF PipelineInv, StageStands, Staged
<1>3. StageStands'
  BY <1>2 DEF StageStands
<1>4. SealStands' /\ JudgesReadTheSeal'
  BY DEF PipelineInv, SealStands, JudgesReadTheSeal
<1> QED BY <1>1, <1>3, <1>4

(* A submission of the child keeps the invariant. *)
LEMMA SubmitKeeps ==
  ASSUME PipelineInv, pc = "running", NEW submission \in Submissions(stage[1]), Submit(submission)
  PROVE  PipelineInv'
<1> DEFINE of == {e.of : e \in CurrentEvidence(state)}
<1>1. /\ ~child.submitted /\ child' = [child EXCEPT !.submission = submission, !.submitted = TRUE]
      /\ journal' = journal /\ store' = store /\ state' = state /\ commit' = commit
      /\ UNCHANGED <<stopped, epoch, closing, pc, stage, since, test, workspace, custody, finished>>
  BY DEF Submit, disk, control, op, files
<1>2. /\ Staged(state) /\ state \in States /\ child \in ChildType
  BY DEF PipelineInv, StageStands, Staged, OperationStands, TypeOK
<1>3. of \subseteq Commands \cup {Frozen}
  BY <1>2 DEF CurrentEvidence, States, Evidence
<1> HIDE DEF of
<1>4. /\ submission \in SubmissionType
      /\ submission.pass => submission.finding # "open"
      /\ submission.cites \subseteq of
  <2>1. CASE \E f \in {"none", "resolved"} : submission = [pass |-> TRUE, finding |-> f, cites |-> of]
    BY <1>3, <2>1 DEF SubmissionType, Findings
  <2>2. CASE submission \in [pass : {FALSE}, cites : {{}}, finding : {"none", "open", "resolved"}]
    BY <2>2 DEF SubmissionType, Findings
  <2> QED BY <2>1, <2>2 DEF Submissions, of
<1>5. /\ child' \in ChildType /\ child' # NoChild /\ child'.submission = submission
  BY <1>1, <1>2, <1>4 DEF ChildType, NoChild
<1>6. TypeOK'
  BY <1>1, <1>5 DEF PipelineInv, TypeOK
<1>7. MemoryStands' /\ NeverRefused'
  BY <1>1, MemoryLeft
<1>8. OperationStands'
  BY <1>1, <1>4, <1>5 DEF PipelineInv, OperationStands, of
<1> QED BY <1>1, <1>6, <1>7, <1>8, ChildMoves DEF PipelineInv

(* A command that the validator starts keeps the invariant. *)
LEMMA RunTestKeeps ==
  ASSUME PipelineInv, NEW c \in Commands, RunTest(c)
  PROVE  PipelineInv'
<1>1. /\ pc = "running" /\ stage[1] = "validator" /\ test = NoTest /\ Live(epoch)
      /\ \A e \in CurrentEvidence(state) : e.of # c
      /\ test' = c /\ journal' = journal /\ store' = store /\ state' = state /\ commit' = commit
      /\ UNCHANGED <<stopped, epoch, closing, pc, stage, since, child, workspace, custody, finished>>
  BY DEF RunTest, disk, control, op, files
<1>2. commit = NoCommit
  BY <1>1, NothingAsked DEF PipelineInv, Committing
<1>3. TypeOK'
  BY <1>1 DEF PipelineInv, TypeOK
<1>4. MemoryStands' /\ NeverRefused'
  BY <1>1, MemoryLeft
<1>5. OperationStands'
  BY <1>1, <1>2 DEF PipelineInv, OperationStands
<1> QED BY <1>1, <1>3, <1>4, <1>5, ChildMoves DEF PipelineInv

(* The result of a command, whose evidence is asked for, keeps the invariant. *)
LEMMA TestEndsKeeps ==
  ASSUME PipelineInv, NEW passed \in BOOLEAN, TestEnds(passed)
  PROVE  PipelineInv'
<1> DEFINE next == [Step(state) EXCEPT !.evidence = @ \cup {[of |-> test, generation |-> stage[2], passed |-> passed]}]
<1>1. /\ test # NoTest /\ commit = NoCommit /\ Live(since) /\ Ask("EVIDENCE_REGISTERED", next, since)
      /\ journal' = journal /\ store' = store /\ state' = state
      /\ UNCHANGED <<stopped, epoch, closing, pc, stage, since, child, test, workspace, custody, finished>>
  BY DEF TestEnds, disk, control, op, files
<1>2. /\ pc = "running" /\ stage[1] = "validator" /\ test \in Commands
      /\ \A e \in CurrentEvidence(state) : e.of # test
  BY <1>1 DEF PipelineInv, OperationStands, TypeOK
<1>3. /\ state \in States /\ state.phase = "VALIDATING" /\ stage[2] = state.generation
      /\ <<"validator", state.generation>> \in state.assignments
  <2>1. Staged(state) /\ stage \in (Roles \X Generations) \cup {<<"none", 0>>} /\ state \in States \cup {NoState}
    BY <1>2 DEF PipelineInv, StageStands, TypeOK
  <2>2. stage = <<"validator", state.generation>>
    BY <1>2, <2>1 DEF Staged
  <2> QED BY <1>2, <2>1, <2>2 DEF Staged, PhaseOf
<1>4. ~stopped /\ store = "open" /\ commit.step # "written"
  BY <1>1 DEF Live, NoCommit
<1>5. journal = state /\ Sound(state) /\ since = 0
  BY <1>4, OpenMemory
<1>6. next \in States /\ Follows(state, "EVIDENCE_REGISTERED", next)
  BY <1>2, <1>3, <1>5, EvidenceFollows
<1> HIDE DEF next
<1>7. Lawful("EVIDENCE_REGISTERED", next) /\ "EVIDENCE_REGISTERED" \in Events
  BY <1>5, <1>6 DEF Lawful, Events
<1>8. /\ commit' \in CommitType /\ commit' # NoCommit /\ commit'.type = "EVIDENCE_REGISTERED"
      /\ MemoryStands' /\ NeverRefused'
  BY <1>1, <1>4, <1>5, <1>6, <1>7, MemoryAsked
<1>9. TypeOK'
  BY <1>1, <1>8 DEF PipelineInv, TypeOK
<1>10. OperationStands'
  BY <1>1, <1>2, <1>8 DEF PipelineInv, OperationStands, TypesAt
<1> QED BY <1>1, <1>2, <1>8, <1>9, <1>10, ChildMoves DEF PipelineInv

(* A command whose result is lost keeps the invariant. *)
LEMMA TestLostKeeps ==
  ASSUME PipelineInv, TestLost
  PROVE  PipelineInv'
<1>1. /\ test # NoTest /\ commit = NoCommit /\ test' = NoTest
      /\ journal' = journal /\ store' = store /\ state' = state /\ commit' = commit
      /\ UNCHANGED <<stopped, epoch, closing, pc, stage, since, child, workspace, custody, finished>>
  BY DEF TestLost, disk, control, op, files
<1>2. pc = "running"
  BY <1>1 DEF PipelineInv, OperationStands
<1>3. TypeOK'
  BY <1>1 DEF PipelineInv, TypeOK
<1>4. MemoryStands' /\ NeverRefused'
  BY <1>1, MemoryLeft
<1>5. OperationStands'
  BY <1>1 DEF PipelineInv, OperationStands
<1> QED BY <1>1, <1>2, <1>3, <1>4, <1>5, ChildMoves DEF PipelineInv

(* A command whose evidence is on record, or lost, keeps the invariant. *)
LEMMA TestRegisteredKeeps ==
  ASSUME PipelineInv, TestRegistered
  PROVE  PipelineInv'
<1>1. /\ test # NoTest /\ (Acknowledged \/ Rejected) /\ test' = NoTest
      /\ journal' = journal /\ store' = store
      /\ UNCHANGED <<stopped, epoch, closing, pc, stage, since, child, workspace, custody, finished>>
  BY DEF TestRegistered, disk, control, op, files
<1>2. pc = "running"
  BY <1>1 DEF PipelineInv, OperationStands
<1>3. /\ commit' = NoCommit /\ MemoryStands' /\ NeverRefused' /\ Sound(journal)'
      /\ state' \in States \cup {NoState}
      /\ state' = journal \/ state' = state
  BY <1>1, Settled
<1>4. TypeOK'
  BY <1>1, <1>3 DEF PipelineInv, TypeOK
<1>5. CurrentEvidence(state) \subseteq CurrentEvidence(journal)
  BY <1>2 DEF PipelineInv, OperationStands
<1>6. OperationStands'
  <2>1. /\ CurrentEvidence(state') \subseteq CurrentEvidence(journal)
        /\ child.submission.cites \subseteq {e.of : e \in CurrentEvidence(state')}
    BY <1>2, <1>3, <1>5 DEF PipelineInv, OperationStands
  <2> QED BY <1>1, <1>2, <1>3, <2>1 DEF PipelineInv, OperationStands, Committing
<1>7. Staged(state)' /\ Staged(journal)'
  BY <1>1, <1>2, <1>3 DEF PipelineInv, StageStands, Staged
<1>8. StageStands'
  BY <1>1, <1>2, <1>7 DEF StageStands
<1>9. SealStands' /\ JudgesReadTheSeal'
  BY <1>1, <1>2 DEF PipelineInv, SealStands, JudgesReadTheSeal
<1> QED BY <1>3, <1>4, <1>6, <1>8, <1>9 DEF PipelineInv

(* The end of the child keeps the invariant. *)
LEMMA ChildEndsKeeps ==
  ASSUME PipelineInv, NEW reason \in {"completed", "broken"}, ChildEnds(reason)
  PROVE  PipelineInv'
<1>1. /\ pc = "running" /\ test = NoTest /\ pc' = "observing" /\ child' = [child EXCEPT !.status = reason]
      /\ journal' = journal /\ store' = store /\ state' = state /\ commit' = commit
      /\ UNCHANGED <<stopped, epoch, closing, stage, since, test, workspace, custody, finished>>
  BY DEF ChildEnds, disk, control, op, files
<1>2. commit = NoCommit /\ journal.phase # "DIAGNOSTIC_READY"
  BY <1>1, NothingAsked DEF PipelineInv, OperationStands, Committing
<1>3. child \in ChildType
  BY <1>1 DEF PipelineInv, OperationStands, TypeOK
<1>4. child' \in ChildType /\ child' # NoChild /\ child'.submission = child.submission /\ child'.status = reason
  BY <1>1, <1>3 DEF ChildType, NoChild
<1>5. TypeOK'
  BY <1>1, <1>4 DEF PipelineInv, TypeOK, Pcs
<1>6. MemoryStands' /\ NeverRefused'
  BY <1>1, MemoryLeft
<1>7. OperationStands'
  BY <1>1, <1>2, <1>4 DEF PipelineInv, OperationStands, Committing
<1> QED BY <1>1, <1>5, <1>6, <1>7, ChildMoves DEF PipelineInv
-----------------------------------------------------------------------------
(* The catch of a stage: a stage that was stopped, or whose journal is gone, ends there; any
   other asks for what its role makes of the failure. *)
LEMMA CatchKeeps ==
  ASSUME PipelineInv, NEW made, Catch(made),
         pc \in {"starting", "observing", "verifying"} \/ (pc \in {"recording", "finalizing"} /\ Lost),
         made = workspace \/ (pc = "starting" /\ stage[1] = "author" /\ made = "open")
  PROVE  PipelineInv'
<1>1. /\ child' = NoChild /\ journal' = journal /\ store' = store /\ state' = state
      /\ UNCHANGED <<stopped, epoch, closing, stage, since, test, custody, finished>>
  BY DEF Catch, disk, control, op
<1>2. workspace' \in {made, "revoked"}
  BY DEF Catch
<1>3. test = NoTest /\ pc # "running" /\ pc \in {"starting", "observing", "verifying", "recording", "finalizing"}
  BY DEF PipelineInv, OperationStands
<1>4. commit.step # "written" \/ stopped \/ store # "open"
  <2>1. CASE pc \in {"starting", "observing", "verifying"}
    <3>1. pc \notin Committing
      BY <2>1 DEF Committing
    <3>2. commit.step = "none"
      BY <1>3, <3>1, NothingAsked DEF PipelineInv
    <3> QED BY <3>2
  <2>2. CASE Lost
    BY <2>2, LostIsOver
  <2> QED BY <2>1, <2>2
<1>5. Sound(journal)'
  BY <1>1 DEF PipelineInv, Sound
<1>6. workspace' \in {"none", "open", "sealed", "revoked"}
  BY <1>2 DEF PipelineInv, TypeOK
<1>7. ~stopped /\ journal.phase \in {"FROZEN", "VALIDATING", "REVIEWING"} =>
        custody \in {0, journal.generation} /\ workspace' # "open"
  <2>1. CASE made = workspace
    BY <1>2, <2>1 DEF PipelineInv, SealStands
  <2>2. CASE pc = "starting" /\ stage[1] = "author"
    <3>1. journal.phase = "AUTHORING"
      BY <2>2 DEF PipelineInv, StageStands, Staged, PhaseOf
    <3> QED BY <3>1
  <2> QED BY <2>1, <2>2
<1>8. CASE pc' = "idle" /\ commit' = NoCommit
  <2>1. MemoryStands' /\ NeverRefused'
    BY <1>1, <1>4, <1>8, MemoryDropped
  <2>2. TypeOK'
    BY <1>1, <1>6, <1>8 DEF PipelineInv, TypeOK, Pcs
  <2>3. OperationStands'
    BY <1>1, <1>3, <1>8 DEF OperationStands, Committing
  <2>4. StageStands'
    BY <1>8 DEF StageStands
  <2>5. SealStands' /\ JudgesReadTheSeal'
    BY <1>1, <1>7, <1>8 DEF SealStands, JudgesReadTheSeal
  <2> QED BY <1>5, <2>1, <2>2, <2>3, <2>4, <2>5 DEF PipelineInv
<1>9. CASE /\ ~stopped /\ epoch = since /\ store = "open" /\ pc' = "failing"
           /\ IF stage[1] = "author"
              THEN Ask("AUTHOR_FAILED", [Step(state) EXCEPT !.phase = Corrected(state)], since)
              ELSE Ask("STOPPED", [Step(state) EXCEPT !.phase = "STOPPED"], since)
  <2>1. pc \in {"starting", "observing", "verifying"}
    BY <1>9, LostIsOver
  <2>2. /\ journal = state /\ Sound(state) /\ since = 0 /\ commit.step # "written"
    BY <1>4, <1>9, OpenMemory
  <2>3. /\ state # NoState /\ state.phase \in {"PLANNING", "AUTHORING", "VALIDATING", "REVIEWING"}
        /\ stage[1] = "author" => state.phase = "AUTHORING"
    <3>1. CASE pc \in {"starting", "observing"}
      BY <3>1 DEF PipelineInv, StageStands, Staged, PhaseOf, Roles, Judges
    <3>2. CASE pc = "verifying"
      BY <3>2 DEF PipelineInv, StageStands, NoState, Judges
    <3> QED BY <2>1, <3>1, <3>2
  <2>4. state \in States /\ state.phase \notin Terminal
    BY <2>3 DEF PipelineInv, TypeOK, Terminal
  <2>5. /\ commit' \in CommitType /\ commit' # NoCommit /\ commit'.type \in {"AUTHOR_FAILED", "STOPPED"}
        /\ MemoryStands' /\ NeverRefused'
    <3>1. CASE stage[1] = "author"
      <4> DEFINE next == [Step(state) EXCEPT !.phase = Corrected(state)]
      <4>1. Ask("AUTHOR_FAILED", next, since)
        BY <1>9, <3>1
      <4>2. Corrected(state) \in Phases
        BY DEF Corrected, Phases, Terminal
      <4>3. next \in States /\ next.phase = Corrected(state) /\ Follows(state, "AUTHOR_FAILED", next)
        BY <2>2, <2>3, <2>4, <3>1, <4>2, PhaseFollows
      <4> HIDE DEF next
      <4>4. Lawful("AUTHOR_FAILED", next) /\ "AUTHOR_FAILED" \in Events
        BY <2>2, <4>3 DEF Lawful, Events
      <4> QED BY <1>1, <1>9, <2>2, <4>1, <4>3, <4>4, MemoryAsked
    <3>2. CASE stage[1] # "author"
      <4> DEFINE next == [Step(state) EXCEPT !.phase = "STOPPED"]
      <4>1. Ask("STOPPED", next, since)
        BY <1>9, <3>2
      <4>2. "STOPPED" \in Phases
        BY DEF Phases, Terminal
      <4>3. next \in States /\ Follows(state, "STOPPED", next)
        BY <2>2, <2>4, <4>2, PhaseFollows
      <4> HIDE DEF next
      <4>4. Lawful("STOPPED", next) /\ "STOPPED" \in Events
        BY <2>2, <2>3, <4>3 DEF Lawful, Events
      <4> QED BY <1>1, <1>9, <2>2, <4>1, <4>3, <4>4, MemoryAsked
    <3> QED BY <3>1, <3>2
  <2>6. TypeOK'
    BY <1>1, <1>6, <1>9, <2>5 DEF PipelineInv, TypeOK, Pcs, Committing
  <2>7. OperationStands'
    BY <1>1, <1>3, <1>9, <2>2, <2>3, <2>5 DEF OperationStands, TypesAt
  <2>8. StageStands'
    BY <1>9 DEF StageStands
  <2>9. SealStands' /\ JudgesReadTheSeal'
    BY <1>1, <1>7, <1>9 DEF SealStands, JudgesReadTheSeal
  <2> QED BY <1>5, <2>5, <2>6, <2>7, <2>8, <2>9 DEF PipelineInv
<1> QED BY <1>8, <1>9 DEF Catch

(* A stage that cannot start, whose end is refused, whose judgment cannot be verified, or
   whose commit is lost keeps the invariant. *)
LEMMA FailureKeeps ==
  ASSUME PipelineInv, StageNotStarted \/ ObservationRefused \/ VerificationFails \/ NotCommitted
  PROVE  PipelineInv'
<1>1. CASE StageNotStarted
  <2>1. PICK made \in {workspace} \cup (IF stage[1] = "author" THEN {"open"} ELSE {}) : Catch(made)
    BY <1>1 DEF StageNotStarted
  <2>2. pc = "starting"
    BY <1>1 DEF StageNotStarted
  <2>3. made = workspace \/ (pc = "starting" /\ stage[1] = "author" /\ made = "open")
    BY <2>2
  <2> QED BY <2>1, <2>2, <2>3, CatchKeeps
<1>2. CASE ObservationRefused
  BY <1>2, CatchKeeps DEF ObservationRefused
<1>3. CASE VerificationFails
  BY <1>3, CatchKeeps DEF VerificationFails
<1>4. CASE NotCommitted
  BY <1>4, CatchKeeps DEF NotCommitted
<1> QED BY <1>1, <1>2, <1>3, <1>4

(* An author that has completed waits for the seal. *)
LEMMA AuthorCompletedKeeps ==
  ASSUME PipelineInv, AuthorCompleted
  PROVE  PipelineInv'
<1>1. /\ pc = "observing" /\ pc' = "idle" /\ finished' = stage[2] /\ child' = NoChild /\ stage[1] = "author"
      /\ journal' = journal /\ store' = store /\ state' = state /\ commit' = commit
      /\ UNCHANGED <<stopped, epoch, closing, stage, since, test, workspace, custody>>
  BY DEF AuthorCompleted, disk, control, op, files
<1>2. commit = NoCommit /\ test = NoTest /\ stage[2] \in Generations
  <2>1. stage \in Roles \X Generations
    BY <1>1 DEF PipelineInv, TypeOK
  <2>2. pc \notin Committing /\ pc # "running"
    BY <1>1 DEF Committing
  <2> QED BY <2>1, <2>2, NothingAsked DEF PipelineInv, OperationStands
<1>3. TypeOK'
  BY <1>1, <1>2 DEF PipelineInv, TypeOK, Pcs
<1>4. Sound(journal)' /\ MemoryStands' /\ NeverRefused'
  BY <1>1, MemoryLeft DEF PipelineInv, Sound
<1>5. OperationStands'
  BY <1>1, <1>2 DEF OperationStands, Committing
<1>6. StageStands'
  BY <1>1 DEF StageStands
<1>7. SealStands' /\ JudgesReadTheSeal'
  BY <1>1 DEF PipelineInv, SealStands, JudgesReadTheSeal
<1> QED BY <1>3, <1>4, <1>5, <1>6, <1>7 DEF PipelineInv

(* The end of any other child, whose result is asked for, keeps the invariant. *)
LEMMA ObservedKeeps ==
  ASSUME PipelineInv, Observed
  PROVE  PipelineInv'
<1> DEFINE r == Result
           next == [Step(state) EXCEPT !.results = @ \cup {r},
                             !.phase = CASE r.role = "plan-review" ->
                                              IF r.outcome = "pass" THEN "AWAITING_HUMAN" ELSE "REASSESS_REQUIRED"
                                         [] r.role = "author" -> Corrected(state)
                                         [] OTHER -> @]
<1>1. /\ pc = "observing" /\ pc' = "recording" /\ Live(since) /\ ~(stage[1] = "author" /\ child.status = "completed")
      /\ journal' = journal /\ store' = store /\ state' = state
      /\ UNCHANGED <<stopped, epoch, closing, stage, since, child, test, workspace, custody, finished>>
  BY DEF Observed, disk, control, op, files
<1>2. /\ r.role = stage[1] /\ r.generation = stage[2] /\ r.outcome = Outcome /\ r.finding = child.submission.finding
      /\ r.cites = IF Outcome = "pass" THEN child.submission.cites ELSE {}
  BY DEF Result
<1>3. Ask("RESULT_RECORDED", next, since)
  <2>1. next = [Step(state) EXCEPT !.results = @ \cup {Result},
                             !.phase = CASE stage[1] = "plan-review" ->
                                              IF Outcome = "pass" THEN "AWAITING_HUMAN" ELSE "REASSESS_REQUIRED"
                                         [] stage[1] = "author" -> Corrected(state)
                                         [] OTHER -> @]
    BY <1>2
  <2> HIDE DEF next
  <2> QED BY <2>1 DEF Observed
<1>4. /\ ~stopped /\ store = "open" /\ journal = state /\ Sound(state) /\ since = 0
      /\ commit.step # "written" /\ test = NoTest
  <2>1. pc \notin Committing /\ pc # "running"
    BY <1>1 DEF Committing
  <2> QED BY <1>1, <2>1, AtRest DEF PipelineInv, OperationStands
<1>5. /\ Staged(state) /\ state \in States /\ stage \in Roles \X Generations
      /\ child \in ChildType /\ child.status \in {"completed", "broken"}
      /\ child.submission.pass => child.submission.finding # "open"
      /\ child.submission.cites \subseteq {e.of : e \in CurrentEvidence(state)}
  <2>1. Staged(state) /\ state \in States
    BY <1>1 DEF PipelineInv, StageStands, Staged, TypeOK
  <2>2. stage \in Roles \X Generations
    BY <2>1 DEF PipelineInv, TypeOK, Staged, Roles, Judges
  <2>3. child \in ChildType
    BY <1>1 DEF PipelineInv, TypeOK, OperationStands
  <2>4. child.status \in {"completed", "broken"}
    BY <1>1, <2>3 DEF PipelineInv, OperationStands, ChildType
  <2>5. /\ child.submission.pass => child.submission.finding # "open"
        /\ child.submission.cites \subseteq {e.of : e \in CurrentEvidence(state)}
    BY <1>1 DEF PipelineInv, OperationStands
  <2> QED BY <2>1, <2>2, <2>3, <2>4, <2>5
<1>6. /\ Outcome \in {"pass", "fail", "broken"}
      /\ Outcome = "pass" => child.submission.pass
      /\ stage[1] = "author" => Outcome = "broken"
  BY <1>1, <1>5 DEF Outcome
<1>7. r \in Results
  <2>1. child.submission \in SubmissionType
    BY <1>5 DEF ChildType
  <2>2. /\ stage[1] \in Roles /\ stage[2] \in Generations
        /\ child.submission.finding \in {"none", "open", "resolved"}
        /\ (IF Outcome = "pass" THEN child.submission.cites ELSE {}) \in SUBSET (Commands \cup {Frozen})
    BY <1>5, <2>1 DEF SubmissionType, Findings
  <2> QED BY <1>6, <2>2 DEF Result, Results
<1> HIDE DEF r
<1>8. /\ <<r.role, r.generation>> \in state.assignments /\ ResultsOf(state, r.role, r.generation) = {}
      /\ r.outcome = "pass" => r.finding # "open"
      /\ state.phase = PhaseOf(r.role) /\ (r.role = "author" => r.outcome = "broken")
      /\ r.generation = state.generation
  <2>1. stage = <<stage[1], stage[2]>>
    BY <1>5
  <2> QED BY <1>2, <1>5, <1>6, <2>1 DEF Staged
<1>9. r.cites \subseteq {e.of : e \in {x \in state.evidence : x.generation = r.generation}}
  BY <1>2, <1>5, <1>8 DEF CurrentEvidence
<1>10. next \in States /\ Follows(state, "RESULT_RECORDED", next) /\ (r.role \in Judges => next.phase = state.phase)
  <2>1. next = [Step(state) EXCEPT !.results = @ \cup {r},
                             !.phase = CASE r.role = "plan-review" ->
                                              IF r.outcome = "pass" THEN "AWAITING_HUMAN" ELSE "REASSESS_REQUIRED"
                                         [] r.role = "author" -> Corrected(state)
                                         [] OTHER -> @]
    OBVIOUS
  <2> HIDE DEF next
  <2> QED BY <1>4, <1>5, <1>7, <1>8, <1>9, <2>1, ResultFollows
<1> HIDE DEF next
<1>11. Lawful("RESULT_RECORDED", next) /\ "RESULT_RECORDED" \in Events
  BY <1>4, <1>10 DEF Lawful, Events
<1>12. /\ commit' \in CommitType /\ commit' # NoCommit /\ commit'.type = "RESULT_RECORDED" /\ commit'.next = next
       /\ MemoryStands' /\ NeverRefused'
  BY <1>1, <1>3, <1>4, <1>10, <1>11, MemoryAsked
<1>13. TypeOK'
  BY <1>1, <1>12 DEF PipelineInv, TypeOK, Pcs, Committing
<1>14. Sound(journal)'
  BY <1>1 DEF PipelineInv, Sound
<1>15. OperationStands'
  <2>1. journal.phase # "DIAGNOSTIC_READY"
    BY <1>1 DEF PipelineInv, OperationStands
  <2> QED BY <1>1, <1>4, <1>12, <2>1 DEF OperationStands, TypesAt
<1>16. StageStands'
  <2>1. stage[1] \in Roles /\ (stage[1] \in Judges => next.phase \in {"VALIDATING", "REVIEWING"})
    BY <1>2, <1>5, <1>8, <1>10 DEF PhaseOf, Judges
  <2> QED BY <1>1, <1>12, <2>1 DEF StageStands
<1>17. SealStands' /\ JudgesReadTheSeal'
  BY <1>1 DEF PipelineInv, SealStands, JudgesReadTheSeal
<1> QED BY <1>12, <1>13, <1>14, <1>15, <1>16, <1>17 DEF PipelineInv

(* A result on record, after which a judged candidate is to be verified, keeps the invariant. *)
LEMMA RecordedKeeps ==
  ASSUME PipelineInv, Recorded
  PROVE  PipelineInv'
<1>1. /\ pc = "recording" /\ Acknowledged /\ child' = NoChild
      /\ workspace' = (IF stage[1] = "author" THEN Revoked ELSE workspace)
      /\ pc' = (IF stage[1] \in Judges /\ Judged(commit.next) THEN "verifying" ELSE "idle")
      /\ journal' = journal /\ store' = store
      /\ UNCHANGED <<stopped, epoch, closing, stage, since, test, custody, finished>>
  BY DEF Recorded, disk, control, op
<1>2. /\ commit' = NoCommit /\ MemoryStands' /\ NeverRefused' /\ Sound(journal)'
      /\ state' \in States \cup {NoState} /\ state' = commit.next
  BY <1>1, Settled, MemoryWritten
<1>3. workspace' \in {workspace, "none", "revoked"} /\ pc' \in {"verifying", "idle"}
  BY <1>1 DEF Revoked
<1>4. TypeOK'
  BY <1>1, <1>2, <1>3 DEF PipelineInv, TypeOK, Pcs
<1>5. OperationStands'
  BY <1>1, <1>2, <1>3 DEF PipelineInv, OperationStands, Committing
<1>6. StageStands'
  BY <1>1, <1>2, <1>3 DEF PipelineInv, StageStands
<1>7. SealStands' /\ JudgesReadTheSeal'
  BY <1>1, <1>3 DEF PipelineInv, SealStands, JudgesReadTheSeal
<1> QED BY <1>2, <1>4, <1>5, <1>6, <1>7 DEF PipelineInv

(* The decision on readiness keeps the invariant. *)
LEMMA VerifiedKeeps ==
  ASSUME PipelineInv, Verified
  PROVE  PipelineInv'
<1>1. /\ pc = "verifying" /\ pc' = "finalizing" /\ Live(since)
      /\ journal' = journal /\ store' = store /\ state' = state
      /\ UNCHANGED <<stopped, epoch, closing, stage, since, child, test, workspace, custody, finished>>
  BY DEF Verified, disk, control, op, files
<1>2. /\ ~stopped /\ store = "open" /\ journal = state /\ Sound(state) /\ since = 0
      /\ commit.step # "written" /\ test = NoTest /\ child = NoChild
  <2>1. pc \notin Committing /\ pc # "running"
    BY <1>1 DEF Committing
  <2> QED BY <1>1, <2>1, AtRest DEF PipelineInv, OperationStands
<1>3. stage[1] \in Judges /\ state.phase \in {"VALIDATING", "REVIEWING"} /\ Judged(state)
  BY <1>1 DEF PipelineInv, StageStands
<1>4. state \in States /\ state.phase \notin Terminal
  BY <1>3 DEF PipelineInv, TypeOK, NoState, Terminal
<1>5. /\ commit' \in CommitType /\ commit' # NoCommit /\ commit'.type \in {"DIAGNOSTIC_READY", "RESULT_RECORDED"}
      /\ MemoryStands' /\ NeverRefused'
  <2>1. CASE EvidenceReady /\ Ask("DIAGNOSTIC_READY", [Step(state) EXCEPT !.phase = "DIAGNOSTIC_READY"], since)
    <3> DEFINE next == [Step(state) EXCEPT !.phase = "DIAGNOSTIC_READY"]
    <3>1. "DIAGNOSTIC_READY" \in Phases /\ FactsReady(state)
      BY <2>1 DEF Phases, EvidenceReady
    <3>2. next \in States /\ Follows(state, "DIAGNOSTIC_READY", next)
      BY <1>2, <1>3, <1>4, <3>1, PhaseFollows
    <3>3. Ask("DIAGNOSTIC_READY", next, since)
      BY <2>1
    <3> HIDE DEF next
    <3>4. Lawful("DIAGNOSTIC_READY", next) /\ "DIAGNOSTIC_READY" \in Events
      BY <1>2, <3>2 DEF Lawful, Events
    <3> QED BY <1>1, <1>2, <3>2, <3>3, <3>4, MemoryAsked
  <2>2. CASE Ask("RESULT_RECORDED", [Step(state) EXCEPT !.phase = Corrected(state)], since)
    <3> DEFINE next == [Step(state) EXCEPT !.phase = Corrected(state)]
    <3>1. Corrected(state) \in Phases
      BY DEF Corrected, Phases, Terminal
    <3>2. next \in States /\ Follows(state, "RESULT_RECORDED", next)
      BY <1>2, <1>3, <1>4, <3>1, PhaseFollows
    <3>3. Ask("RESULT_RECORDED", next, since)
      BY <2>2
    <3> HIDE DEF next
    <3>4. Lawful("RESULT_RECORDED", next) /\ "RESULT_RECORDED" \in Events
      BY <1>2, <3>2 DEF Lawful, Events
    <3> QED BY <1>1, <1>2, <3>2, <3>3, <3>4, MemoryAsked
  <2> QED BY <2>1, <2>2 DEF Verified
<1>6. TypeOK'
  BY <1>1, <1>5 DEF PipelineInv, TypeOK, Pcs, Committing
<1>7. Sound(journal)'
  BY <1>1 DEF PipelineInv, Sound
<1>8. OperationStands'
  BY <1>1, <1>2, <1>3, <1>5 DEF OperationStands, TypesAt
<1>9. StageStands'
  BY <1>1, <1>3 DEF StageStands
<1>10. SealStands' /\ JudgesReadTheSeal'
  BY <1>1 DEF PipelineInv, SealStands, JudgesReadTheSeal
<1> QED BY <1>5, <1>6, <1>7, <1>8, <1>9, <1>10 DEF PipelineInv

(* Readiness on record, or another attempt, keeps the invariant. *)
LEMMA FinalizedKeeps ==
  ASSUME PipelineInv, Finalized
  PROVE  PipelineInv'
<1>1. /\ pc = "finalizing" /\ Acknowledged /\ pc' = "idle"
      /\ (workspace' = workspace /\ custody' = custody) \/ (workspace' = Revoked /\ custody' = 0)
      /\ journal' = journal /\ store' = store
      /\ UNCHANGED <<stopped, epoch, closing, stage, since, child, test, finished>>
  BY DEF Finalized, disk, control, op, files
<1>2. /\ commit' = NoCommit /\ MemoryStands' /\ NeverRefused' /\ Sound(journal)'
      /\ state' \in States \cup {NoState}
  BY <1>1, Settled
<1>3. workspace' \in {workspace, "none", "revoked"} /\ custody' \in {custody, 0}
  BY <1>1 DEF Revoked
<1>4. TypeOK'
  BY <1>1, <1>2, <1>3 DEF PipelineInv, TypeOK, Pcs
<1>5. OperationStands'
  BY <1>1, <1>2 DEF PipelineInv, OperationStands, Committing
<1>6. StageStands'
  BY <1>1 DEF StageStands
<1>7. SealStands' /\ JudgesReadTheSeal'
  BY <1>1, <1>3 DEF PipelineInv, SealStands, JudgesReadTheSeal
<1> QED BY <1>2, <1>4, <1>5, <1>6, <1>7 DEF PipelineInv
-----------------------------------------------------------------------------
(* The beginning of a seal keeps the invariant. *)
LEMMA SealBeginsKeeps ==
  ASSUME PipelineInv, SealBegins
  PROVE  PipelineInv'
<1>1. /\ pc = "idle" /\ pc' = "freezing" /\ Live(epoch) /\ since' = epoch
      /\ state.phase = "AUTHORING" /\ finished = state.generation
      /\ journal' = journal /\ store' = store /\ state' = state /\ commit' = commit
      /\ UNCHANGED <<stopped, epoch, closing, stage, child, test, workspace, custody, finished>>
  BY DEF SealBegins, SealOpen, Begin, disk, control, files
<1>2. /\ journal = state /\ epoch = 0 /\ commit = NoCommit /\ child = NoChild /\ test = NoTest
  <2>1. pc \notin Committing /\ pc # "running"
    BY <1>1 DEF Committing
  <2> QED BY <1>1, <2>1, AtRest DEF PipelineInv, OperationStands
<1>3. TypeOK'
  BY <1>1 DEF PipelineInv, TypeOK, Pcs
<1>4. Sound(journal)' /\ MemoryStands' /\ NeverRefused'
  BY <1>1, <1>2, MemoryLeft DEF PipelineInv, Sound
<1>5. OperationStands'
  BY <1>1, <1>2 DEF OperationStands, Committing
<1>6. StageStands'
  BY <1>1 DEF StageStands
<1>7. SealStands' /\ JudgesReadTheSeal'
  BY <1>1 DEF PipelineInv, SealStands, JudgesReadTheSeal
<1> QED BY <1>3, <1>4, <1>5, <1>6, <1>7 DEF PipelineInv

(* A seal that fails, or that comes too early, keeps the invariant. *)
LEMMA PanicKeeps ==
  ASSUME PipelineInv, SealTooEarly \/ SealFails
  PROVE  PipelineInv'
<1>1. /\ pc \in {"idle", "freezing", "sealing"} /\ pc' = "idle" /\ stopped' /\ stopped' = TRUE /\ epoch' = epoch + 1
      /\ store' = (IF store = "open" THEN "revoked" ELSE store)
      /\ workspace' = Revoked /\ custody' = 0 /\ finished' = 0 /\ commit' = NoCommit
      /\ journal' = journal /\ state' = state /\ UNCHANGED <<closing, stage, since, child, test>>
  BY DEF SealTooEarly, SealFails, Panic, op
<1>2. commit.step # "written" \/ stopped \/ store # "open"
  <2>1. CASE pc \in {"idle", "freezing"}
    <3>1. pc \notin Committing /\ pc # "running"
      BY <2>1 DEF Committing
    <3> QED BY <3>1, NothingAsked DEF PipelineInv
  <2>2. CASE Lost
    BY <2>2, LostIsOver
  <2> QED BY <2>1, <2>2 DEF SealTooEarly, SealFails
<1>3. MemoryStands' /\ NeverRefused'
  BY <1>1, <1>2, MemoryDropped
<1>4. TypeOK'
  BY <1>1 DEF PipelineInv, TypeOK, Pcs, Revoked
<1>5. Sound(journal)'
  BY <1>1 DEF PipelineInv, Sound
<1>6. OperationStands'
  BY <1>1 DEF PipelineInv, OperationStands, Committing
<1>7. StageStands'
  BY <1>1 DEF StageStands
<1>8. SealStands' /\ JudgesReadTheSeal'
  BY <1>1 DEF SealStands, JudgesReadTheSeal
<1> QED BY <1>3, <1>4, <1>5, <1>6, <1>7, <1>8 DEF PipelineInv

(* The handover of the frozen workspace keeps the invariant. *)
LEMMA HandoverKeeps ==
  ASSUME PipelineInv, Handover
  PROVE  PipelineInv'
<1> DEFINE next == [Step(state) EXCEPT !.phase = "FROZEN", !.candidate = finished,
                           !.evidence = @ \cup {[of |-> Frozen, generation |-> finished, passed |-> TRUE]},
                           !.results = @ \cup {[role |-> "author", generation |-> finished, outcome |-> "fail",
                                                finding |-> "none", cites |-> {}]}]
<1>1. /\ pc = "freezing" /\ pc' = "sealing" /\ Live(epoch) /\ Ask("CANDIDATE_SEALED", next, epoch)
      /\ workspace' = "sealed" /\ custody' = finished
      /\ journal' = journal /\ store' = store /\ state' = state
      /\ UNCHANGED <<stopped, epoch, closing, stage, since, child, test, finished>>
  BY DEF Handover, Freeze, disk, control, op
<1>2. /\ ~stopped /\ store = "open" /\ journal = state /\ Sound(state) /\ epoch = 0 /\ since = 0
      /\ commit.step # "written" /\ test = NoTest /\ child = NoChild
  <2>1. pc \notin Committing /\ pc # "running"
    BY <1>1 DEF Committing
  <2> QED BY <1>1, <2>1, AtRest DEF PipelineInv, OperationStands
<1>3. state \in States /\ state.phase = "AUTHORING" /\ finished = state.generation
  BY <1>1 DEF PipelineInv, StageStands, TypeOK, NoState
<1>4. next \in States /\ Follows(state, "CANDIDATE_SEALED", next) /\ next.candidate = state.generation
      /\ next.generation = state.generation
  BY <1>2, <1>3, SealFollows
<1> HIDE DEF next
<1>5. Lawful("CANDIDATE_SEALED", next) /\ "CANDIDATE_SEALED" \in Events
  BY <1>2, <1>4 DEF Lawful, Events
<1>6. /\ commit' \in CommitType /\ commit' # NoCommit /\ commit'.type = "CANDIDATE_SEALED" /\ commit'.next = next
      /\ MemoryStands' /\ NeverRefused'
  BY <1>1, <1>2, <1>4, <1>5, MemoryAsked
<1>7. TypeOK'
  BY <1>1, <1>6 DEF PipelineInv, TypeOK, Pcs, Committing
<1>8. Sound(journal)'
  BY <1>1 DEF PipelineInv, Sound
<1>9. OperationStands'
  BY <1>1, <1>2, <1>3, <1>6 DEF OperationStands, TypesAt
<1>10. StageStands'
  BY <1>1 DEF StageStands
<1>11. SealStands' /\ JudgesReadTheSeal'
  BY <1>1, <1>2, <1>3, <1>4, <1>6 DEF SealStands, JudgesReadTheSeal
<1> QED BY <1>6, <1>7, <1>8, <1>9, <1>10, <1>11 DEF PipelineInv

(* A seal on record keeps the invariant. *)
LEMMA SealedKeeps ==
  ASSUME PipelineInv, Sealed
  PROVE  PipelineInv'
<1>1. /\ pc = "sealing" /\ Acknowledged /\ pc' = "idle" /\ finished' = 0
      /\ journal' = journal /\ store' = store
      /\ UNCHANGED <<stopped, epoch, closing, stage, since, child, test, workspace, custody>>
  BY DEF Sealed, disk, control, op, files
<1>2. /\ commit' = NoCommit /\ MemoryStands' /\ NeverRefused' /\ Sound(journal)'
      /\ state' \in States \cup {NoState}
  BY <1>1, Settled
<1>3. TypeOK'
  BY <1>1, <1>2 DEF PipelineInv, TypeOK, Pcs
<1>4. OperationStands'
  BY <1>1, <1>2 DEF PipelineInv, OperationStands, Committing
<1>5. StageStands'
  BY <1>1 DEF StageStands
<1>6. SealStands' /\ JudgesReadTheSeal'
  BY <1>1 DEF PipelineInv, SealStands, JudgesReadTheSeal
<1> QED BY <1>2, <1>3, <1>4, <1>5, <1>6 DEF PipelineInv
-----------------------------------------------------------------------------
(* A close, which may come at any moment, keeps the invariant. *)
LEMMA CloseKeeps ==
  ASSUME PipelineInv, Close
  PROVE  PipelineInv'
<1>1. /\ closing' = "draining" /\ stopped' = TRUE /\ epoch' = epoch + 1 /\ workspace' = Revoked
      /\ journal' = journal /\ store' = store /\ state' = state /\ commit' = commit
      /\ UNCHANGED <<pc, stage, since, child, test, custody, finished>>
  BY DEF Close, disk, op
<1>2. workspace' # "open" /\ workspace' \in {"none", "revoked"}
  BY <1>1 DEF Revoked
<1>3. TypeOK'
  BY <1>1, <1>2 DEF PipelineInv, TypeOK
<1>4. Sound(journal)' /\ NeverRefused'
  BY <1>1 DEF PipelineInv, Sound, NeverRefused
<1>5. MemoryStands'
  <2>1. Lawful(commit.type, commit.next) => Lawful(commit.type, commit.next)'
    BY <1>1 DEF Lawful
  <2> QED BY <1>1, <2>1 DEF PipelineInv, MemoryStands
<1>6. OperationStands'
  BY <1>1 DEF PipelineInv, OperationStands
<1>7. StageStands'
  BY <1>1 DEF PipelineInv, StageStands, StageOpen, Accepted, Staged
<1>8. SealStands' /\ JudgesReadTheSeal'
  BY <1>1, <1>2 DEF PipelineInv, SealStands, JudgesReadTheSeal
<1> QED BY <1>3, <1>4, <1>5, <1>6, <1>7, <1>8 DEF PipelineInv

(* Letting go of the journal keeps the invariant. *)
LEMMA ClosedKeeps ==
  ASSUME PipelineInv, Closed
  PROVE  PipelineInv'
<1>1. /\ pc = "idle" /\ closing' = "closed" /\ workspace' = Revoked
      /\ store' = (IF store = "open" THEN "revoked" ELSE store)
      /\ journal' = journal /\ state' = state /\ commit' = commit
      /\ UNCHANGED <<stopped, epoch, pc, stage, since, child, test, custody, finished>>
  BY DEF Closed, op
<1>2. workspace' # "open" /\ workspace' \in {"none", "revoked"}
  BY <1>1 DEF Revoked
<1>3. TypeOK'
  BY <1>1, <1>2 DEF PipelineInv, TypeOK
<1>4. Sound(journal)' /\ NeverRefused'
  BY <1>1 DEF PipelineInv, Sound, NeverRefused
<1>5. MemoryStands'
  BY <1>1 DEF PipelineInv, MemoryStands
<1>6. OperationStands'
  BY <1>1 DEF PipelineInv, OperationStands
<1>7. StageStands'
  BY <1>1 DEF StageStands
<1>8. SealStands' /\ JudgesReadTheSeal'
  BY <1>1, <1>2 DEF PipelineInv, SealStands, JudgesReadTheSeal
<1> QED BY <1>3, <1>4, <1>5, <1>6, <1>7, <1>8 DEF PipelineInv
-----------------------------------------------------------------------------
(* A new controller and its journal agree that there is no job. *)
LEMMA PipelineInit == Init => PipelineInv
<1> SUFFICES ASSUME Init PROVE PipelineInv
  OBVIOUS
<1> USE DEF Init
<1>1. TypeOK
  BY DEF TypeOK, Pcs
<1>2. Sound(journal) /\ MemoryStands /\ NeverRefused /\ JudgesReadTheSeal
  BY DEF Sound, MemoryStands, NeverRefused, JudgesReadTheSeal, NoCommit
<1>3. OperationStands
  BY DEF OperationStands, Committing, NoState, NoTest
<1>4. StageStands /\ SealStands
  BY DEF StageStands, SealStands, NoState
<1> QED BY <1>1, <1>2, <1>3, <1>4 DEF PipelineInv

(* A step that changes nothing keeps the invariant. *)
LEMMA PipelineStutters ==
  ASSUME PipelineInv, UNCHANGED vars
  PROVE  PipelineInv'
<1>1. /\ journal' = journal /\ store' = store /\ state' = state /\ commit' = commit
      /\ UNCHANGED <<stopped, epoch, closing, pc, stage, since, child, test, workspace, custody, finished>>
  BY DEF vars
<1>2. TypeOK' /\ Sound(journal)'
  BY <1>1 DEF PipelineInv, TypeOK, Sound
<1>3. MemoryStands' /\ NeverRefused'
  BY <1>1, MemoryLeft
<1>4. OperationStands'
  BY <1>1 DEF PipelineInv, OperationStands
<1>5. StageStands'
  BY <1>1 DEF PipelineInv, StageStands, StageOpen, Accepted, Staged
<1>6. SealStands' /\ JudgesReadTheSeal'
  BY <1>1 DEF PipelineInv, SealStands, JudgesReadTheSeal
<1> QED BY <1>2, <1>3, <1>4, <1>5, <1>6 DEF PipelineInv

(* Every step of the pipeline keeps the invariant. *)
LEMMA PipelineStep == PipelineInv /\ [Next]_vars => PipelineInv'
<1> SUFFICES ASSUME PipelineInv, [Next]_vars PROVE PipelineInv'
  OBVIOUS
<1>1. CASE UNCHANGED vars
  BY <1>1, PipelineStutters
<1>2. CASE Commits
  BY <1>2, StoreAppendsKeeps, StoreFailsKeeps, CommitDroppedKeeps DEF Commits
<1>3. CASE Settles
  BY <1>3, CommittedKeeps, WorkspaceClosedKeeps, WorkspaceNotClosedKeeps, AssignedKeeps, StageStartsKeeps,
     FailureKeeps, AuthorCompletedKeeps, ObservedKeeps, RecordedKeeps, VerifiedKeeps, FinalizedKeeps,
     HandoverKeeps, SealedKeeps, PanicKeeps, ClosedKeeps DEF Settles
<1>4. CASE Tools
  BY <1>4, TestLostKeeps, TestRegisteredKeeps, TestEndsKeeps DEF Tools
<1>5. CASE Ends
  BY <1>5, ChildEndsKeeps DEF Ends
<1>6. CASE Requests
  BY <1>6, ProposeKeeps, SealBeginsKeeps, PanicKeeps, CloseKeeps, DecideKeeps, BeginStageKeeps, SubmitKeeps,
     RunTestKeeps DEF Requests
<1> QED BY <1>1, <1>2, <1>3, <1>4, <1>5, <1>6 DEF Next

(* The controller and its journal never disagree, no event is ever refused, and the judges
   read what was sealed (Pipeline.tla: PipelineInv), in every job of every budget. *)
THEOREM PipelineSafe == Spec => []PipelineInv
<1> QED BY PipelineInit, PipelineStep, PTL DEF Spec
-----------------------------------------------------------------------------
(* Nothing but a stop follows on a job that is ready. *)
LEMMA ReadyIsFinal ==
  ASSUME NEW p \in States, NEW s, NEW type, Follows(p, type, s), p.phase = "DIAGNOSTIC_READY"
  PROVE  type = "STOPPED"
<1>1. p # NoState
  BY AttemptsAreCounted
<1>2. ~AttemptReserved(p, s) /\ ~CandidateSealed(p, s) /\ ~EvidenceRegistered(p, s)
      /\ ~HumanDecided(p, s) /\ ~AuthorFailed(p, s) /\ ~DiagnosticReady(p, s)
  BY DEF AttemptReserved, CandidateSealed, EvidenceRegistered, HumanDecided, AuthorFailed, DiagnosticReady
<1>3. ~AssignmentCreated(p, s)
  BY DEF AssignmentCreated
<1>4. ~ResultRecorded(p, s)
  BY DEF ResultRecorded
<1> QED BY <1>1, <1>2, <1>3, <1>4 DEF Follows

(* Only an append, or its failure, moves the journal. *)
LEMMA JournalMoves ==
  ASSUME [Next]_vars
  PROVE  \/ journal' = journal
         \/ commit.step = "asked" /\ store = "open" /\ journal' = commit.next
<1>1. CASE UNCHANGED vars
  BY <1>1 DEF vars
<1>2. CASE Commits
  <2>1. StoreAppends => journal' = journal \/ (commit.step = "asked" /\ store = "open" /\ journal' = commit.next)
    BY DEF StoreAppends
  <2>2. StoreFails => journal' = journal \/ (commit.step = "asked" /\ store = "open" /\ journal' = commit.next)
    BY DEF StoreFails
  <2>3. CommitDropped => journal' = journal
    BY DEF CommitDropped, disk
  <2> QED BY <1>2, <2>1, <2>2, <2>3 DEF Commits
<1>3. CASE Settles
  <2>1. (StageNotStarted \/ ObservationRefused \/ VerificationFails \/ NotCommitted) => journal' = journal
    BY DEF StageNotStarted, ObservationRefused, VerificationFails, NotCommitted, Catch, disk
  <2>2. (Committed \/ WorkspaceClosed \/ WorkspaceNotClosed \/ Assigned \/ StageStarts) => journal' = journal
    BY DEF Committed, WorkspaceClosed, WorkspaceNotClosed, Assigned, StageStarts, disk
  <2>3. (AuthorCompleted \/ Observed \/ Recorded \/ Verified \/ Finalized) => journal' = journal
    BY DEF AuthorCompleted, Observed, Recorded, Verified, Finalized, disk
  <2>4. (Handover \/ Sealed \/ SealFails \/ Closed) => journal' = journal
    BY DEF Handover, Sealed, SealFails, Panic, Closed, disk
  <2> QED BY <1>3, <2>1, <2>2, <2>3, <2>4 DEF Settles
<1>4. CASE Tools
  BY <1>4 DEF Tools, TestLost, TestRegistered, TestEnds, disk
<1>5. CASE Ends
  BY <1>5 DEF Ends, ChildEnds, disk
<1>6. CASE Requests
  BY <1>6 DEF Requests, Propose, SealBegins, SealTooEarly, Panic, Close, Decide, BeginStage, Submit, RunTest, disk
<1> QED BY <1>1, <1>2, <1>3, <1>4, <1>5, <1>6 DEF Next

(* What the journal has decided on a job that is ready. *)
Decided == journal.phase = "DIAGNOSTIC_READY" => FactsReady(journal)

(* Readiness is decided on the facts, and they stay as they were. *)
LEMMA DecidedStep == PipelineInv /\ Decided /\ [Next]_vars => Decided'
<1> SUFFICES ASSUME PipelineInv, Decided, [Next]_vars PROVE Decided'
  OBVIOUS
<1>1. CASE journal' = journal
  BY <1>1 DEF Decided
<1>2. CASE commit.step = "asked" /\ store = "open" /\ journal' = commit.next
  <2> SUFFICES ASSUME commit.next.phase = "DIAGNOSTIC_READY" PROVE FactsReady(commit.next)
    BY <1>2 DEF Decided
  <2>1. /\ commit.next \in States /\ Follows(journal, commit.type, commit.next)
        /\ (journal.phase = "DIAGNOSTIC_READY" \/ DiagnosticReady(journal, commit.next))
    BY <1>2, Appending
  <2>2. journal \in States
    <3>1. journal # NoState
      <4>1. journal = NoState => commit.next.phase = "PLANNING"
        BY <2>1 DEF Follows, Proposed
      <4> QED BY <4>1
    <3> QED BY <3>1 DEF PipelineInv, TypeOK
  <2>3. journal.phase # "DIAGNOSTIC_READY"
    <3> SUFFICES ASSUME journal.phase = "DIAGNOSTIC_READY" PROVE FALSE
      OBVIOUS
    <3>1. commit.type = "STOPPED"
      BY <2>1, <2>2, ReadyIsFinal
    <3> QED BY <1>2, <3>1 DEF PipelineInv, MemoryStands, Lawful
  <2>4. FactsReady(journal) /\ commit.next = [journal EXCEPT !.revision = @ + 1, !.phase = "DIAGNOSTIC_READY"]
    BY <2>1, <2>3 DEF DiagnosticReady
  <2>5. /\ commit.next.candidate = journal.candidate /\ commit.next.decision = journal.decision
        /\ commit.next.generation = journal.generation /\ commit.next.evidence = journal.evidence
        /\ commit.next.results = journal.results
    BY <2>2, <2>4 DEF States
  <2>6. /\ CurrentEvidence(commit.next) = CurrentEvidence(journal)
        /\ \A role \in Judges : ResultsOf(commit.next, role, commit.next.generation) = ResultsOf(journal, role, journal.generation)
        /\ OpenBlocker(commit.next) = OpenBlocker(journal)
    BY <2>5 DEF CurrentEvidence, ResultsOf, OpenBlocker
  <2> QED BY <2>4, <2>5, <2>6 DEF FactsReady
<1> QED BY <1>1, <1>2, JournalMoves

(* The facts on which readiness was decided are what readiness promises. *)
LEMMA DecidedIsEarned == PipelineInv /\ Decided => ReadyIsEarned
<1> SUFFICES ASSUME PipelineInv, FactsReady(journal), journal.phase = "DIAGNOSTIC_READY"
             PROVE  /\ journal.candidate = journal.generation /\ journal.decision = "authorize"
                    /\ \A c \in Commands : [of |-> c, generation |-> journal.generation, passed |-> TRUE] \in journal.evidence
                    /\ \A role \in Judges : \E r \in ResultsOf(journal, role, journal.generation) :
                         r.outcome = "pass" /\ Commands \cup {Frozen} \subseteq r.cites
                    /\ \A r \in journal.results : r.finding = "open" =>
                         \E q \in journal.results :
                           q.role = r.role /\ q.generation > r.generation /\ q.finding = "resolved" /\ q.outcome # "broken"
                    /\ child = NoChild /\ test = NoTest
  BY DEF Decided, ReadyIsEarned
<1> DEFINE current == CurrentEvidence(journal)
<1>1. journal \in States /\ journal # NoState /\ journal.candidate \in {0, journal.generation}
  BY DEF PipelineInv, TypeOK, NoState, Sound
<1>2. journal.candidate = journal.generation /\ journal.decision = "authorize"
  BY <1>1 DEF FactsReady
<1>3. \A c \in Commands : \E e \in current : e.of = c /\ e.passed
  <2> SUFFICES ASSUME NEW c \in Commands PROVE \E e \in current : e.of = c /\ e.passed
    OBVIOUS
  <2> DEFINE ran == {e \in current : e.of = c}
  <2>1. Cardinality(ran) = 1 /\ \A e \in ran : e.passed
    BY DEF FactsReady
  <2>2. ran # {}
    BY <2>1, FS_EmptySet
  <2> QED BY <2>1, <2>2
<1>4. \E e \in current : e.of = Frozen
  <2> DEFINE frozen == {e \in current : e.of = Frozen}
  <2>1. Cardinality(frozen) = 1
    BY DEF FactsReady
  <2>2. frozen # {}
    BY <2>1, FS_EmptySet
  <2> QED BY <2>2
<1>5. ASSUME NEW c \in Commands
      PROVE  [of |-> c, generation |-> journal.generation, passed |-> TRUE] \in journal.evidence
  <2>1. PICK e \in current : e.of = c /\ e.passed
    BY <1>3
  <2>2. e \in Evidence /\ e \in journal.evidence /\ e.generation = journal.generation
    BY <1>1, <2>1 DEF CurrentEvidence, States
  <2>3. e = [of |-> c, generation |-> journal.generation, passed |-> TRUE]
    <3>1. e.passed \in BOOLEAN /\ e = [of |-> e.of, generation |-> e.generation, passed |-> e.passed]
      BY <2>2 DEF Evidence
    <3>2. e.passed = TRUE
      BY <2>1, <3>1
    <3> QED BY <2>1, <2>2, <3>1, <3>2
  <2> QED BY <2>2, <2>3
<1>6. ASSUME NEW role \in Judges
      PROVE  \E r \in ResultsOf(journal, role, journal.generation) :
               r.outcome = "pass" /\ Commands \cup {Frozen} \subseteq r.cites
  <2>1. PICK r \in ResultsOf(journal, role, journal.generation) :
          r.outcome = "pass" /\ {e.of : e \in current} \subseteq r.cites
    BY DEF FactsReady
  <2>2. Commands \cup {Frozen} \subseteq {e.of : e \in current}
    BY <1>3, <1>4
  <2> QED BY <2>1, <2>2
<1>7. ASSUME NEW r \in journal.results, r.finding = "open"
      PROVE  \E q \in journal.results :
               q.role = r.role /\ q.generation > r.generation /\ q.finding = "resolved" /\ q.outcome # "broken"
  <2>1. ~OpenBlocker(journal)
    BY DEF FactsReady
  <2>2. PICK q \in journal.results :
          q.role = r.role /\ q.generation > r.generation /\ q.outcome \in {"pass", "fail"} /\ q.finding = "resolved"
    BY <1>7, <2>1 DEF OpenBlocker
  <2> QED BY <2>2
<1>8. child = NoChild /\ test = NoTest
  BY DEF PipelineInv, OperationStands
<1> QED BY <1>2, <1>5, <1>6, <1>7, <1>8

(* Readiness is earned by the last candidate alone (Pipeline.tla: ReadyIsEarned), in every job
   of every plan and budget. *)
THEOREM ReadinessEarned == Spec => []ReadyIsEarned
<1>1. Init => Decided
  BY DEF Init, Decided, NoState
<1> QED BY <1>1, DecidedStep, DecidedIsEarned, PipelineSafe, PTL DEF Spec
-----------------------------------------------------------------------------
(* What JobMoves says of two records is a step of GovernedJob, or none. *)
LEMMA JobMovesIsAStep ==
  ASSUME JobMoves(journal, journal')
  PROVE  [Job!Next]_<<StageOf(journal), AttemptsOf(journal)>>
<1>1. /\ StageOf(journal)' = StageOf(journal')
      /\ AttemptsOf(journal)' = AttemptsOf(journal')
  OBVIOUS
<1> QED
  BY <1>1 DEF JobMoves, Job!Next, Job!Propose, Job!Grant, Job!Attempt, Job!Freeze, Job!Fail, Job!Pass, Job!End

(* The journal of the pipeline keeps GovernedJob (Pipeline.tla: JobSpec): one grant, a bounded
   number of attempts, each authored and then judged, and an end that is final. *)
THEOREM PipelineIsAJob == Spec => JobSpec
<1>1. Init => Job!Init
  BY DEF Init, Job!Init, StageOf, AttemptsOf, NoState
<1>2. PipelineInv /\ [Next]_vars => [Job!Next]_<<StageOf(journal), AttemptsOf(journal)>>
  <2> SUFFICES ASSUME PipelineInv, [Next]_vars
               PROVE  [Job!Next]_<<StageOf(journal), AttemptsOf(journal)>>
    OBVIOUS
  <2>1. CASE journal' = journal
    BY <2>1
  <2>2. CASE commit.step = "asked" /\ store = "open" /\ journal' = commit.next
    <3>1. JobMoves(journal, journal')
      BY <2>2, Appending
    <3> QED BY <3>1, JobMovesIsAStep
  <2> QED BY <2>1, <2>2, JournalMoves
<1> QED BY <1>1, <1>2, PipelineSafe, PTL DEF Spec, JobSpec, Job!Spec
=============================================================================
