------------------------------ MODULE Iterate ------------------------------
(***************************************************************************)
(* src/src/plugin.mjs as a caller sees it: a task is delegated to a        *)
(* qualified route (orchestrator_delegate) and then reviewed and revised   *)
(* in a bounded loop (orchestrator_iterate), while evidence expires, is    *)
(* renewed or deleted, runs are deleted, the call is aborted and the       *)
(* plugin unloaded (registerLifetimeTool, src/src/cancellation.mjs).       *)
(*                                                                         *)
(* Routing and Verdict are the decisions the loop takes.  A delegation is  *)
(* what module Dispatch shows of one: refused before a record exists, or a *)
(* record that finishes.  A run is named <<"review", n>>, n the cycle.     *)
(*                                                                         *)
(* Where two operators with the same parameters follow each other, the     *)
(* first is a plausible mistake in the second, as in RecordStore.          *)
(***************************************************************************)
EXTENDS Routing, Verdict

CONSTANTS
  Tasks,          \* the tasks a caller may bring
  Replies,        \* what a reviewer may answer
  KnownKeys,      \* routes with an effort that may have evidence
  MaxCycles,      \* the caller's limit (1..3 in the code)
  Compact,        \* whether the caller asks for compaction
  Failover,       \* and for failover
  Spread,         \* where a spread selection begins, -1 without spreading
  Sizes,          \* how long a compaction may be, of OriginalSize
  OriginalSize,
  Validity, LastTime, MaxChanges   \* bounds on evidence, the clock and its changes

ASSUME IterateAssumption ==
  /\ MaxCycles \in 1 .. 3 /\ LastTime \in Nat /\ MaxChanges \in Nat
  /\ Validity \in Nat \ {0}
  /\ Compact \in BOOLEAN /\ Failover \in BOOLEAN /\ Spread \in Nat \cup {-1}

VARIABLES
  task,         \* the task of this caller
  time,         \* the clock
  evidence,     \* the saved qualifications, one per key
  changes,      \* number of changes to them so far
  runs,         \* per run name its record, or Absent
  loop,         \* where the caller's tool call stands
  aborted,      \* the signal of the tool call aborted
  released,     \* the tools were unregistered
  closed        \* the owners were disposed

worldVars == <<time, evidence, changes>>
loopVars == <<task, worldVars, runs, loop, aborted, released, closed>>

Origin == <<"work", 0>>
Cycles == 1 .. MaxCycles
Names == {Origin} \cup ({"review", "revise", "compact"} \X Cycles)
NoName == <<"none", 0>>
Absent == [kind |-> "absent"]

Record(key, issuedAt, available) ==
  [key |-> key, issuedAt |-> issuedAt, expiresAt |-> issuedAt + Validity,
   available |-> available, shown |-> {}, classes |-> BaseDataClasses,
   domain |-> FALSE, attested |-> FALSE]

NoLoop == [at |-> "idle", cycle |-> 0, subject |-> Origin, context |-> NoName,
           chosen |-> Unavailable, compactor |-> Unavailable,
           stopped |-> "none"]

LoopInit ==
  /\ task \in Tasks
  /\ time = 0
  /\ evidence = {Record(key, 1 - Validity, TRUE) : key \in KnownKeys}   \* about to expire
  /\ changes = 0
  /\ runs = [name \in Names |-> Absent]
  /\ loop = NoLoop
  /\ aborted = FALSE
  /\ released = FALSE
  /\ closed = FALSE
-----------------------------------------------------------------------------
(* The world goes on, as long as calls are to come that look at it: time passes, a route
   is qualified again, with or without success, or its evidence is deleted. *)
CallsToCome == loop.at # "done" \/ loop.stopped = "DELEGATED"

TimePasses ==
  /\ CallsToCome
  /\ time < LastTime
  /\ time' = time + 1
  /\ UNCHANGED <<task, evidence, changes, runs, loop, aborted, released, closed>>

Change(key, records) ==
  /\ CallsToCome
  /\ changes < MaxChanges
  /\ changes' = changes + 1
  /\ evidence' = (evidence \ Matching(evidence, key)) \cup records
  /\ UNCHANGED <<task, time, runs, loop, aborted, released, closed>>
Requalified(key) == \E available \in BOOLEAN : Change(key, {Record(key, time, available)})
EvidenceForgotten(key) == Matching(evidence, key) # {} /\ Change(key, {})

Running == {name \in Names : runs[name].kind # "absent" /\ runs[name].state = "RUNNING"}
Referees(name) ==
  {other \in Names : runs[other].kind # "absent" /\ name \in {runs[other].reviews, runs[other].context}}

(* orchestrator_forget of a run, unforced: not while a run is in flight, nor while another
   run refers to it. *)
ForgetRun(name) ==
  /\ CallsToCome
  /\ ~closed
  /\ runs[name] # Absent
  /\ Running = {}
  /\ Referees(name) = {}
  /\ runs' = [runs EXCEPT ![name] = Absent]
  /\ UNCHANGED <<task, worldVars, loop, aborted, released, closed>>

(* The caller gives up. *)
Abort ==
  /\ loop.at \notin {"idle", "done"}
  /\ ~aborted
  /\ aborted' = TRUE
  /\ UNCHANGED <<task, worldVars, runs, loop, released, closed>>

(* release() of registerLifetimeTool: the tool is gone, and its running calls abort.  The
   owners' effect runs before or after: dispatchers refuse from then on, and abort what
   they run. *)
Release ==
  /\ CallsToCome
  /\ ~released
  /\ released' = TRUE
  /\ aborted' = (aborted \/ loop.at \notin {"idle", "done"})
  /\ UNCHANGED <<task, worldVars, runs, loop, closed>>

DisposeOwners ==
  /\ CallsToCome
  /\ ~closed
  /\ closed' = TRUE
  /\ UNCHANGED <<task, worldVars, runs, loop, aborted, released>>
-----------------------------------------------------------------------------
Goto(label) == loop' = [loop EXCEPT !.at = label]
Leave(stopped) == loop' = [loop EXCEPT !.at = "done", !.stopped = stopped]
Steady == UNCHANGED <<task, worldVars, aborted, released, closed>>

(* loadSubject(): a finished run that has an answer. *)
Reviewable(name) ==
  /\ runs[name].kind # "absent"
  /\ runs[name].state # "RUNNING"
  /\ runs[name].text

ValidContext(name, subject) ==
  name # NoName =>
    /\ Reviewable(name)
    /\ runs[name].kind = "compact" /\ runs[name].state = "COMPLETED"
    /\ runs[name].applied /\ runs[name].reviews = subject

(* delegate() and compact() up to their first save: refused, and then the tool call fails,
   or a record of the run exists.  They refuse for reasons of their own too, as when too
   many assignments are under way. *)
Accepted(name, subject, context) ==
  /\ ~closed /\ ~aborted
  /\ runs[name] = Absent
  /\ subject # NoName => Reviewable(subject)
  /\ ValidContext(context, subject)

Launch(name, subject, context, request, label) ==
  \/ /\ Accepted(name, subject, context)
     /\ runs' = [runs EXCEPT ![name] =
                   [kind |-> name[1], state |-> "RUNNING", text |-> FALSE,
                    provider |-> ProviderOf(loop.chosen.route),
                    independent |-> loop.chosen.independent,
                    reviews |-> subject, context |-> context, request |-> request,
                    verdict |-> Unreadable, reply |-> Prose, applied |-> FALSE]]
     /\ Goto(label)
  \/ /\ Leave("REFUSED")
     /\ UNCHANGED runs

(* How a run may finish: an abort, a failure, or evidence that expired before the child
   started, leaves it interrupted. *)
Endings ==
  IF aborted \/ closed THEN {"INTERRUPTED_UNKNOWN"}
  ELSE {"COMPLETED", "PARTIAL", "INTERRUPTED_UNKNOWN"}
-----------------------------------------------------------------------------
(* orchestrator_delegate: choose a route and delegate.  A review of unnamed work keeps away
   from the provider that would have done it.  With failover the child may end on one of
   the alternates. *)
DelegateAvoids ==
  IF KnownRole(task.role) /\ RoleOf(task) = "review"
  THEN ProviderOf(Head(PoolPriority.advanced)) ELSE ""

Delegate ==
  /\ loop.at = "idle"
  /\ runs[Origin] = Absent
  /\ ~released /\ ~closed
  /\ loop' = [NoLoop EXCEPT
                !.at = "delegate",
                !.chosen = SelectRoute(task, evidence, time, DelegateAvoids, Spread)]
  /\ UNCHANGED runs
  /\ Steady

DelegateLaunch ==
  /\ loop.at = "delegate"
  /\ IF loop.chosen.status = "UNAVAILABLE"
     THEN Leave("UNAVAILABLE") /\ UNCHANGED runs
     ELSE Launch(Origin, NoName, NoName, "task", "delegated")
  /\ Steady

Delegated ==
  /\ loop.at = "delegated"
  /\ \E state \in Endings, text \in BOOLEAN,
        route \in {loop.chosen.route} \cup (IF Failover THEN ToSet(loop.chosen.alternates) ELSE {}) :
       runs' = [runs EXCEPT ![Origin] =
                  [@ EXCEPT !.state = state, !.text = text, !.provider = ProviderOf(route)]]
  /\ Leave("DELEGATED")
  /\ Steady

(* orchestrator_iterate: read the run under review, and choose a compactor. *)
Iterate ==
  /\ loop.at = "done" /\ loop.stopped = "DELEGATED"
  /\ ~released /\ ~closed
  /\ aborted' = FALSE
  /\ loop' = IF runs[Origin] = Absent
             THEN [NoLoop EXCEPT !.at = "done", !.stopped = "REFUSED"]
             ELSE [NoLoop EXCEPT !.at = "compactor"]
  /\ UNCHANGED <<task, worldVars, runs, released, closed>>

EconomyTask == [task EXCEPT !.role = "standard", !.pool = "economy"]
ReviewTask == [task EXCEPT !.role = "review"]

Compactor ==
  /\ loop.at = "compactor"
  /\ loop' = [loop EXCEPT
                !.at = "subject", !.cycle = 1,
                !.compactor = IF Compact THEN SelectRoute(EconomyTask, evidence, time, "", -1)
                              ELSE Unavailable]
  /\ UNCHANGED runs
  /\ Steady

(* A cycle: choose a reviewer, preferably of another provider than the subject's. *)
ReviewWaits ==
  /\ loop.at = "subject"
  /\ IF runs[loop.subject] = Absent
     THEN Leave("REFUSED")
     ELSE LET chosen == SelectRoute(ReviewTask, evidence, time, runs[loop.subject].provider, -1)
          IN IF chosen.status = "UNAVAILABLE" THEN Goto("subject")
             ELSE loop' = [loop EXCEPT !.at = "review", !.chosen = chosen]
  /\ UNCHANGED runs
  /\ Steady
Review ==
  /\ loop.at = "subject"
  /\ IF runs[loop.subject] = Absent
     THEN Leave("REFUSED")
     ELSE LET chosen == SelectRoute(ReviewTask, evidence, time, runs[loop.subject].provider, -1)
          IN IF chosen.status = "UNAVAILABLE" THEN Leave("REVIEW_UNAVAILABLE")
             ELSE loop' = [loop EXCEPT !.at = "review", !.chosen = chosen]
  /\ UNCHANGED runs
  /\ Steady

ReviewLaunch ==
  /\ loop.at = "review"
  /\ Launch(<<"review", loop.cycle>>, loop.subject, loop.context, "review", "reviewing")
  /\ Steady

(* The review ends, and its verdict decides.  What a reviewer cut short said is parsed too;
   a reply through the schema alone is rendered, so a readable verdict is never empty. *)
Reviewed ==
  /\ loop.at = "reviewing"
  /\ \E state \in Endings, reply \in Replies :
       LET verdict == IF state = "INTERRUPTED_UNKNOWN" THEN Unreadable ELSE ParseVerdict(reply)
           decision == LoopDecision(verdict, state, loop.cycle, MaxCycles)
       IN /\ runs' = [runs EXCEPT ![<<"review", loop.cycle>>] =
                        [@ EXCEPT !.state = state, !.text = TRUE, !.verdict = verdict, !.reply = reply]]
          /\ IF decision = "REVISING"
             THEN loop' = [loop EXCEPT !.at = "choose"]
             ELSE Leave(decision)
  /\ Steady

(* A reviser is chosen as for the task itself. *)
Choose ==
  /\ loop.at = "choose"
  /\ IF aborted \/ closed THEN Leave("REFUSED")
     ELSE LET chosen == SelectRoute(task, evidence, time, "", -1)
          IN IF chosen.status = "UNAVAILABLE" THEN Leave("REVISE_UNAVAILABLE")
             ELSE loop' = [loop EXCEPT !.at = "revise", !.chosen = chosen]
  /\ UNCHANGED runs
  /\ Steady

(* The original request goes from one revision to the next, unless the reviser's own role
   is to review: a review has a request of its own. *)
RequestOf(subject) ==
  IF runs[subject] = Absent THEN "none" ELSE runs[subject].request

ReviseLaunch ==
  /\ loop.at = "revise"
  /\ Launch(<<"revise", loop.cycle>>, loop.subject, loop.context,
            IF RoleOf(task) = "review" THEN "revise" ELSE RequestOf(loop.subject), "revising")
  /\ Steady

(* Only a finished revision becomes the next subject; the context was the old subject's. *)
NextCycle(subject, context) ==
  IF loop.cycle = MaxCycles
  THEN loop' = [loop EXCEPT !.at = "done", !.subject = subject, !.stopped = "REVISING"]
  ELSE loop' = [loop EXCEPT !.at = "subject", !.cycle = @ + 1,
                            !.subject = subject, !.context = context]

Revised ==
  /\ loop.at = "revising"
  /\ \E state \in Endings, text \in BOOLEAN :
       /\ runs' = [runs EXCEPT ![<<"revise", loop.cycle>>] =
                     [@ EXCEPT !.state = state, !.text = text]]
       /\ IF state # "COMPLETED" THEN Leave("REVISION_INCOMPLETE")
          ELSE IF loop.compactor.status = "SELECTED" /\ loop.cycle < MaxCycles
               THEN loop' = [loop EXCEPT !.at = "compact", !.chosen = loop.compactor,
                                         !.subject = <<"revise", loop.cycle>>, !.context = NoName]
               ELSE NextCycle(<<"revise", loop.cycle>>, NoName)
  /\ Steady

CompactLaunch ==
  /\ loop.at = "compact"
  /\ Launch(<<"compact", loop.cycle>>, loop.subject, NoName,
            RequestOf(loop.subject), "compacting")
  /\ Steady

(* The compaction replaces the working context, if it is smaller, and never the subject. *)
Compacted ==
  /\ loop.at = "compacting"
  /\ \E state \in Endings, size \in Sizes :
       LET applied == state = "COMPLETED" /\ ParseCompaction(size, OriginalSize)
       IN /\ runs' = [runs EXCEPT ![<<"compact", loop.cycle>>] =
                        [@ EXCEPT !.state = IF state = "COMPLETED" /\ ~applied
                                            THEN "PARTIAL_NO_PROGRESS" ELSE state,
                                  !.text = TRUE, !.applied = applied]]
          /\ NextCycle(loop.subject, IF applied THEN <<"compact", loop.cycle>> ELSE NoName)
  /\ Steady
-----------------------------------------------------------------------------
Step ==
  \/ DelegateLaunch \/ Delegated
  \/ Compactor \/ Review \/ ReviewLaunch \/ Reviewed
  \/ Choose \/ ReviseLaunch \/ Revised \/ CompactLaunch \/ Compacted

LoopNext ==
  \/ Delegate \/ Iterate \/ Step
  \/ Abort \/ Release \/ DisposeOwners
  \/ TimePasses
  \/ \E key \in KnownKeys : Requalified(key) \/ EvidenceForgotten(key)
  \/ \E name \in Names : ForgetRun(name)

LoopSpec == LoopInit /\ [][LoopNext]_loopVars

(* The tool call goes on: the journal answers, and every delegation ends (CallsReturn of
   module Dispatch). *)
FairLoopSpec == LoopSpec /\ WF_loopVars(Step)
-----------------------------------------------------------------------------
Labels ==
  {"idle", "delegate", "delegated", "compactor", "subject", "review", "reviewing",
   "choose", "revise", "revising", "compact", "compacting", "done"}
Fields ==
  {"kind", "state", "text", "provider", "independent", "reviews", "context", "request",
   "verdict", "reply", "applied"}

LoopTypeOK ==
  /\ task \in Tasks
  /\ time \in 0 .. LastTime
  /\ \A q, r \in evidence : q.key = r.key => q = r
  /\ DOMAIN loop = DOMAIN NoLoop /\ loop.at \in Labels
  /\ loop.cycle \in 0 .. MaxCycles
  /\ loop.subject \in Names /\ loop.context \in Names \cup {NoName}
  /\ DOMAIN runs = Names
  /\ \A name \in Names : runs[name] # Absent => DOMAIN runs[name] = Fields /\ runs[name].kind = name[1]
  /\ aborted \in BOOLEAN /\ released \in BOOLEAN /\ closed \in BOOLEAN

ReviewOf(cycle) == runs[<<"review", cycle>>]

(* A revision is launched only for a finished review of the very subject it revises, whose
   coherent verdict asks for more, and never in the last cycle.  (The review itself may
   have been deleted since.) *)
ReviseEarned ==
  [][\A n \in Cycles : runs[<<"revise", n>>] = Absent /\ runs'[<<"revise", n>>] # Absent =>
       /\ n < MaxCycles
       /\ ReviewOf(n) # Absent =>
            /\ ReviewOf(n).state = "COMPLETED"
            /\ ReviewOf(n).reviews = runs'[<<"revise", n>>].reviews
            /\ ReviewOf(n).verdict.verdict \in Revisable
            /\ ReviewOf(n).verdict.contradictions = {}]_loopVars

(* What the loop hands back is an answer to the original request, the first run or a
   finished revision, and when it says VERIFIED a finished review verified exactly that
   answer, not a condensed stand-in or an earlier one, and raised no blocker, not even
   one that was dropped from the record. *)
ResultIsJudged ==
  loop.at = "done" /\ loop.cycle > 0 =>
    /\ loop.subject # Origin /\ runs[loop.subject] # Absent =>
         /\ runs[loop.subject].kind = "revise"
         /\ runs[loop.subject].state = "COMPLETED"
         /\ RoleOf(task) # "review" => runs[loop.subject].request = "task"
    /\ loop.stopped \in {"VERIFIED", "UNCONVERGED"} /\ ReviewOf(loop.cycle) # Absent =>
         /\ ReviewOf(loop.cycle).reviews = loop.subject
         /\ ReviewOf(loop.cycle).state = "COMPLETED"
         /\ loop.stopped = "VERIFIED" <=> ReviewOf(loop.cycle).reply.verdict = "verified"
         /\ loop.stopped = "VERIFIED" =>
              /\ ReviewOf(loop.cycle).reply.onObjective
              /\ "blocker" \notin ToSet(ReviewOf(loop.cycle).reply.findings)

(* Why it holds.  Before the first cycle the work is the original run; in a cycle it is that or
   the revision of an earlier cycle, which is finished and answers the original request.  What
   the call waits for is running, so that nobody can delete it, and refers to the subject. *)
OfTheTask(name) == RoleOf(task) # "review" => runs[name].request = "task"
BeforeTheLoop == {"idle", "delegate", "delegated", "compactor"}
SubjectStands ==
  /\ loop.at \in BeforeTheLoop \/ (loop.at = "done" /\ loop.stopped = "DELEGATED") => loop.cycle = 0
  /\ loop.cycle = 0 => loop.at \in BeforeTheLoop \cup {"done"} /\ loop.subject = Origin
  /\ loop.subject # Origin =>
       \E n \in Cycles :
         /\ loop.subject = <<"revise", n>>
         /\ n < loop.cycle \/ (n = loop.cycle /\ loop.at \in {"compact", "compacting", "done"})
  /\ runs[loop.subject] # Absent =>
       IF loop.subject = Origin THEN runs[Origin].request = "task"
       ELSE runs[loop.subject].state = "COMPLETED" /\ OfTheTask(loop.subject)
AwaitedStands ==
  /\ loop.at = "delegated" => Origin \in Running
  /\ loop.at = "reviewing" =>
       <<"review", loop.cycle>> \in Running /\ ReviewOf(loop.cycle).reviews = loop.subject
  /\ loop.at = "revising" =>
       <<"revise", loop.cycle>> \in Running /\ OfTheTask(<<"revise", loop.cycle>>)
  /\ loop.at = "compacting" => <<"compact", loop.cycle>> \in Running
JudgmentStands ==
  loop.at \in {"choose", "revise"} =>
    /\ loop.cycle < MaxCycles
    /\ ReviewOf(loop.cycle) # Absent =>
         /\ ReviewOf(loop.cycle).state = "COMPLETED"
         /\ ReviewOf(loop.cycle).reviews = loop.subject
         /\ ReviewOf(loop.cycle).verdict.verdict \in Revisable
         /\ ReviewOf(loop.cycle).verdict.contradictions = {}
LoopStands ==
  /\ SubjectStands /\ AwaitedStands /\ JudgmentStands
  /\ released => aborted \/ loop.at \in {"idle", "done"}

(* The evidence holds one record of a key, and what the loop returns was judged. *)
LoopInv == LoopTypeOK /\ ResultIsJudged /\ LoopStands

(* A reviewer shares the provider of the work it judges only when the evidence admits no
   other route of the pool, and the choice then says so; what the selector picks,
   orchestrator_capacity reports as dispatchable if its provider is registered. *)
ReviewsIndependent ==
  [][loop.at = "subject" /\ loop'.at = "review" =>
       LET avoid == runs[loop.subject].provider
           chosen == loop'.chosen
           pool == PoolOf(ReviewTask)
       IN /\ chosen.independent <=> ProviderOf(chosen.route) # avoid
          /\ ~chosen.independent =>
               \A route \in ToSet(PoolPriority[pool]) :
                 Eligible(route, ReviewTask, evidence, time) => ProviderOf(route) = avoid
          /\ chosen.route \in Dispatchable(pool, evidence, DOMAIN RoutesOf, time)]_loopVars

(* Once the tools are unregistered or the owners disposed nothing is launched any more. *)
QuietAfterUnload ==
  [][released \/ closed =>
       \A name \in Names : runs[name] = Absent => runs'[name] = Absent]_loopVars

(* Nothing is launched that was not earned: a revision by its review, and anything at all by
   tools and owners that are still there. *)
LaunchesEarned == ReviseEarned /\ QuietAfterUnload

(* A tool call ends. *)
LoopEnds == loop.at \notin {"idle", "done"} ~> loop.at \in {"idle", "done"}
=============================================================================
