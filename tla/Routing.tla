------------------------------ MODULE Routing ------------------------------
(***************************************************************************)
(* src/src/routes.mjs: which route a task may use, given the evidence its  *)
(* owner has.  A pure function of the task, the saved qualifications and   *)
(* the time: pool by what the task says of itself, candidates in the       *)
(* pool's order, each admitted by its own latest evidence or not at all.   *)
(*                                                                         *)
(* A task is [role, risk, complexity, escalate, dataClass, needs, pool],   *)
(* pool being "" when the caller names none.  A qualification is           *)
(* [key, issuedAt, expiresAt, available, shown, classes, domain, attested],*)
(* key being a route with an effort.                                       *)
(*                                                                         *)
(* Where two operators with the same parameters follow each other, the     *)
(* first is a plausible mistake in the second, as in RecordStore.          *)
(***************************************************************************)
EXTENDS Integers, Sequences, FiniteSets, SequencesExt

PoolPriority ==
  [economy  |-> <<"codex-luna", "deepseek-v4-flash", "kimi-k3-256k", "claude-sonnet">>,
   balanced |-> <<"codex-terra", "claude-sonnet", "deepseek-v41-flash">>,
   advanced |-> <<"codex-sol", "claude-opus", "kimi-k3">>,
   longHorizon |-> <<"claude-fable", "codex-astra", "kimi-k3">>]

RoutesOf ==
  [codex      |-> {"codex-luna", "codex-terra", "codex-sol", "codex-astra"},
   claude     |-> {"claude-sonnet", "claude-opus", "claude-fable"},
   deepseek   |-> {"deepseek-v41-flash", "deepseek-v4-flash", "deepseek-v4-pro"},
   moonshotai |-> {"kimi-k3", "kimi-k3-256k", "kimi-coding", "kimi-highspeed"}]

Routes == UNION {RoutesOf[provider] : provider \in DOMAIN RoutesOf}
ProviderOf(route) == CHOOSE provider \in DOMAIN RoutesOf : route \in RoutesOf[provider]

(* route(): what each provider calls the three tiers of effort. *)
Efforts(provider) ==
  IF provider \in {"codex", "claude"}
  THEN [standard |-> "medium", deep |-> "high", long |-> "xhigh"]
  ELSE [standard |-> "high", deep |-> "high", long |-> "max"]

ExpectedEffort(route, pool) ==
  LET efforts == Efforts(ProviderOf(route))
  IN IF pool = "longHorizon" THEN efforts.long
     ELSE IF pool = "advanced" THEN efforts.deep ELSE efforts.standard

Key(route, pool) == <<route, ExpectedEffort(route, pool)>>

Roles ==
  [standard |-> [pool |-> "balanced", domain |-> FALSE, image |-> FALSE],
   deep     |-> [pool |-> "advanced", domain |-> FALSE, image |-> FALSE],
   review   |-> [pool |-> "advanced", domain |-> FALSE, image |-> FALSE],
   vision   |-> [pool |-> "balanced", domain |-> FALSE, image |-> TRUE],
   domain   |-> [pool |-> "advanced", domain |-> TRUE,  image |-> FALSE]]

(* resolveRole(): a name, or one of the numeric codes of earlier releases. *)
Aliases ==
  [R01 |-> "standard", R02 |-> "standard", R04 |-> "standard", R06 |-> "standard",
   R10 |-> "standard", R11 |-> "standard", R03 |-> "deep", R07 |-> "review",
   R12 |-> "deep", R05 |-> "vision", R08 |-> "domain", R09 |-> "domain"]
KnownRole(role) == role \in DOMAIN Roles \cup DOMAIN Aliases
RoleOf(task) == IF task.role \in DOMAIN Roles THEN task.role ELSE Aliases[task.role]
-----------------------------------------------------------------------------
(* escalation(): a role that exists to demand a stronger model, or critical risk, is
   reason enough for the advanced pool; of the weaker signals it takes two. *)
Grounds(task) ==
  {ground \in {"role", "critical", "high", "complex", "restricted"} :
     \/ ground = "role" /\ Roles[RoleOf(task)].pool = "advanced"
     \/ ground \in {"critical", "high"} /\ task.risk = ground
     \/ ground = "complex" /\ task.complexity = "complex"
     \/ ground = "restricted" /\ task.dataClass = "restricted"}

Escalation(task) ==
  IF task.escalate THEN "longHorizon"
  ELSE IF Grounds(task) \cap {"role", "critical"} # {} \/ Cardinality(Grounds(task)) >= 2
       THEN "advanced" ELSE "balanced"

PoolOf(task) == IF task.pool # "" THEN task.pool ELSE Escalation(task)

BaseDataClasses == {"public", "internal"}

(* recordReason(): what keeps a record from authorizing the task; the code names the
   first. *)
Widened(q) == q.domain \/ ~(q.classes \subseteq BaseDataClasses)
Needs(task) == task.needs \cup (IF Roles[RoleOf(task)].image THEN {"image"} ELSE {})
Reasons(q, task, now) ==
  LET applies ==
        [UNATTESTED_POLICY_WIDENING |-> Widened(q) /\ ~q.attested,
         FUTURE_QUALIFICATION |-> q.issuedAt > now,
         EXPIRED_QUALIFICATION |-> q.expiresAt <= now,
         UNAVAILABLE_AT_PROBE |-> ~q.available,
         CAPABILITY_PROBE_REQUIRED |-> ~(Needs(task) \subseteq q.shown),
         DATA_CLASS_NOT_QUALIFIED |-> task.dataClass \notin q.classes,
         DOMAIN_EVIDENCE_REQUIRED |-> Roles[RoleOf(task)].domain /\ ~q.domain]
  IN {reason \in DOMAIN applies : applies[reason]}

(* The latest record of a key decides, also against an earlier success; two latest ones
   decide nothing. *)
Matching(qualifications, key) == {q \in qualifications : q.key = key}
Newest(qualifications, key) ==
  {q \in Matching(qualifications, key) :
     \A other \in Matching(qualifications, key) : other.issuedAt <= q.issuedAt}

Eligible(route, task, qualifications, now) ==
  \E q \in Newest(qualifications, Key(route, PoolOf(task))) :
    /\ Newest(qualifications, Key(route, PoolOf(task))) = {q}
    /\ Reasons(q, task, now) = {}

(* The candidates in the order they are tried: the pool's, after which the provider to be
   avoided comes last. *)
Candidates(pool, avoid) ==
  LET order == PoolPriority[pool]
      other(route) == ProviderOf(route) # avoid
      same(route) == ProviderOf(route) = avoid
  IN SelectSeq(order, other) \o SelectSeq(order, same)

(* rotate(): the caller's key picks where the list begins. *)
Rotate(s, offset) ==
  LET k == offset % Len(s)
  IN SubSeq(s, k + 1, Len(s)) \o SubSeq(s, 1, k)

NoRoute == "none"
Unavailable == [status |-> "UNAVAILABLE", route |-> NoRoute, independent |-> TRUE, alternates |-> <<>>]

(* selectRoute(): avoid is the provider of the work under review, or "" for none; spread
   is the offset the caller's key stands for, or -1.  Spreading stays among the routes that
   keep a review independent, where there are any. *)
Ordered(eligible, avoid, spread) ==
  LET other(route) == avoid = "" \/ ProviderOf(route) # avoid
      same(route) == ~other(route)
      apart == SelectSeq(eligible, other)
  IN IF spread < 0 \/ eligible = <<>> THEN eligible
     ELSE IF apart = <<>> THEN Rotate(eligible, spread)
     ELSE Rotate(apart, spread) \o SelectSeq(eligible, same)

SelectRouteByPriority(task, qualifications, now, avoid, spread) ==
  LET admitted(route) == Eligible(route, task, qualifications, now)
      ordered == Ordered(SelectSeq(PoolPriority[PoolOf(task)], admitted), avoid, spread)
  IN IF ~KnownRole(task.role) \/ ordered = <<>> THEN Unavailable
     ELSE [status |-> "SELECTED",
           route |-> Head(ordered),
           independent |-> avoid = "" \/ ProviderOf(Head(ordered)) # avoid,
           alternates |-> Tail(ordered)]
SelectRoute(task, qualifications, now, avoid, spread) ==
  LET admitted(route) == Eligible(route, task, qualifications, now)
      ordered == Ordered(SelectSeq(Candidates(PoolOf(task), avoid), admitted), avoid, spread)
  IN IF ~KnownRole(task.role) \/ ordered = <<>> THEN Unavailable
     ELSE [status |-> "SELECTED",
           route |-> Head(ordered),
           independent |-> avoid = "" \/ ProviderOf(Head(ordered)) # avoid,
           alternates |-> Tail(ordered)]

(* orchestrator_capacity of src/src/plugin.mjs: the routes of a pool it reports as
   dispatchable, when the host has these providers registered. *)
Dispatchable(pool, qualifications, registered, now) ==
  {route \in ToSet(PoolPriority[pool]) :
     /\ ProviderOf(route) \in registered
     /\ \E q \in Newest(qualifications, Key(route, pool)) : q.available /\ q.expiresAt > now}
=============================================================================
