------------------------------- MODULE Policy -------------------------------
(***************************************************************************)
(* The decisions of ExecutionPolicy (app/engine/policy.py) as pure         *)
(* operators: the safety fences, the hourly quota of one incident, and the *)
(* decision taken for every proposal of one LLM answer, in order.          *)
(*                                                                         *)
(* An optional argument of a proposal is a set with at most one element:   *)
(* {} is the absent argument.                                              *)
(***************************************************************************)
EXTENDS Integers, Sequences, FiniteSets

CONSTANTS
    Names,          \* the plugin names a proposal may carry
    NeedsApproval,  \* the names whose PluginSpec sets requires_approval
    Drafts,         \* the proposals the LLM may draft
    Fences          \* the SafetyFences the policy was built with

RiskLevels == {"low", "medium", "high", "critical"}

Decisions == {"auto_execute", "require_approval", "escalate"}

ASSUME PolicyAssumption ==
    /\ NeedsApproval \subseteq Names
    /\ \A p \in Drafts : p.plugin_name \in Names /\ p.risk_level \in RiskLevels
    /\ Fences.max_auto_fixes_per_hour \in Nat

-----------------------------------------------------------------------------

\* The namespace is whitelisted, the replica count is small and the verb is
\* not one of those that need approval.
WithinFences(p) ==
    /\ p.namespace \subseteq Fences.auto_namespaces
    /\ \A n \in p.replicas : n <= Fences.max_replica_change /\ -n <= Fences.max_replica_change
    /\ p.verb \cap Fences.require_approval_verbs = {}

\* The proposals that get as far as the quota: whatever their risk turns out
\* to be, each of them takes one unit of what is left.
ReachesQuota(p, registered) ==
    /\ p.risk_level # "critical"
    /\ p.plugin_name \notin NeedsApproval \cap registered
    /\ WithinFences(p)

\* What the first n proposals of ps ask of the quota.
Demand(ps, n, registered) ==
    Cardinality({i \in 1..n : ReachesQuota(ps[i], registered)})

\* Proposal i of ps, after count units were used and the ones before i served.
QuotaLeft(ps, i, count, registered) ==
    count + Demand(ps, i - 1, registered) < Fences.max_auto_fixes_per_hour

Decide(p, registered, quotaLeft) ==
    IF p.risk_level = "critical" THEN "escalate"
    ELSE IF /\ ReachesQuota(p, registered)
            /\ quotaLeft
            /\ p.risk_level \in {"low", "medium"}
         THEN "auto_execute"
         ELSE "require_approval"

\* policy_evaluate: one decision per proposal.
Evaluate(ps, count, registered) ==
    [i \in 1..Len(ps) |-> Decide(ps[i], registered, QuotaLeft(ps, i, count, registered))]

\* Defects the runs must notice: an entry appended before the quota is tested,
\* and an evaluation that tests the quota and forgets to append.
CountAfter_unchecked(ps, n, count, registered) == count + Demand(ps, n, registered)

CountAfter_forgotten(ps, n, count, registered) == count

\* The units used once the first n proposals of ps were evaluated.
CountAfter(ps, n, count, registered) ==
    LET wanted == count + Demand(ps, n, registered)
    IN  IF wanted < Fences.max_auto_fixes_per_hour
        THEN wanted
        ELSE Fences.max_auto_fixes_per_hour

=============================================================================
