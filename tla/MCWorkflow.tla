----------------------------- MODULE MCWorkflow -----------------------------
(***************************************************************************)
(* A small instance of Workflow for TLC: one draft per way the policy and  *)
(* the registry can treat a proposal, at most two of them in an answer.    *)
(***************************************************************************)
EXTENDS Workflow

MCNames == {"restart", "scale", "shell", "ghost"}

MCRegistered == MCNames \ {"ghost"}

MCFences ==
    [auto_namespaces         |-> {"default"},
     max_replica_change      |-> 1,
     require_approval_verbs  |-> {"delete"},
     max_auto_fixes_per_hour |-> 2]

Draft(name, risk, ns, replicas) ==
    [plugin_name |-> name, risk_level |-> risk, namespace |-> ns,
     replicas |-> replicas, verb |-> {}]

MCDrafts ==
    {Draft("restart", "low", {"default"}, {}),      \* released
     Draft("scale", "high", {"default"}, {}),       \* takes quota, asks
     Draft("scale", "medium", {"default"}, {-2}),   \* outside the fences
     Draft("shell", "low", {}, {}),                 \* requires_approval
     Draft("ghost", "low", {}, {}),                 \* not in the registry
     Draft("restart", "critical", {}, {})}          \* escalated

=============================================================================
