--------------------------- MODULE MCWorkflowRuns ---------------------------
(***************************************************************************)
(* Small instances of WorkflowRuns for TLC: plans of one or two proposals, *)
(* or of one that may not be in the registry, and a quota of zero, so that *)
(* the policy asks for every plan.                                         *)
(***************************************************************************)
EXTENDS WorkflowRuns

MCNames == {"restart", "scale", "ghost"}

MCRegistered == {"restart", "scale"}

MCFences ==
    [auto_namespaces         |-> {"default"},
     max_replica_change      |-> 1,
     require_approval_verbs  |-> {"delete"},
     max_auto_fixes_per_hour |-> 0]

Draft(name) ==
    [plugin_name |-> name, risk_level |-> "low", namespace |-> {},
     replicas |-> {}, verb |-> {}]

GhostPlans == {Draft("restart"), Draft("ghost")}   \* the second is not in the registry
OnePlan    == {Draft("restart")}

OneChat == [t \in Threads |-> "chat"]

=============================================================================
