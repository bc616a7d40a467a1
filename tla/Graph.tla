-------------------------------- MODULE Graph --------------------------------
(***************************************************************************)
(* The incident graph of app/graph: what every node does to the GraphState *)
(* and where every edge leads, as pure operators. The state machines that  *)
(* drive it (one run in Workflow, the runs and card clicks of the process  *)
(* in WorkflowRuns) are built from these operators.                        *)
(*                                                                         *)
(* A falsy None of the code (diagnosis_approved, proposals_approved before *)
(* the click) is FALSE: the edges only test truth.                         *)
(***************************************************************************)
EXTENDS Policy

CONSTANT MaxProposals  \* bound: drafts the LLM puts in one answer

ASSUME MaxProposalsAssumption == MaxProposals \in Nat

\* The nodes of create_workflow, and the END they lead to.
END == "END"

Nodes ==
    {"ingest", "triage", "diagnose", "send_diagnosis_card",
     "await_diagnosis_approval", "propose", "policy_evaluate",
     "send_proposal_card", "await_proposal_approval", "execute", "verify",
     "resolve", "escalate"}

\* Defect the runs must notice: the second question does not pause.
Interrupts_first == {"await_diagnosis_approval"}

\* The two nodes that call interrupt().
Interrupts == {"await_diagnosis_approval", "await_proposal_approval"}

Confidence == {"none", "low", "enough"}   \* "low" is below 0.3
Status     == {"success", "failure"}
FinalStatus == {"none", "resolved", "failed", "escalated"}
Index      == 1..MaxProposals
Plans      == UNION {[1..n -> Drafts] : n \in 0..MaxProposals}

\* GraphState, without the texts. approval_decisions holds the i whose
\* "prop-i" is "approved", execution_results maps such an i to its status.
GraphState ==
    [is_duplicate       : BOOLEAN,
     confidence         : Confidence,
     diagnosis_approved : BOOLEAN,
     proposals          : Plans,
     policy_decisions   : UNION {[1..n -> Decisions] : n \in 0..MaxProposals},
     proposals_approved : BOOLEAN,
     approval_decisions : SUBSET Index,
     execution_results  : UNION {[I -> Status] : I \in SUBSET Index},
     final_status       : FinalStatus]

NoResults == [i \in {} |-> "success"]

build_initial_state ==
    [is_duplicate       |-> FALSE,
     confidence         |-> "none",
     diagnosis_approved |-> FALSE,
     proposals          |-> <<>>,
     policy_decisions   |-> <<>>,
     proposals_approved |-> FALSE,
     approval_decisions |-> {},
     execution_results  |-> NoResults,
     final_status       |-> "none"]

-----------------------------------------------------------------------------
(* The nodes. *)

ingest_node(s, duplicate) == [s EXCEPT !.is_duplicate = duplicate]

diagnose_node(s, confidence) == [s EXCEPT !.confidence = confidence]

await_diagnosis_approval_node(s, action) ==
    [s EXCEPT !.diagnosis_approved = (action = "approve")]

propose_node(s, plan) == [s EXCEPT !.proposals = plan]

policy_evaluate_node(s, count, registered) ==
    [s EXCEPT !.policy_decisions = Evaluate(s.proposals, count, registered)]

\* Defects the runs must notice: a flag that a later rejection does not clear,
\* an enumeration that stops one proposal early, and an answer that is tested
\* for being there only.
await_proposal_approval_node_sticky(s, action) ==
    [s EXCEPT !.proposals_approved = @ \/ action = "approve",
              !.approval_decisions = IF action = "approve" THEN DOMAIN s.proposals ELSE @]

await_proposal_approval_node_short(s, action) ==
    [s EXCEPT !.proposals_approved = (action = "approve"),
              !.approval_decisions = IF action = "approve"
                                     THEN DOMAIN s.proposals \ {Len(s.proposals)}
                                     ELSE @]

await_proposal_approval_node_truthy(s, action) ==
    [s EXCEPT !.proposals_approved = (action # "none"),
              !.approval_decisions = DOMAIN s.proposals]

\* A rejection leaves the approval_decisions of an earlier round in place.
await_proposal_approval_node(s, action) ==
    [s EXCEPT !.proposals_approved = (action = "approve"),
              !.approval_decisions = IF action = "approve" THEN DOMAIN s.proposals ELSE @]

\* The proposals the execute node runs, and the ones whose plugin is not in
\* the registry: the lookup of the first of these raises out of the node.
ToRun(s) == DOMAIN s.proposals \cap s.approval_decisions

Unknown(s, registered) == {i \in ToRun(s) : s.proposals[i].plugin_name \notin registered}

\* What has run when the node ends or raises.
Ran(s, registered) ==
    {i \in ToRun(s) : \A j \in Unknown(s, registered) : i < j}

execute_node(s, results) == [s EXCEPT !.execution_results = results]

AllSucceeded(s) ==
    \A i \in DOMAIN s.execution_results : s.execution_results[i] = "success"

verify_node(s) ==
    [s EXCEPT !.final_status = IF AllSucceeded(s) THEN "resolved" ELSE "failed"]

resolve_node(s) == [s EXCEPT !.final_status = "resolved"]

escalate_node(s) == [s EXCEPT !.final_status = "escalated"]

-----------------------------------------------------------------------------
(* The conditional edges. *)

should_continue_after_ingest(s) == IF s.is_duplicate THEN END ELSE "triage"

\* Defect the runs must notice: the edge looks at the confidence only.
should_continue_after_diagnosis_approval_unasked(s) ==
    IF s.diagnosis_approved \/ s.confidence = "enough" THEN "propose" ELSE "escalate"

should_continue_after_diagnosis_approval(s) ==
    IF s.diagnosis_approved THEN "propose" ELSE "escalate"

should_continue_after_propose(s) ==
    IF s.proposals = <<>> THEN "resolve"
    ELSE IF s.confidence = "low" THEN "escalate" ELSE "policy_evaluate"

AllAuto(s) ==
    /\ s.policy_decisions # <<>>
    /\ \A i \in DOMAIN s.policy_decisions : s.policy_decisions[i] = "auto_execute"

\* Defects the runs must notice: any where the code says all, and all where
\* the code says any.
should_continue_after_policy_any(s) ==
    IF \E i \in DOMAIN s.policy_decisions : s.policy_decisions[i] = "escalate"
    THEN "escalate"
    ELSE IF \E i \in DOMAIN s.policy_decisions : s.policy_decisions[i] = "auto_execute"
         THEN "execute" ELSE "send_proposal_card"

should_continue_after_policy_all(s) ==
    IF \A i \in DOMAIN s.policy_decisions : s.policy_decisions[i] = "escalate"
    THEN "escalate"
    ELSE IF AllAuto(s) THEN "execute" ELSE "send_proposal_card"

\* The edge also assigns approval_decisions and proposals_approved, but
\* LangGraph hands an edge a fresh copy of the state: the assignments are lost.
should_continue_after_policy(s) ==
    IF \E i \in DOMAIN s.policy_decisions : s.policy_decisions[i] = "escalate"
    THEN "escalate"
    ELSE IF AllAuto(s) THEN "execute" ELSE "send_proposal_card"

should_continue_after_proposal_approval(s) ==
    IF s.proposals_approved THEN "execute" ELSE "escalate"

\* Defect the runs must notice: a failed plan is tried again.
should_continue_after_execute_retry(s) ==
    IF AllSucceeded(s) THEN "verify" ELSE "execute"

should_continue_after_execute(s) ==
    IF AllSucceeded(s) THEN "verify"
    ELSE IF \E i \in DOMAIN s.execution_results : s.execution_results[i] = "success"
         THEN "propose"
         ELSE "escalate"

should_continue_after_verify(s) ==
    IF s.final_status = "resolved" THEN "resolve" ELSE "escalate"

=============================================================================
