--------------------------- MODULE Workflow_proofs ---------------------------
(***************************************************************************)
(* Proofs about Workflow, for every set of plugin names and drafts, every  *)
(* registry, every fence and every number of proposals.                    *)
(*                                                                         *)
(* The invariants of Workflow are not inductive. Inductive adds what the   *)
(* graph has established by the time it reaches each node: that a plan     *)
(* under evaluation is fresh (nothing of it was carried out or approved),  *)
(* that a plan past the policy holds nothing critical, that the execute    *)
(* node is reached with an approval of exactly this plan or with a release *)
(* of all of it, and that a rejection leads nowhere but to escalate.       *)
(***************************************************************************)
EXTENDS Workflow, Graph_proofs, FiniteSetTheorems, TLAPS

\* The nodes a plan goes through after propose and before it is carried out.
Judging == {"policy_evaluate", "send_proposal_card", "await_proposal_approval"}

\* The nodes before the first plan.
Opening == {"ingest", "triage", "diagnose", "send_diagnosis_card", "await_diagnosis_approval"}

\* Nothing of a plan under evaluation has been carried out or approved.
Fresh ==
    /\ node \in Judging => effects = {} /\ consent = <<>> /\ st.proposals # <<>>
    /\ node \in Opening => effects = {}

\* Past the policy a plan holds no critical proposal.
NothingCritical ==
    node \in (Judging \ {"policy_evaluate"}) \cup {"execute"} =>
        \A i \in DOMAIN st.proposals : st.proposals[i].risk_level # "critical"

\* The execute node is reached by approval of the whole plan, or by release.
ExecuteIsApproved ==
    node = "execute" =>
        \/ consent = <<>> /\ AllAuto(st)
        \/ consent = st.proposals /\ DOMAIN st.proposals \subseteq st.approval_decisions

\* The incident gets its final status on the way out only.
Undecided ==
    st.final_status # "none" => node \in {"resolve", "escalate", END}

\* After a rejection the graph has nowhere to go but to escalate.
RejectionEscalates ==
    rejected => /\ node \in {"escalate", END}
                /\ effects = {}
                /\ st.final_status # "resolved"

\* The inductive invariant.
Inductive ==
    /\ TypeOK
    /\ Fresh
    /\ NothingCritical
    /\ ExecuteIsApproved
    /\ Undecided
    /\ RejectionEscalates
    /\ ConsentBeforeExecution
    /\ CriticalNeverRuns
    /\ ApprovedPlanRuns

-----------------------------------------------------------------------------
(* Type correctness. *)

LEMMA InitIsTyped == Init => TypeOK
<1> SUFFICES ASSUME Init PROVE TypeOK
  OBVIOUS
<1>1. <<>> \in Plans
  BY MaxProposalsAssumption DEF Plans
<1>2. Fences.max_auto_fixes_per_hour \in Nat
  BY PolicyAssumption
<1>3. 0 \in 0..Fences.max_auto_fixes_per_hour
  BY <1>2
<1>4. "ingest" \in Nodes
  BY DEF Nodes
<1> QED
  BY <1>1, <1>3, <1>4, InitialStateIsTyped DEF Init, TypeOK

\* A step of any node, of a click or of the clock keeps the types.
LEMMA StepIsTyped == TypeOK /\ [Next]_vars => TypeOK'
<1> SUFFICES ASSUME TypeOK, [Next]_vars PROVE TypeOK'
  OBVIOUS
<1> USE EdgesLeadToNodes, NodesKeepShape DEF TypeOK, Goto, seen, run
<1>1. CASE Ingest
  BY <1>1 DEF Ingest
<1>2. CASE Triage
  BY <1>2 DEF Triage, Nodes
<1>3. CASE Diagnose
  BY <1>3 DEF Diagnose, Nodes, Confidence
<1>4. CASE SendDiagnosisCard
  BY <1>4 DEF SendDiagnosisCard, Nodes
<1>5. ASSUME NEW a \in {"approve", "reject"}, AwaitDiagnosisApproval(a) PROVE TypeOK'
  BY <1>5 DEF AwaitDiagnosisApproval
<1>6. CASE Propose
  <2>1. <<>> \in Plans
    BY MaxProposalsAssumption DEF Plans
  <2> QED
    BY <1>6, <2>1 DEF Propose
<1>7. CASE PolicyEvaluate
  <2>1. Len(st.proposals) \in Int
    BY PlanIsSequence DEF GraphState
  <2>2. count' \in 0..Fences.max_auto_fixes_per_hour
    BY <1>7, <2>1, QuotaKept DEF PolicyEvaluate
  <2> QED
    BY <1>7, <2>2 DEF PolicyEvaluate
<1>8. CASE PolicyEvaluateRaises
  <2>1. Len(st.proposals) \in Int
    BY PlanIsSequence DEF GraphState
  <2>2. count' \in 0..Fences.max_auto_fixes_per_hour
    BY <1>8, <2>1, QuotaKept DEF PolicyEvaluateRaises
  <2> QED
    BY <1>8, <2>2 DEF PolicyEvaluateRaises
<1>9. CASE SendProposalCard
  BY <1>9 DEF SendProposalCard, Nodes
<1>10. ASSUME NEW a \in {"approve", "reject"}, AwaitProposalApproval(a) PROVE TypeOK'
  <2>1. st.proposals \in Plans
    BY DEF GraphState
  <2> QED
    BY <1>10, <2>1 DEF AwaitProposalApproval
<1>11. CASE Execute
  <2>1. ToRun(st) \subseteq Index
    BY PlanIsSequence DEF GraphState, ToRun
  <2> QED
    BY <1>11, <2>1 DEF Execute
<1>12. CASE ExecuteRaises
  <2>1. Ran(st, Registered) \subseteq Index
    BY PlanIsSequence DEF GraphState, ToRun, Ran
  <2> QED
    BY <1>12, <2>1 DEF ExecuteRaises
<1>13. CASE NodeRaises
  BY <1>13 DEF NodeRaises
<1>14. CASE Verify
  BY <1>14 DEF Verify
<1>15. CASE Resolve
  BY <1>15 DEF Resolve
<1>16. CASE Escalate
  BY <1>16 DEF Escalate
<1>17. CASE HourPasses
  BY <1>17, PolicyAssumption DEF HourPasses
<1>18. CASE UNCHANGED vars
  BY <1>18 DEF vars
<1> QED
  BY <1>1, <1>2, <1>3, <1>4, <1>5, <1>6, <1>7, <1>8, <1>9, <1>10, <1>11, <1>12,
     <1>13, <1>14, <1>15, <1>16, <1>17, <1>18 DEF Next, Compute, Click

\* The checkpoint always has the shape the nodes and edges expect, and the
\* hourly counter never passes the quota, whatever the LLM drafts.
THEOREM TypeCorrect == Spec => []TypeOK
BY InitIsTyped, StepIsTyped, PTL DEF Spec

-----------------------------------------------------------------------------
(* The safety invariants. *)

LEMMA InitIsInductive == Init => Inductive
<1> SUFFICES ASSUME Init PROVE Inductive
  OBVIOUS
<1>1. TypeOK
  BY InitIsTyped
<1> QED
  BY <1>1 DEF Init, Inductive, Fresh, NothingCritical, ExecuteIsApproved, Undecided,
     RejectionEscalates, ConsentBeforeExecution, CriticalNeverRuns, ApprovedPlanRuns,
     build_initial_state, Judging, Opening, END

\* The steps that carry nothing out and leave the plan, its approval and its
\* status alone: they preserve the invariant because they only move on.
LEMMA OpeningStep ==
    ASSUME Inductive, TypeOK',
           node \in Opening, node' \in Opening \cup {"propose", "escalate", END},
           st' \in GraphState, st'.final_status = st.final_status,
           effects' = effects,
           rejected' => node' = "escalate"
    PROVE  Inductive'
BY DEF Inductive, Fresh, NothingCritical, ExecuteIsApproved, Undecided,
       RejectionEscalates, ConsentBeforeExecution, CriticalNeverRuns, ApprovedPlanRuns,
       Judging, Opening, END

\* Drawing up a plan starts over: nothing carried out, nothing approved.
LEMMA ProposeStep ==
    ASSUME Inductive, TypeOK', Propose
    PROVE  Inductive'
<1>1. PICK plan \in Plans :
        /\ st' = propose_node(st, plan)
        /\ node' = should_continue_after_propose(st')
  BY DEF Propose, Goto
<1>2. st \in GraphState /\ node = "propose"
  BY DEF Inductive, TypeOK, Propose, At
<1>3. st'.final_status = "none"
  BY <1>1, <1>2 DEF Inductive, Undecided, END, propose_node, GraphState
<1>4. node' \in {"resolve", "escalate", "policy_evaluate"}
  BY <1>1 DEF should_continue_after_propose
<1>5. node' = "policy_evaluate" => st'.proposals # <<>>
  BY <1>1 DEF should_continue_after_propose
<1>6. effects' = {} /\ consent' = <<>> /\ ~rejected'
  BY <1>2 DEF Propose, Inductive, RejectionEscalates, END
<1> QED
  BY <1>3, <1>4, <1>5, <1>6 DEF Inductive, Fresh, NothingCritical, ExecuteIsApproved, Undecided,
     RejectionEscalates, ConsentBeforeExecution, CriticalNeverRuns, ApprovedPlanRuns,
     Judging, Opening, END

\* The policy lets nothing critical past it, and releases a fresh plan only.
LEMMA PolicyStep ==
    ASSUME Inductive, TypeOK', PolicyEvaluate
    PROVE  Inductive'
<1>1. st' = policy_evaluate_node(st, count, Registered) /\ node' = should_continue_after_policy(st')
  BY DEF PolicyEvaluate, Goto
<1>2. st \in GraphState /\ node = "policy_evaluate"
  BY DEF Inductive, TypeOK, PolicyEvaluate, At
<1>3. st'.proposals = st.proposals /\ st'.final_status = "none"
  BY <1>1, <1>2 DEF Inductive, Undecided, END, policy_evaluate_node, GraphState
<1>4. node' # "escalate" => \A i \in DOMAIN st'.proposals : st'.proposals[i].risk_level # "critical"
  BY <1>1, <1>2, <1>3, CriticalEscalates
<1>5. /\ node' \in {"escalate", "execute", "send_proposal_card"}
      /\ node' = "execute" => AllAuto(st')
  BY <1>1 DEF should_continue_after_policy
<1>6. effects' = {} /\ consent' = <<>> /\ ~rejected' /\ st'.proposals # <<>>
  BY <1>2, <1>3 DEF PolicyEvaluate, seen, Inductive, Fresh, Judging, RejectionEscalates, END
<1> QED
  BY <1>3, <1>4, <1>5, <1>6 DEF Inductive, Fresh, NothingCritical, ExecuteIsApproved, Undecided,
     RejectionEscalates, ConsentBeforeExecution, CriticalNeverRuns, ApprovedPlanRuns,
     Judging, Opening, END

\* An approval is an approval of every proposal of the plan at hand.
LEMMA ApprovalStep ==
    ASSUME Inductive, TypeOK', NEW a \in {"approve", "reject"}, AwaitProposalApproval(a)
    PROVE  Inductive'
<1>1. /\ st' = await_proposal_approval_node(st, a)
      /\ node' = should_continue_after_proposal_approval(st')
      /\ rejected' = (a = "reject")
      /\ consent' = IF a = "approve" THEN st.proposals ELSE consent
      /\ effects' = effects
  BY DEF AwaitProposalApproval, Goto
<1>2. st \in GraphState /\ node = "await_proposal_approval"
  BY DEF Inductive, TypeOK, AwaitProposalApproval, At
<1>3. /\ st'.proposals = st.proposals
      /\ st'.final_status = "none"
      /\ st'.proposals_approved = (a = "approve")
      /\ a = "approve" => st'.approval_decisions = DOMAIN st.proposals
  BY <1>1, <1>2 DEF Inductive, Undecided, END, await_proposal_approval_node, GraphState
<1>4. node' = IF a = "approve" THEN "execute" ELSE "escalate"
  BY <1>1, <1>3 DEF should_continue_after_proposal_approval
<1>5. effects' = {} /\ \A i \in DOMAIN st'.proposals : st'.proposals[i].risk_level # "critical"
  BY <1>1, <1>2, <1>3 DEF Inductive, Fresh, NothingCritical, Judging
<1> QED
  BY <1>1, <1>2, <1>3, <1>4, <1>5 DEF Inductive, Fresh, NothingCritical, ExecuteIsApproved, Undecided,
     RejectionEscalates, ConsentBeforeExecution, CriticalNeverRuns, ApprovedPlanRuns,
     Judging, Opening, END

\* What execute carries out is part of the plan that was approved or released,
\* and all of it when the plan was approved and the results go to verify.
LEMMA ExecuteStep ==
    ASSUME Inductive, TypeOK', Execute
    PROVE  Inductive'
<1>1. PICK results \in [ToRun(st) -> Status] :
        /\ st' = execute_node(st, results)
        /\ node' = should_continue_after_execute(st')
  BY DEF Execute, Goto
<1>2. st \in GraphState /\ node = "execute"
  BY DEF Inductive, TypeOK, Execute, At
<1>3. /\ st'.proposals = st.proposals
      /\ st'.policy_decisions = st.policy_decisions
      /\ st'.final_status = "none"
      /\ st'.execution_results = results
  BY <1>1, <1>2 DEF Inductive, Undecided, END, execute_node, GraphState
<1>4. effects' = ToRun(st) /\ consent' = consent /\ ~rejected'
  BY <1>2 DEF Execute, Inductive, RejectionEscalates, END
<1>5. effects' \subseteq DOMAIN st'.proposals
  BY <1>3, <1>4 DEF ToRun
<1>6. node' \in {"verify", "propose", "escalate"} /\ (node' = "verify" => AllSucceeded(st'))
  BY <1>1 DEF should_continue_after_execute
<1>7. consent' = st'.proposals \/ (consent' = <<>> /\ AllAuto(st'))
  BY <1>2, <1>3, <1>4 DEF Inductive, ExecuteIsApproved, AllAuto
<1>8. CriticalNeverRuns'
  BY <1>2, <1>3, <1>5 DEF Inductive, NothingCritical, CriticalNeverRuns
<1>9. ApprovedPlanRuns'
  <2> SUFFICES ASSUME node' \in {"verify", "resolve"}, consent' # <<>>
               PROVE  effects' = DOMAIN consent' /\ \A i \in effects' : st'.execution_results[i] = "success"
    BY DEF ApprovedPlanRuns
  <2>1. consent = st.proposals /\ DOMAIN st.proposals \subseteq st.approval_decisions
    BY <1>2, <1>4 DEF Inductive, ExecuteIsApproved
  <2>2. effects' = DOMAIN consent'
    BY <1>4, <2>1 DEF ToRun
  <2>3. AllSucceeded(st') /\ DOMAIN st'.execution_results = effects'
    BY <1>1, <1>3, <1>4, <1>6
  <2> QED
    BY <2>2, <2>3 DEF AllSucceeded
<1> QED
  BY <1>2, <1>3, <1>4, <1>6, <1>7, <1>8, <1>9 DEF Inductive, Fresh, NothingCritical,
     ExecuteIsApproved, Undecided, RejectionEscalates, ConsentBeforeExecution, Judging, Opening, END

\* The way out: verify, resolve and escalate touch nothing but the status.
LEMMA ClosingStep ==
    ASSUME Inductive, TypeOK', Verify \/ Resolve \/ Escalate
    PROVE  Inductive'
<1>1. /\ node \in {"verify", "resolve", "escalate"}
      /\ st \in GraphState
      /\ UNCHANGED <<effects, consent, rejected>>
  BY DEF Verify, Resolve, Escalate, At, seen, Inductive, TypeOK
<1>2. /\ st'.proposals = st.proposals
      /\ st'.policy_decisions = st.policy_decisions
      /\ st'.execution_results = st.execution_results
  BY <1>1 DEF Verify, Resolve, Escalate, Goto, verify_node, resolve_node, escalate_node, GraphState
<1>3. AllAuto(st) <=> AllAuto(st')
  BY <1>2 DEF AllAuto
<1>4. CASE Verify
  <2>1. node' \in {"resolve", "escalate"} /\ ~rejected'
    BY <1>1, <1>4 DEF Verify, At, Goto, should_continue_after_verify, Inductive, RejectionEscalates, END
  <2> QED
    BY <1>1, <1>2, <1>3, <1>4, <2>1 DEF Verify, At, Inductive, Fresh, NothingCritical,
       ExecuteIsApproved, Undecided, RejectionEscalates, ConsentBeforeExecution,
       CriticalNeverRuns, ApprovedPlanRuns, Judging, Opening, END
<1>5. CASE Resolve
  <2>1. node' = END /\ ~rejected'
    BY <1>1, <1>5 DEF Resolve, At, Goto, Inductive, RejectionEscalates, END
  <2> QED
    BY <1>1, <1>2, <1>3, <1>5, <2>1 DEF Resolve, At, Inductive, Fresh, NothingCritical,
       ExecuteIsApproved, Undecided, RejectionEscalates, ConsentBeforeExecution,
       CriticalNeverRuns, ApprovedPlanRuns, Judging, Opening, END
<1>6. CASE Escalate
  <2>1. node' = END /\ st'.final_status = "escalated"
    BY <1>1, <1>6 DEF Escalate, Goto, escalate_node, GraphState
  <2> QED
    BY <1>1, <1>2, <1>3, <1>6, <2>1 DEF Escalate, At, Inductive, Fresh, NothingCritical,
       ExecuteIsApproved, Undecided, RejectionEscalates, ConsentBeforeExecution,
       CriticalNeverRuns, ApprovedPlanRuns, Judging, Opening, END
<1> QED
  BY <1>4, <1>5, <1>6

\* Every step keeps the invariant.
LEMMA StepIsInductive == Inductive /\ [Next]_vars => Inductive'
<1> SUFFICES ASSUME Inductive, [Next]_vars PROVE Inductive'
  OBVIOUS
<1> USE DEF seen, run
<1>0. TypeOK' /\ st' \in GraphState /\ st \in GraphState
  BY StepIsTyped DEF Inductive, TypeOK
<1>1. CASE Ingest
  <2>1. PICK d \in BOOLEAN : st' = ingest_node(st, d) /\ node' = should_continue_after_ingest(st')
    BY <1>1 DEF Ingest, Goto
  <2>2. st'.final_status = st.final_status
    BY <1>0, <2>1 DEF ingest_node, GraphState
  <2>3. node' \in {"triage", END}
    BY <2>1 DEF should_continue_after_ingest
  <2>4. node = "ingest" /\ effects' = effects /\ ~rejected'
    BY <1>1 DEF Ingest, At, Inductive, RejectionEscalates, END
  <2> QED
    BY <1>0, <2>2, <2>3, <2>4, OpeningStep DEF Opening
<1>2. CASE Triage
  BY <1>0, <1>2, OpeningStep DEF Triage, At, Goto, Opening, Inductive, RejectionEscalates, END
<1>3. CASE Diagnose
  <2>1. PICK c \in {"low", "enough"} : st' = diagnose_node(st, c)
    BY <1>3 DEF Diagnose, Goto
  <2>2. st'.final_status = st.final_status
    BY <1>0, <2>1 DEF diagnose_node, GraphState
  <2> QED
    BY <1>0, <1>3, <2>2, OpeningStep DEF Diagnose, At, Goto, Opening, Inductive, RejectionEscalates, END
<1>4. CASE SendDiagnosisCard
  BY <1>0, <1>4, OpeningStep DEF SendDiagnosisCard, At, Goto, Opening, Inductive, RejectionEscalates, END
<1>5. ASSUME NEW a \in {"approve", "reject"}, AwaitDiagnosisApproval(a) PROVE Inductive'
  <2>1. /\ st' = await_diagnosis_approval_node(st, a)
        /\ node' = should_continue_after_diagnosis_approval(st')
        /\ node = "await_diagnosis_approval"
        /\ effects' = effects
        /\ rejected' = (a = "reject")
    BY <1>5 DEF AwaitDiagnosisApproval, At, Goto
  <2>2. st'.final_status = st.final_status /\ st'.diagnosis_approved = (a = "approve")
    BY <1>0, <2>1 DEF await_diagnosis_approval_node, GraphState
  <2>3. node' = IF a = "approve" THEN "propose" ELSE "escalate"
    BY <2>1, <2>2 DEF should_continue_after_diagnosis_approval
  <2> QED
    BY <1>0, <2>1, <2>2, <2>3, OpeningStep DEF Opening
<1>6. CASE Propose
  BY <1>0, <1>6, ProposeStep
<1>7. CASE PolicyEvaluate
  BY <1>0, <1>7, PolicyStep
<1>8. CASE PolicyEvaluateRaises
  BY <1>0, <1>8 DEF PolicyEvaluateRaises, Inductive, Fresh, NothingCritical, ExecuteIsApproved,
     Undecided, RejectionEscalates, ConsentBeforeExecution, CriticalNeverRuns, ApprovedPlanRuns
<1>9. CASE SendProposalCard
  BY <1>0, <1>9 DEF SendProposalCard, At, Goto, Inductive, Fresh, NothingCritical, ExecuteIsApproved,
     Undecided, RejectionEscalates, ConsentBeforeExecution, CriticalNeverRuns, ApprovedPlanRuns,
     Judging, Opening, END
<1>10. ASSUME NEW a \in {"approve", "reject"}, AwaitProposalApproval(a) PROVE Inductive'
  BY <1>0, <1>10, ApprovalStep
<1>11. CASE Execute
  BY <1>0, <1>11, ExecuteStep
<1>12. CASE ExecuteRaises
  <2>1. /\ node = "execute" /\ UNCHANGED <<node, st, consent, rejected>>
        /\ effects' \subseteq DOMAIN st.proposals
    BY <1>12 DEF ExecuteRaises, At, Ran, ToRun
  <2>2. ConsentBeforeExecution' /\ CriticalNeverRuns'
    BY <2>1 DEF Inductive, ExecuteIsApproved, NothingCritical, ConsentBeforeExecution,
       CriticalNeverRuns, AllAuto
  <2> QED
    BY <1>0, <2>1, <2>2 DEF Inductive, Fresh, NothingCritical, ExecuteIsApproved, Undecided,
       RejectionEscalates, ApprovedPlanRuns, Judging, Opening, END
<1>13. CASE NodeRaises
  BY <1>0, <1>13 DEF NodeRaises, Inductive, Fresh, NothingCritical, ExecuteIsApproved,
     Undecided, RejectionEscalates, ConsentBeforeExecution, CriticalNeverRuns, ApprovedPlanRuns
<1>14. CASE Verify \/ Resolve \/ Escalate
  BY <1>0, <1>14, ClosingStep
<1>15. CASE HourPasses
  BY <1>0, <1>15 DEF HourPasses, Inductive, Fresh, NothingCritical, ExecuteIsApproved,
     Undecided, RejectionEscalates, ConsentBeforeExecution, CriticalNeverRuns, ApprovedPlanRuns
<1>16. CASE UNCHANGED vars
  BY <1>0, <1>16 DEF vars, Inductive, Fresh, NothingCritical, ExecuteIsApproved,
     Undecided, RejectionEscalates, ConsentBeforeExecution, CriticalNeverRuns, ApprovedPlanRuns
<1> QED
  BY <1>1, <1>2, <1>3, <1>4, <1>5, <1>6, <1>7, <1>8, <1>9, <1>10, <1>11, <1>12,
     <1>13, <1>14, <1>15, <1>16 DEF Next, Compute, Click

LEMMA InductiveInvariant == Spec => []Inductive
BY InitIsInductive, StepIsInductive, PTL DEF Spec

\* Whatever was carried out belongs to the plan a human approved at the second
\* question, or to one the policy released as a whole (execute_node and the
\* edges that lead to it).
THEOREM ConsentIsGiven == Spec => []ConsentBeforeExecution
<1>1. Inductive => ConsentBeforeExecution
  BY DEF Inductive
<1> QED
  BY <1>1, InductiveInvariant, PTL

\* A proposal of critical risk is never carried out, with or without approval
\* (the escalate branch of should_continue_after_policy).
THEOREM CriticalIsRefused == Spec => []CriticalNeverRuns
<1>1. Inductive => CriticalNeverRuns
  BY DEF Inductive
<1> QED
  BY <1>1, InductiveInvariant, PTL

\* After a rejection nothing of the plan is carried out and the incident does
\* not end as resolved (the two await nodes and their edges).
THEOREM RejectionIsFinal == Spec => []RejectedNeverRuns
<1>1. Inductive => RejectedNeverRuns
  BY DEF Inductive, RejectionEscalates, RejectedNeverRuns
<1> QED
  BY <1>1, InductiveInvariant, PTL

\* A plan a human approved reaches verify only with every proposal of it
\* carried out with success (await_proposal_approval, execute and its edge).
THEOREM ApprovalIsCarriedOut == Spec => []ApprovedPlanRuns
<1>1. Inductive => ApprovedPlanRuns
  BY DEF Inductive
<1> QED
  BY <1>1, InductiveInvariant, PTL

-----------------------------------------------------------------------------
(* The graph implements the two-step confirmation. *)

LEMMA InitImplementsGate == Init => Gate!Init
BY DEF Init, Gate!Init, Phase

\* Every step of the graph is a step of the confirmation or leaves it alone.
LEMMA StepImplementsGate == Inductive /\ [Next]_vars => [Gate!Next]_(Gate!vars)
<1> SUFFICES ASSUME Inductive, [Next]_vars PROVE Gate!Next \/ UNCHANGED Gate!vars
  OBVIOUS
<1> USE DEF seen, run, Gate!vars, Phase, Goto, At, END
<1>0. st \in GraphState
  BY DEF Inductive, TypeOK
<1>1. CASE Ingest
  <2>1. PICK d \in BOOLEAN : node' = should_continue_after_ingest(ingest_node(st, d))
    BY <1>1 DEF Ingest
  <2>2. node' \in {"triage", END}
    BY <2>1 DEF should_continue_after_ingest
  <2>3. Gate!Dismiss \/ UNCHANGED Gate!vars
    BY <1>1, <2>2 DEF Ingest, Gate!Dismiss
  <2> QED
    BY <2>3 DEF Gate!Next
<1>2. CASE Triage \/ Diagnose
  BY <1>2 DEF Triage, Diagnose
<1>3. CASE SendDiagnosisCard
  <2>1. Gate!AskDiagnosis
    BY <1>3 DEF SendDiagnosisCard, Gate!AskDiagnosis
  <2> QED
    BY <2>1 DEF Gate!Next
<1>4. ASSUME NEW a \in {"approve", "reject"}, AwaitDiagnosisApproval(a) PROVE Gate!Next
  <2>1. node' = IF a = "approve" THEN "propose" ELSE "escalate"
    BY <1>0, <1>4 DEF AwaitDiagnosisApproval, await_diagnosis_approval_node,
       should_continue_after_diagnosis_approval, GraphState
  <2>2. Gate!AnswerDiagnosis
    BY <1>4, <2>1 DEF AwaitDiagnosisApproval, Gate!AnswerDiagnosis
  <2> QED
    BY <2>2 DEF Gate!Next
<1>5. CASE Propose
  <2>1. PICK plan \in Plans : node' = should_continue_after_propose(propose_node(st, plan))
    BY <1>5 DEF Propose
  <2>2. node' \in {"resolve", "escalate", "policy_evaluate"}
    BY <2>1 DEF should_continue_after_propose
  <2>3. Gate!Plan
    BY <1>5, <2>2 DEF Propose, Gate!Plan
  <2> QED
    BY <2>3 DEF Gate!Next
<1>6. CASE PolicyEvaluate
  <2>1. node' \in {"escalate", "execute", "send_proposal_card"}
    BY <1>6 DEF PolicyEvaluate, should_continue_after_policy
  <2>2. consent = <<>>
    BY <1>6 DEF PolicyEvaluate, Inductive, Fresh, Judging
  <2>3. Gate!Judge \/ UNCHANGED Gate!vars
    BY <1>6, <2>1, <2>2 DEF PolicyEvaluate, Gate!Judge
  <2> QED
    BY <2>3 DEF Gate!Next
<1>7. CASE SendProposalCard
  <2>1. Gate!AskPlan
    BY <1>7 DEF SendProposalCard, Gate!AskPlan
  <2> QED
    BY <2>1 DEF Gate!Next
<1>8. ASSUME NEW a \in {"approve", "reject"}, AwaitProposalApproval(a) PROVE Gate!Next
  <2>1. node' = IF a = "approve" THEN "execute" ELSE "escalate"
    BY <1>0, <1>8 DEF AwaitProposalApproval, await_proposal_approval_node,
       should_continue_after_proposal_approval, GraphState
  <2>2. st.proposals # <<>>
    BY <1>8 DEF AwaitProposalApproval, Inductive, Fresh, Judging
  <2>3. Gate!AnswerPlan
    BY <1>8, <2>1, <2>2 DEF AwaitProposalApproval, Gate!AnswerPlan
  <2> QED
    BY <2>3 DEF Gate!Next
<1>9. CASE Execute \/ ExecuteRaises
  <2>1. node' \in {"execute", "verify", "propose", "escalate"} /\ (Execute => node' # "execute")
    BY <1>9 DEF Execute, ExecuteRaises, should_continue_after_execute
  <2>2. node = "execute" /\ consent' = consent /\ rejected' = rejected
    BY <1>9 DEF Execute, ExecuteRaises
  <2>3. effects' \in SUBSET Index
    BY <1>0, <1>9, PlanIsSequence DEF Execute, ExecuteRaises, Ran, ToRun, GraphState
  <2>4. Gate!CarryOut
    BY <2>1, <2>2, <2>3 DEF Gate!CarryOut
  <2> QED
    BY <2>4 DEF Gate!Next
<1>10. CASE PolicyEvaluateRaises \/ NodeRaises \/ HourPasses
  BY <1>10 DEF PolicyEvaluateRaises, NodeRaises, HourPasses
<1>11. CASE Verify
  <2>1. node' \in {"resolve", "escalate"}
    BY <1>11 DEF Verify, should_continue_after_verify
  <2> QED
    BY <1>11, <2>1 DEF Verify
<1>12. CASE Resolve \/ Escalate
  <2>1. Gate!Close
    BY <1>12 DEF Resolve, Escalate, Gate!Close
  <2> QED
    BY <2>1 DEF Gate!Next
<1>13. CASE UNCHANGED vars
  BY <1>13 DEF vars
<1> QED
  BY <1>1, <1>2, <1>3, <1>4, <1>5, <1>6, <1>7, <1>8, <1>9, <1>10, <1>11, <1>12, <1>13
  DEF Next, Compute, Click

\* The graph of create_workflow, with whatever the LLM, the plugins and the
\* human do, implements the two-step confirmation of ApprovalGate.
THEOREM GateIsImplemented == Spec => ImplementsGate
BY InitImplementsGate, StepImplementsGate, InductiveInvariant, PTL
   DEF Spec, ImplementsGate, Gate!Spec

=============================================================================
