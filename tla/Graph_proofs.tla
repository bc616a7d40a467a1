---------------------------- MODULE Graph_proofs ----------------------------
(***************************************************************************)
(* Lemmas about the operators of Policy and Graph, for every set of names  *)
(* and drafts, every registry, every fence and every number of proposals:  *)
(* what the proofs about one run (Workflow_proofs) and about the runs of   *)
(* the process (WorkflowRuns_proofs) both rest on.                         *)
(***************************************************************************)
EXTENDS Graph, FiniteSetTheorems, TLAPS

\* A plan is a sequence of drafts no longer than the bound (propose).
LEMMA PlanIsSequence ==
    ASSUME NEW ps \in Plans
    PROVE  /\ Len(ps) \in 0..MaxProposals
           /\ ps \in [1..Len(ps) -> Drafts]
           /\ DOMAIN ps = 1..Len(ps)
           /\ DOMAIN ps \subseteq Index
<1>1. PICK n \in 0..MaxProposals : ps \in [1..n -> Drafts]
  BY DEF Plans
<1>2. n \in Nat /\ n <= MaxProposals
  BY MaxProposalsAssumption
<1>3. Len(ps) = n
  BY <1>1, <1>2
<1> QED
  BY <1>1, <1>2, <1>3, MaxProposalsAssumption DEF Index

\* The demand of the first proposals of a plan is a number, so that the
\* comparison with the quota means something (_check_quota).
LEMMA DemandIsNatural ==
    ASSUME NEW ps, NEW n \in Int, NEW registered
    PROVE  Demand(ps, n, registered) \in Nat
<1> DEFINE S == {i \in 1..n : ReachesQuota(ps[i], registered)}
<1>1. IsFiniteSet(1..n)
  BY FS_Interval
<1>2. IsFiniteSet(S)
  BY <1>1, FS_Subset
<1> QED
  BY <1>2, FS_CardinalityType DEF Demand

\* Evaluating a plan never takes the count of an hour past its quota,
\* whatever the plan is (_check_quota tests before it appends).
LEMMA QuotaKept ==
    ASSUME NEW ps, NEW n \in Int, NEW registered,
           NEW c \in 0..Fences.max_auto_fixes_per_hour
    PROVE  CountAfter(ps, n, c, registered) \in 0..Fences.max_auto_fixes_per_hour
<1>1. Demand(ps, n, registered) \in Nat
  BY DemandIsNatural
<1> QED
  BY <1>1, PolicyAssumption DEF CountAfter

\* The policy returns one decision for every proposal of a plan.
LEMMA EvaluateDecides ==
    ASSUME NEW ps \in Plans, NEW c, NEW registered
    PROVE  /\ Evaluate(ps, c, registered) \in [DOMAIN ps -> Decisions]
           /\ Evaluate(ps, c, registered) \in UNION {[1..n -> Decisions] : n \in 0..MaxProposals}
<1>1. Len(ps) \in 0..MaxProposals /\ DOMAIN ps = 1..Len(ps)
  BY PlanIsSequence
<1>2. \A i \in 1..Len(ps) : Decide(ps[i], registered, QuotaLeft(ps, i, c, registered)) \in Decisions
  BY DEF Decide, Decisions
<1>3. Evaluate(ps, c, registered) \in [1..Len(ps) -> Decisions]
  BY <1>2 DEF Evaluate
<1> QED
  BY <1>1, <1>3

\* A plan with a critical proposal goes to escalate, so what gets past the
\* policy holds none (the escalate branch of should_continue_after_policy).
LEMMA CriticalEscalates ==
    ASSUME NEW s \in GraphState, NEW c, NEW registered,
           should_continue_after_policy(policy_evaluate_node(s, c, registered)) # "escalate"
    PROVE  \A i \in DOMAIN s.proposals : s.proposals[i].risk_level # "critical"
<1> DEFINE ps == s.proposals
           d == policy_evaluate_node(s, c, registered).policy_decisions
<1>1. ps \in Plans
  BY DEF GraphState
<1>2. d = Evaluate(ps, c, registered)
  BY DEF policy_evaluate_node, GraphState
<1>3. DOMAIN d = DOMAIN ps
  BY <1>1, <1>2, EvaluateDecides
<1>4. \A i \in DOMAIN ps : d[i] # "escalate"
  BY <1>3 DEF should_continue_after_policy
<1>5. ASSUME NEW i \in DOMAIN ps
      PROVE  d[i] = Decide(ps[i], registered, QuotaLeft(ps, i, c, registered))
  BY <1>1, <1>2, PlanIsSequence DEF Evaluate
<1> QED
  BY <1>4, <1>5 DEF Decide

-----------------------------------------------------------------------------
(* The shape of the graph. *)

\* A run starts in a state of the shape the nodes expect (build_initial_state).
LEMMA InitialStateIsTyped == build_initial_state \in GraphState
<1>1. <<>> \in Plans
  BY MaxProposalsAssumption DEF Plans
<1>2. NoResults \in UNION {[I -> Status] : I \in SUBSET Index}
  BY DEF NoResults, Status
<1>3. <<>> \in UNION {[1..n -> Decisions] : n \in 0..MaxProposals}
  BY MaxProposalsAssumption
<1> QED
  BY <1>1, <1>2, <1>3 DEF build_initial_state, GraphState, Confidence, FinalStatus

\* Every edge leads to a node of the graph (create_workflow registers them all).
LEMMA EdgesLeadToNodes ==
    ASSUME NEW s
    PROVE  /\ should_continue_after_ingest(s) \in Nodes \cup {END}
           /\ should_continue_after_diagnosis_approval(s) \in Nodes
           /\ should_continue_after_propose(s) \in Nodes
           /\ should_continue_after_policy(s) \in Nodes
           /\ should_continue_after_proposal_approval(s) \in Nodes
           /\ should_continue_after_execute(s) \in Nodes
           /\ should_continue_after_verify(s) \in Nodes
BY DEF Nodes, should_continue_after_ingest, should_continue_after_diagnosis_approval,
       should_continue_after_propose, should_continue_after_policy,
       should_continue_after_proposal_approval, should_continue_after_execute,
       should_continue_after_verify

\* Every node keeps the shape of the GraphState.
LEMMA NodesKeepShape ==
    ASSUME NEW s \in GraphState
    PROVE  /\ \A d \in BOOLEAN : ingest_node(s, d) \in GraphState
           /\ \A c \in Confidence : diagnose_node(s, c) \in GraphState
           /\ \A a : await_diagnosis_approval_node(s, a) \in GraphState
           /\ \A plan \in Plans : propose_node(s, plan) \in GraphState
           /\ \A c, registered : policy_evaluate_node(s, c, registered) \in GraphState
           /\ \A a : await_proposal_approval_node(s, a) \in GraphState
           /\ \A results \in [ToRun(s) -> Status] : execute_node(s, results) \in GraphState
           /\ verify_node(s) \in GraphState
           /\ resolve_node(s) \in GraphState
           /\ escalate_node(s) \in GraphState
<1>1. s.proposals \in Plans
  BY DEF GraphState
<1>2. DOMAIN s.proposals \subseteq Index
  BY <1>1, PlanIsSequence
<1>3. \A d \in BOOLEAN : ingest_node(s, d) \in GraphState
  BY DEF ingest_node, GraphState
<1>4. \A c \in Confidence : diagnose_node(s, c) \in GraphState
  BY DEF diagnose_node, GraphState
<1>5. \A a : await_diagnosis_approval_node(s, a) \in GraphState
  BY DEF await_diagnosis_approval_node, GraphState
<1>6. \A plan \in Plans : propose_node(s, plan) \in GraphState
  BY DEF propose_node, GraphState
<1>7. ASSUME NEW c, NEW registered PROVE policy_evaluate_node(s, c, registered) \in GraphState
  BY <1>1, EvaluateDecides DEF policy_evaluate_node, GraphState
<1>8. \A a : await_proposal_approval_node(s, a) \in GraphState
  BY <1>2 DEF await_proposal_approval_node, GraphState
<1>9. ASSUME NEW results \in [ToRun(s) -> Status] PROVE execute_node(s, results) \in GraphState
  <2>1. ToRun(s) \in SUBSET Index
    BY <1>2 DEF ToRun
  <2>2. results \in UNION {[I -> Status] : I \in SUBSET Index}
    BY <2>1
  <2> QED
    BY <2>2 DEF execute_node, GraphState
<1>10. verify_node(s) \in GraphState /\ resolve_node(s) \in GraphState /\ escalate_node(s) \in GraphState
  BY DEF verify_node, resolve_node, escalate_node, GraphState, FinalStatus
<1> QED
  BY <1>3, <1>4, <1>5, <1>6, <1>7, <1>8, <1>9, <1>10

=============================================================================
