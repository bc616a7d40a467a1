------------------------------ MODULE Workflow ------------------------------
(***************************************************************************)
(* One run of the incident graph on one LangGraph thread, from ingest to   *)
(* END: a node at a time, pausing at the two interrupts until a human      *)
(* answers. The environment chooses what the database, the LLM, the        *)
(* plugins and the human answer; every choice they may make is an \E.      *)
(*                                                                         *)
(* A node that raises ends the run where it stands: the checkpoint still   *)
(* names that node (what a later click makes of it is in WorkflowRuns).    *)
(*                                                                         *)
(* consent, effects and rejected are history: what the human approved and  *)
(* what was really carried out since the plan was last drawn up.           *)
(***************************************************************************)
EXTENDS Graph

CONSTANT
    Registered    \* the names in the plugin registry

ASSUME WorkflowAssumption == Registered \subseteq Names

VARIABLES
    node,         \* the node the checkpoint names as next
    st,           \* the checkpoint's GraphState
    aborted,      \* a node raised out of ainvoke
    count,        \* this incident's entries in _hourly_counts
    consent,      \* the plan a human approved, <<>> if none since propose
    effects,      \* the proposals whose plugin ran since propose
    rejected      \* a human clicked reject

run  == <<node, st, aborted>>
seen == <<consent, effects, rejected>>
vars == <<node, st, aborted, count, consent, effects, rejected>>

TypeOK ==
    /\ node \in Nodes \cup {END}
    /\ st \in GraphState
    /\ aborted \in BOOLEAN
    /\ count \in 0..Fences.max_auto_fixes_per_hour
    /\ consent \in Plans
    /\ effects \subseteq Index
    /\ rejected \in BOOLEAN

Init ==
    /\ node = "ingest"
    /\ st = build_initial_state
    /\ aborted = FALSE
    /\ count = 0
    /\ consent = <<>>
    /\ effects = {}
    /\ rejected = FALSE

-----------------------------------------------------------------------------
(* The nodes. At(n) is the scheduler reaching node n; Goto writes the      *)
(* checkpoint after it.                                                    *)

At(n) == node = n /\ ~aborted

Goto(next, s) ==
    /\ node' = next
    /\ st' = s
    /\ UNCHANGED aborted

Ingest ==
    /\ At("ingest")
    /\ \E duplicate \in BOOLEAN :
         LET s == ingest_node(st, duplicate)
         IN  Goto(should_continue_after_ingest(s), s)
    /\ UNCHANGED <<count, seen>>

Triage ==
    /\ At("triage")
    /\ Goto("diagnose", st)
    /\ UNCHANGED <<count, seen>>

Diagnose ==
    /\ At("diagnose")
    /\ \E c \in {"low", "enough"} : Goto("send_diagnosis_card", diagnose_node(st, c))
    /\ UNCHANGED <<count, seen>>

SendDiagnosisCard ==
    /\ At("send_diagnosis_card")
    /\ Goto("await_diagnosis_approval", st)
    /\ UNCHANGED <<count, seen>>

AwaitDiagnosisApproval(action) ==
    /\ At("await_diagnosis_approval")
    /\ LET s == await_diagnosis_approval_node(st, action)
       IN  Goto(should_continue_after_diagnosis_approval(s), s)
    /\ rejected' = (action = "reject")
    /\ UNCHANGED <<count, consent, effects>>

\* The LLM returns a plan; an answer it cannot parse, or three failed calls,
\* is the empty plan.
Propose ==
    /\ At("propose")
    /\ \E plan \in Plans :
         LET s == propose_node(st, plan)
         IN  Goto(should_continue_after_propose(s), s)
    /\ consent' = <<>>
    /\ effects' = {}
    /\ UNCHANGED <<count, rejected>>

PolicyEvaluate ==
    /\ At("policy_evaluate")
    /\ LET s == policy_evaluate_node(st, count, Registered)
       IN  Goto(should_continue_after_policy(s), s)
    /\ count' = CountAfter(st.proposals, Len(st.proposals), count, Registered)
    /\ UNCHANGED seen

\* Arguments the LLM left null raise an AttributeError: what the proposals
\* before them took of the quota stays taken.
PolicyEvaluateRaises ==
    /\ At("policy_evaluate")
    /\ aborted' = TRUE
    /\ \E n \in 0..(Len(st.proposals) - 1) :
         count' = CountAfter(st.proposals, n, count, Registered)
    /\ UNCHANGED <<node, st, seen>>

SendProposalCard ==
    /\ At("send_proposal_card")
    /\ Goto("await_proposal_approval", st)
    /\ UNCHANGED <<count, seen>>

AwaitProposalApproval(action) ==
    /\ At("await_proposal_approval")
    /\ LET s == await_proposal_approval_node(st, action)
       IN  Goto(should_continue_after_proposal_approval(s), s)
    /\ rejected' = (action = "reject")
    /\ consent' = IF action = "approve" THEN st.proposals ELSE consent
    /\ UNCHANGED <<count, effects>>

Execute ==
    /\ At("execute")
    /\ Unknown(st, Registered) = {}
    /\ \E results \in [ToRun(st) -> Status] :
         LET s == execute_node(st, results)
         IN  Goto(should_continue_after_execute(s), s)
    /\ effects' = ToRun(st)
    /\ UNCHANGED <<count, consent, rejected>>

\* The registry lookup of an unknown plugin raises out of the node: the
\* plugins before it have run, and nothing of that reaches the checkpoint.
ExecuteRaises ==
    /\ At("execute")
    /\ Unknown(st, Registered) # {}
    /\ aborted' = TRUE
    /\ effects' = Ran(st, Registered)
    /\ UNCHANGED <<node, st, count, consent, rejected>>

\* A failed query in ingest or a failed LLM call in diagnose is not caught.
NodeRaises ==
    /\ \E n \in {"ingest", "diagnose"} : At(n)
    /\ aborted' = TRUE
    /\ UNCHANGED <<node, st, count, seen>>

Verify ==
    /\ At("verify")
    /\ LET s == verify_node(st)
       IN  Goto(should_continue_after_verify(s), s)
    /\ UNCHANGED <<count, seen>>

Resolve ==
    /\ At("resolve")
    /\ Goto(END, resolve_node(st))
    /\ UNCHANGED <<count, seen>>

Escalate ==
    /\ At("escalate")
    /\ Goto(END, escalate_node(st))
    /\ UNCHANGED <<count, seen>>

\* The older entries of _hourly_counts, or all of them, pass the cutoff. That goes
\* on for as long as there are entries.
HourPasses ==
    /\ count > 0
    /\ count' \in 0..(count - 1)
    /\ UNCHANGED <<run, seen>>

Compute ==
    \/ Ingest \/ Triage \/ Diagnose \/ SendDiagnosisCard
    \/ Propose \/ PolicyEvaluate \/ SendProposalCard
    \/ PolicyEvaluateRaises \/ Execute \/ ExecuteRaises \/ NodeRaises
    \/ Verify \/ Resolve \/ Escalate

Click(action) == AwaitDiagnosisApproval(action) \/ AwaitProposalApproval(action)

Next ==
    \/ Compute
    \/ \E action \in {"approve", "reject"} : Click(action)
    \/ HourPasses

Spec == Init /\ [][Next]_vars

\* The event loop keeps running the nodes of a run that is not paused;
\* nobody can be relied on to click, and the clock is not our own.
FairSpec == Spec /\ WF_vars(Compute)

-----------------------------------------------------------------------------
(* Properties. *)

\* Whatever was carried out belongs to the plan a human approved at the
\* second question, or to a plan every proposal of which the policy released:
\* approvals left over from an earlier round (the stale approval_decisions
\* of execute_node) never carry out anything else.
ConsentBeforeExecution ==
    effects # {} => consent = st.proposals \/ AllAuto(st)

\* A proposal of critical risk never runs, not even when a human approved
\* the plan it is part of (the escalate branch of should_continue_after_policy).
CriticalNeverRuns ==
    \A i \in effects : st.proposals[i].risk_level # "critical"

\* After a rejection, at either question and in any round, nothing of the
\* plan runs and the incident is never closed as resolved (the two await
\* nodes and their edges).
RejectedNeverRuns ==
    rejected => effects = {} /\ st.final_status # "resolved"

\* A plan a human approved reaches verify only when every proposal of it ran
\* and succeeded, so that "resolved" then means what the human was promised
\* (await_proposal_approval, execute and its edge).
ApprovedPlanRuns ==
    node \in {"verify", "resolve"} /\ consent # <<>> =>
        /\ effects = DOMAIN consent
        /\ \A i \in effects : st.execution_results[i] = "success"

\* A plan the policy released as a whole has been carried out by the time its
\* results are verified: what the comment of should_continue_after_policy says.
ReleasedPlanRuns ==
    node = "verify" /\ AllAuto(st) => effects = DOMAIN st.proposals

Paused  == node \in Interrupts
Stopped == node = END \/ aborted

\* The loop from execute back to propose, which nothing in the graph bounds, goes
\* on by itself without coming back to a human or to an end only for as long as
\* entries of the quota keep expiring: evaluating a plan uses the quota up, and the
\* hour alone gives it back (_check_quota). Over the hours it has no bound at all.
QuotaBoundsTheLoop == []<>(Paused \/ Stopped) \/ []<><<HourPasses>>_vars

\* The phase of the two-step confirmation a node of the graph stands for.
Phase ==
    CASE node \in {"ingest", "triage", "diagnose", "send_diagnosis_card"} -> "investigating"
      [] node = "await_diagnosis_approval" -> "diagnosis_pending"
      [] node \in {"propose", "policy_evaluate", "send_proposal_card"} -> "planning"
      [] node = "await_proposal_approval" -> "plan_pending"
      [] node = "execute" -> (IF consent # <<>> THEN "approved" ELSE "autonomous")
      [] node \in {"verify", "resolve", "escalate"} -> "closing"
      [] OTHER -> "closed"

Gate == INSTANCE ApprovalGate WITH Acts <- Index, phase <- Phase, done <- effects

\* The graph implements the two-step confirmation.
ImplementsGate == Gate!Spec

=============================================================================
