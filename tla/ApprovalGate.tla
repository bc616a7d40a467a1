---------------------------- MODULE ApprovalGate ----------------------------
(***************************************************************************)
(* What the two-step confirmation promises about one incident, whatever    *)
(* the graph between the two questions looks like: nothing is planned      *)
(* before the diagnosis is approved, nothing is carried out unless a human *)
(* approved the plan or the policy released it, a rejection closes the     *)
(* incident, and a closed incident is never touched again.                 *)
(***************************************************************************)
CONSTANT Acts     \* the actions a plan may hold

VARIABLES
    phase,        \* where the incident stands
    done,         \* the actions carried out under the current plan
    rejected      \* the human's last answer was a rejection

vars == <<phase, done, rejected>>

Phases == {"investigating", "diagnosis_pending", "planning", "plan_pending",
           "approved", "autonomous", "closing", "closed"}

TypeOK ==
    /\ phase \in Phases
    /\ done \subseteq Acts
    /\ rejected \in BOOLEAN

Init ==
    /\ phase = "investigating"
    /\ done = {}
    /\ rejected = FALSE

AskDiagnosis ==
    /\ phase = "investigating"
    /\ phase' = "diagnosis_pending"
    /\ UNCHANGED <<done, rejected>>

Dismiss ==
    /\ phase = "investigating"
    /\ phase' = "closed"
    /\ UNCHANGED <<done, rejected>>

AnswerDiagnosis ==
    /\ phase = "diagnosis_pending"
    /\ \/ phase' = "planning" /\ rejected' = FALSE
       \/ phase' = "closing" /\ rejected' = TRUE
    /\ UNCHANGED done

\* Drawing up a plan forgets what the plan before it carried out.
Plan ==
    /\ phase = "planning"
    /\ phase' \in {"planning", "closing"}
    /\ done' = {}
    /\ UNCHANGED rejected

AskPlan ==
    /\ phase = "planning"
    /\ phase' = "plan_pending"
    /\ UNCHANGED <<done, rejected>>

\* The policy escalates a plan, or releases it without asking anyone.
Judge ==
    /\ phase = "planning"
    /\ phase' \in {"autonomous", "closing"}
    /\ UNCHANGED <<done, rejected>>

AnswerPlan ==
    /\ phase = "plan_pending"
    /\ \/ phase' = "approved" /\ rejected' = FALSE
       \/ phase' = "closing" /\ rejected' = TRUE
    /\ UNCHANGED done

\* The only step that touches production.
CarryOut ==
    /\ phase \in {"approved", "autonomous"}
    /\ phase' \in {phase, "planning", "closing"}
    /\ done' \in SUBSET Acts
    /\ UNCHANGED rejected

Close ==
    /\ phase = "closing"
    /\ phase' = "closed"
    /\ UNCHANGED <<done, rejected>>

Next ==
    \/ AskDiagnosis \/ Dismiss \/ AnswerDiagnosis
    \/ Plan \/ AskPlan \/ Judge \/ AnswerPlan
    \/ CarryOut \/ Close

Spec == Init /\ [][Next]_vars

=============================================================================
