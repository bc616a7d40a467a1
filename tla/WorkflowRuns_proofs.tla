------------------------- MODULE WorkflowRuns_proofs -------------------------
(***************************************************************************)
(* Proofs about WorkflowRuns, for every set of threads, of names and of    *)
(* drafts, every registry and fence, and any number of clicks and          *)
(* restarts.                                                               *)
(*                                                                         *)
(* The invariant has three layers. Coroutines says what a coroutine can be *)
(* at each place in the code; Waiting, that the manager's dicts agree and  *)
(* that a registration and a coroutine that may register exclude each      *)
(* other; Answered, that a checkpoint past a question has used an answer   *)
(* of its own. Each layer rests on the ones before it.                     *)
(*                                                                         *)
(* What is carried out, and how often, depends on a chat whose cards are   *)
(* clicked once. The second half of the module adds four layers for it:    *)
(* OneToken, Places, Consent and Counts.                                   *)
(***************************************************************************)
EXTENDS WorkflowRuns, Graph_proofs, FiniteSetTheorems, TLAPS

Clicks == [card : Cards, action : {"approve", "reject"}]

\* The coroutine of an alert: it never answers, and before it starts it is new.
OwnCoroutines ==
    \A t \in Threads :
        /\ tasks[t].thread = t
        /\ tasks[t].how = "trigger"
        /\ tasks[t].phase \in {"idle", "running", "posted", "done", "lost", "killed"}
        /\ ~tasks[t].answer
        /\ tasks[t].phase = "idle" => tasks[t] = At(t, "idle")

\* The coroutine of a click: it works on the thread of the card, and it has
\* taken one of the two paths before it loads a checkpoint.
ClickCoroutines ==
    \A k \in 1..MaxClicks :
        /\ tasks[k].phase # "idle" => k <= Len(clicks) /\ tasks[k].thread = clicks[k].card.thread
        /\ tasks[k].how = "trigger" => tasks[k].phase \in {"idle", "called", "done", "lost", "killed"}
        /\ tasks[k].phase = "peeking" => tasks[k].how = "persisted"

Coroutines ==
    /\ saved \in [Threads -> Checkpoint]
    /\ tasks \in [Tasks -> Task]
    /\ clicks \in Seq(Clicks) /\ Len(clicks) <= MaxClicks
    /\ OwnCoroutines
    /\ ClickCoroutines

\* The id a run of thread t is registered under.
RunId(t) == IF t \in ApiThreads THEN DrawnId(t) ELSE DbId(t)

\* The dicts of a manager m agree about the runs it holds.
Agree(m) ==
    /\ m = [pending |-> m.pending, incident_to_thread |-> m.incident_to_thread,
            chat_to_thread |-> m.chat_to_thread]
    /\ m.pending \in [DOMAIN m.pending -> PendingRun]
    /\ DOMAIN m.pending \subseteq Threads
    /\ \A t \in DOMAIN m.pending :
          /\ m.pending[t].incident_id = RunId(t)
          /\ RunId(t) \in DOMAIN m.incident_to_thread
          /\ m.incident_to_thread[RunId(t)] = t
    /\ \A i \in DOMAIN m.incident_to_thread :
          /\ m.incident_to_thread[i] \in DOMAIN m.pending
          /\ i = RunId(m.incident_to_thread[i])

\* A thread is registered or driven by one owner, and neither before its alert
\* was taken up.
OneDriver ==
    \A t \in Threads :
        /\ IsPending(manager, t) => Owners(t) = {} /\ tasks[t].phase # "idle"
        /\ \A j, k \in Owners(t) : j = k
        /\ Owners(t) # {} => tasks[t].phase # "idle"

\* What a click drives has its checkpoint in the database.
ClicksDriveTheChat ==
    \A k \in 1..MaxClicks :
        tasks[k].phase \in {"loading", "running", "posted"} => tasks[k].thread \notin ApiThreads

Waiting ==
    /\ Agree(manager)
    /\ OneDriver
    /\ ClicksDriveTheChat

-----------------------------------------------------------------------------
(* Lemmas about the manager's operators. *)

\* An id names its thread.
LEMMA IdsAreDistinct ==
    ASSUME NEW t, NEW u
    PROVE  /\ RunId(t) = RunId(u) => t = u
           /\ DbId(t) = RunId(u) => t = u /\ t \notin ApiThreads
BY DEF RunId, DbId, DrawnId

LEMMA IdsAreIds == \A t \in Threads : RunId(t) \in Ids
BY DEF RunId, DbId, DrawnId, Ids

LEMMA NoRunsAgree == Agree(NoRuns)
<1>1. DOMAIN Empty = {}
  BY DEF Empty
<1> QED
  BY <1>1 DEF Agree, NoRuns, PendingRun

\* register_pending under the run's own id keeps the dicts in step.
LEMMA RegisterAgrees ==
    ASSUME NEW m, Agree(m), NEW t \in Threads
    PROVE  /\ Agree(register_pending(m, t, RunId(t)))
           /\ DOMAIN register_pending(m, t, RunId(t)).pending = DOMAIN m.pending \cup {t}
<1> DEFINE r == register_pending(m, t, RunId(t))
<1>1. /\ DOMAIN r.pending = DOMAIN m.pending \cup {t}
      /\ r.pending[t] = [incident_id |-> RunId(t), old |-> FALSE]
      /\ \A u \in DOMAIN m.pending : u # t => r.pending[u] = m.pending[u]
      /\ r.pending = [u \in DOMAIN r.pending |-> r.pending[u]]
  BY DEF register_pending, Put
<1>2. /\ DOMAIN r.incident_to_thread = DOMAIN m.incident_to_thread \cup {RunId(t)}
      /\ r.incident_to_thread[RunId(t)] = t
      /\ \A i \in DOMAIN m.incident_to_thread :
            i # RunId(t) => r.incident_to_thread[i] = m.incident_to_thread[i]
  BY DEF register_pending, Put
<1>3. r = [pending |-> r.pending, incident_to_thread |-> r.incident_to_thread,
           chat_to_thread |-> r.chat_to_thread]
  BY DEF register_pending
<1> HIDE DEF r
<1>4. r.pending \in [DOMAIN r.pending -> PendingRun]
  <2>1. r.pending[t] \in PendingRun
    BY <1>1, IdsAreIds DEF PendingRun
  <2>2. \A u \in DOMAIN m.pending : m.pending[u] \in PendingRun
    BY DEF Agree
  <2> QED
    BY <1>1, <2>1, <2>2
<1>5. ASSUME NEW u \in DOMAIN r.pending
      PROVE  /\ r.pending[u].incident_id = RunId(u)
             /\ RunId(u) \in DOMAIN r.incident_to_thread
             /\ r.incident_to_thread[RunId(u)] = u
  BY <1>1, <1>2, IdsAreDistinct DEF Agree
<1>6. ASSUME NEW i \in DOMAIN r.incident_to_thread
      PROVE  /\ r.incident_to_thread[i] \in DOMAIN r.pending
             /\ i = RunId(r.incident_to_thread[i])
  BY <1>1, <1>2 DEF Agree
<1>7. DOMAIN r.pending \subseteq Threads
  BY <1>1 DEF Agree
<1> QED
  BY <1>1, <1>3, <1>4, <1>5, <1>6, <1>7 DEF Agree, r

\* remove takes a run out of both dicts, and a run that is not there out of none.
LEMMA RemoveAgrees ==
    ASSUME NEW m, Agree(m), NEW t
    PROVE  /\ Agree(remove(m, t))
           /\ DOMAIN remove(m, t).pending = DOMAIN m.pending \ {t}
<1>1. CASE ~IsPending(m, t)
  BY <1>1 DEF remove, IsPending
<1>2. CASE IsPending(m, t)
  <2> DEFINE r == remove(m, t)
  <2>1. /\ DOMAIN r.pending = DOMAIN m.pending \ {t}
        /\ \A u \in DOMAIN r.pending : r.pending[u] = m.pending[u]
    BY <1>2 DEF remove, Without, Restrict
  <2>2. m.pending[t].incident_id = RunId(t)
    BY <1>2 DEF Agree, IsPending
  <2>3. /\ DOMAIN r.incident_to_thread = DOMAIN m.incident_to_thread \ {RunId(t)}
        /\ \A i \in DOMAIN r.incident_to_thread :
              r.incident_to_thread[i] = m.incident_to_thread[i]
    BY <1>2, <2>2 DEF remove, Without, Restrict
  <2>4. r = [pending |-> r.pending, incident_to_thread |-> r.incident_to_thread,
             chat_to_thread |-> r.chat_to_thread]
    BY <1>2 DEF remove
  <2>5. r.pending \in [DOMAIN r.pending -> PendingRun]
    <3>1. r.pending = [u \in DOMAIN r.pending |-> r.pending[u]]
      BY <1>2 DEF remove, Without, Restrict
    <3>2. \A u \in DOMAIN r.pending : r.pending[u] \in PendingRun
      BY <2>1 DEF Agree
    <3> QED
      BY <3>1, <3>2
  <2>6. ASSUME NEW u \in DOMAIN r.pending
        PROVE  /\ r.pending[u].incident_id = RunId(u)
               /\ RunId(u) \in DOMAIN r.incident_to_thread
               /\ r.incident_to_thread[RunId(u)] = u
    BY <2>1, <2>3, IdsAreDistinct DEF Agree
  <2>7. ASSUME NEW i \in DOMAIN r.incident_to_thread
        PROVE  /\ r.incident_to_thread[i] \in DOMAIN r.pending
               /\ i = RunId(r.incident_to_thread[i])
    BY <2>1, <2>3 DEF Agree
  <2>8. DOMAIN r.pending \subseteq Threads
    BY <2>1 DEF Agree
  <2> QED
    BY <2>1, <2>4, <2>5, <2>6, <2>7, <2>8 DEF Agree
<1> QED
  BY <1>1, <1>2

\* The hour of a run that waits passes (Expired).
LEMMA AgeAgrees ==
    ASSUME NEW m, Agree(m), NEW t \in DOMAIN m.pending
    PROVE  /\ Agree(Age(m, t))
           /\ DOMAIN Age(m, t).pending = DOMAIN m.pending
<1> DEFINE p == [m.pending EXCEPT ![t] = [m.pending[t] EXCEPT !.old = TRUE]]
           r == [pending |-> p, incident_to_thread |-> m.incident_to_thread,
                 chat_to_thread |-> m.chat_to_thread]
<1>1. Age(m, t) = r
  <2>1. m = [pending |-> m.pending, incident_to_thread |-> m.incident_to_thread,
             chat_to_thread |-> m.chat_to_thread]
    BY DEF Agree
  <2>2. Age(m, t) = [m EXCEPT !.pending = p]
    BY DEF Age
  <2> QED
    BY <2>1, <2>2
<1>2. m.pending \in [DOMAIN m.pending -> PendingRun]
  BY DEF Agree
<1>3. /\ p \in [DOMAIN m.pending -> PendingRun]
      /\ \A u \in DOMAIN m.pending : p[u].incident_id = m.pending[u].incident_id
  BY <1>2 DEF PendingRun
<1>4. DOMAIN p = DOMAIN m.pending
  OBVIOUS
<1> HIDE DEF p
<1>5. Agree(r) /\ DOMAIN r.pending = DOMAIN m.pending
  BY <1>3, <1>4 DEF Agree
<1> HIDE DEF r
<1> QED
  BY <1>1, <1>5

\* A lookup by the id of the database row finds the run of that row, unless it
\* was registered under another id.
LEMMA LookupFindsTheRow ==
    ASSUME NEW m, Agree(m), NEW t
    PROVE  get_by_incident(m, DbId(t)) = {u \in DOMAIN m.pending : u = t /\ t \notin ApiThreads}
<1> DEFINE Found(u) == /\ DbId(t) \in DOMAIN m.incident_to_thread
                       /\ m.incident_to_thread[DbId(t)] = u
<1>1. ASSUME NEW u \in DOMAIN m.pending, Found(u)
      PROVE  u = t /\ t \notin ApiThreads
  <2>1. DbId(t) = RunId(u)
    BY <1>1 DEF Agree
  <2> QED
    BY <2>1, IdsAreDistinct
<1>2. ASSUME NEW u \in DOMAIN m.pending, u = t, t \notin ApiThreads
      PROVE  Found(u)
  <2>1. DbId(t) = RunId(u)
    BY <1>2 DEF RunId
  <2> QED
    BY <2>1 DEF Agree
<1> QED
  BY <1>1, <1>2 DEF get_by_incident

-----------------------------------------------------------------------------
(* The coroutines. *)

\* The nodes past the first question.
Confirmed == {"propose", "policy_evaluate", "send_proposal_card", "await_proposal_approval", "execute"}

\* No node but the second interrupt touches the approvals.
LEMMA NodesKeepApprovals ==
    ASSUME NEW s \in GraphState
    PROVE  /\ \A x : ingest_node(s, x).approval_decisions = s.approval_decisions
           /\ \A x : diagnose_node(s, x).approval_decisions = s.approval_decisions
           /\ \A x : await_diagnosis_approval_node(s, x).approval_decisions = s.approval_decisions
           /\ \A x : propose_node(s, x).approval_decisions = s.approval_decisions
           /\ \A x, y : policy_evaluate_node(s, x, y).approval_decisions = s.approval_decisions
           /\ \A x : execute_node(s, x).approval_decisions = s.approval_decisions
           /\ verify_node(s).approval_decisions = s.approval_decisions
           /\ resolve_node(s).approval_decisions = s.approval_decisions
           /\ escalate_node(s).approval_decisions = s.approval_decisions
           /\ \A x : x # "approve" =>
                 await_proposal_approval_node(s, x).approval_decisions = s.approval_decisions
BY DEF ingest_node, diagnose_node, await_diagnosis_approval_node, propose_node,
       policy_evaluate_node, execute_node, verify_node, resolve_node, escalate_node,
       await_proposal_approval_node, GraphState

\* The policy judges the plan and approves nothing itself.
LEMMA PolicyOutcomes ==
    ASSUME NEW s \in GraphState, NEW a, NEW o \in Outcomes("policy_evaluate", s, a)
    PROVE  o \in Checkpoint /\ o.st.approval_decisions = s.approval_decisions
<1>1. PICK c \in 0..Fences.max_auto_fixes_per_hour :
         o = To(should_continue_after_policy(policy_evaluate_node(s, c, Registered)),
                policy_evaluate_node(s, c, Registered))
  BY DEF Outcomes
<1> DEFINE x == policy_evaluate_node(s, c, Registered)
<1>2. x \in GraphState
  BY NodesKeepShape
<1>3. x.approval_decisions = s.approval_decisions
  BY NodesKeepApprovals
<1>4. o = To(should_continue_after_policy(x), x)
  BY <1>1
<1> HIDE DEF x
<1>5. should_continue_after_policy(x) \in Nodes
  BY EdgesLeadToNodes
<1> QED
  BY <1>2, <1>3, <1>4, <1>5 DEF To, Checkpoint

\* Every superstep leads to a checkpoint, and only the two interrupts, answered
\* with an approval, let a run past the first question or approve a plan.
LEMMA OutcomesAreCheckpoints ==
    ASSUME NEW n \in Nodes, NEW s \in GraphState, NEW a, NEW o \in Outcomes(n, s, a)
    PROVE  /\ o \in Checkpoint
           /\ o.node \in Confirmed =>
                 n \in Confirmed \/ (n = "await_diagnosis_approval" /\ a = "approve")
           /\ o.st.approval_decisions # s.approval_decisions =>
                 n = "await_proposal_approval" /\ a = "approve"
<1>a. n = "ingest" =>
       \E d \in BOOLEAN :
          o = To(should_continue_after_ingest(ingest_node(s, d)), ingest_node(s, d))
  BY DEF Outcomes
<1>b. n = "diagnose" =>
       \E c \in {"low", "enough"} :
          o = To("send_diagnosis_card", diagnose_node(s, c))
  BY DEF Outcomes
<1>c. n = "propose" =>
       \E plan \in Plans :
          o = To(should_continue_after_propose(propose_node(s, plan)), propose_node(s, plan))
  BY DEF Outcomes
<1>d. n = "execute" =>
       \E r \in [ToRun(s) -> Status] :
          o = To(should_continue_after_execute(execute_node(s, r)), execute_node(s, r))
  BY DEF Outcomes
<1> USE EdgesLeadToNodes, NodesKeepShape, NodesKeepApprovals DEF Checkpoint, To, Confirmed
<1>1. CASE n = "ingest"
  <2>1. PICK d \in BOOLEAN : o = To(should_continue_after_ingest(ingest_node(s, d)), ingest_node(s, d))
    BY <1>1, <1>a
  <2> QED
    BY <1>1, <2>1 DEF should_continue_after_ingest, END
<1>2. CASE n = "triage"
  <2>1. o = To("diagnose", s)
    BY <1>2 DEF Outcomes
  <2> QED
    BY <1>2, <2>1 DEF Nodes
<1>3. CASE n = "diagnose"
  <2>1. PICK c \in {"low", "enough"} : o = To("send_diagnosis_card", diagnose_node(s, c))
    BY <1>3, <1>b
  <2> QED
    BY <1>3, <2>1 DEF Nodes, Confidence
<1>4. CASE n = "send_diagnosis_card"
  <2>1. o = To("await_diagnosis_approval", s)
    BY <1>4 DEF Outcomes
  <2> QED
    BY <1>4, <2>1 DEF Nodes
<1>5. CASE n = "await_diagnosis_approval"
  <2>1. o = To(should_continue_after_diagnosis_approval(await_diagnosis_approval_node(s, a)), await_diagnosis_approval_node(s, a))
    BY <1>5 DEF Outcomes
  <2> DEFINE x == await_diagnosis_approval_node(s, a)
  <2>2. x \in GraphState /\ x.approval_decisions = s.approval_decisions
    OBVIOUS
  <2>3. should_continue_after_diagnosis_approval(x) = IF a = "approve" THEN "propose" ELSE "escalate"
    BY DEF await_diagnosis_approval_node, GraphState, should_continue_after_diagnosis_approval
  <2> HIDE DEF x
  <2>4. o.node = should_continue_after_diagnosis_approval(x) /\ o.st = x /\ o \in Checkpoint
    BY <2>1, <2>2 DEF x
  <2> QED
    BY <1>5, <2>2, <2>3, <2>4
<1>6. CASE n = "propose"
  <2>1. PICK plan \in Plans : o = To(should_continue_after_propose(propose_node(s, plan)), propose_node(s, plan))
    BY <1>6, <1>c
  <2> QED
    BY <1>6, <2>1
<1>7. CASE n = "policy_evaluate"
  <2>1. o \in Checkpoint /\ o.st.approval_decisions = s.approval_decisions
    BY <1>7, PolicyOutcomes
  <2> QED
    BY <1>7, <2>1
<1>8. CASE n = "send_proposal_card"
  <2>1. o = To("await_proposal_approval", s)
    BY <1>8 DEF Outcomes
  <2> QED
    BY <1>8, <2>1 DEF Nodes
<1>9. CASE n = "await_proposal_approval"
  <2>1. o = To(should_continue_after_proposal_approval(await_proposal_approval_node(s, a)), await_proposal_approval_node(s, a))
    BY <1>9 DEF Outcomes
  <2> QED
    BY <1>9, <2>1
<1>10. CASE n = "execute"
  <2>1. PICK r \in [ToRun(s) -> Status] : o = To(should_continue_after_execute(execute_node(s, r)), execute_node(s, r))
    BY <1>10, <1>d
  <2> QED
    BY <1>10, <2>1
<1>11. CASE n = "verify"
  <2>1. o = To(should_continue_after_verify(verify_node(s)), verify_node(s))
    BY <1>11 DEF Outcomes
  <2> QED
    BY <1>11, <2>1 DEF should_continue_after_verify
<1>12. CASE n = "resolve"
  <2>1. o = To(END, resolve_node(s))
    BY <1>12 DEF Outcomes
  <2> QED
    BY <1>12, <2>1 DEF END
<1>13. CASE n = "escalate"
  <2>1. o = To(END, escalate_node(s))
    BY <1>13 DEF Outcomes
  <2> QED
    BY <1>13, <2>1 DEF END
<1> QED
  BY <1>1, <1>2, <1>3, <1>4, <1>5, <1>6, <1>7, <1>8, <1>9, <1>10, <1>11, <1>12, <1>13 DEF Nodes

\* What the coroutine k may have become once it was called.
Fit(k, x) ==
    /\ x \in Task
    /\ x.phase # "idle"
    /\ k \in Threads =>
          /\ x.thread = k /\ x.how = "trigger" /\ ~x.answer
          /\ x.phase \in {"running", "posted", "done", "lost", "killed"}
    /\ k \in 1..MaxClicks =>
          /\ k <= Len(clicks) /\ x.thread = clicks[k].card.thread
          /\ x.how = "trigger" => x.phase \in {"called", "done", "lost", "killed"}
          /\ x.phase = "peeking" => x.how = "persisted"

\* A step of one coroutine leaves the others as they are.
LEMMA OneCoroutineMoves ==
    ASSUME Coroutines, NEW k \in Tasks, NEW x, Fit(k, x),
           tasks' = [tasks EXCEPT ![k] = x], UNCHANGED clicks,
           saved' \in [Threads -> Checkpoint]
    PROVE  Coroutines'
<1>1. tasks' \in [Tasks -> Task] /\ tasks'[k] = x /\ \A j \in Tasks : j # k => tasks'[j] = tasks[j]
  BY DEF Coroutines, Fit
<1>2. OwnCoroutines'
  <2> SUFFICES ASSUME NEW t \in Threads
               PROVE  /\ tasks'[t].thread = t
                      /\ tasks'[t].how = "trigger"
                      /\ tasks'[t].phase \in {"idle", "running", "posted", "done", "lost", "killed"}
                      /\ ~tasks'[t].answer
                      /\ tasks'[t].phase = "idle" => tasks'[t] = At(t, "idle")
    BY DEF OwnCoroutines, At
  <2>1. t \in Tasks
    BY DEF Tasks
  <2>2. CASE t = k
    BY <1>1, <2>2 DEF Fit
  <2>3. CASE t # k
    BY <1>1, <2>1, <2>3 DEF Coroutines, OwnCoroutines
  <2> QED
    BY <2>2, <2>3
<1>3. ClickCoroutines'
  <2> SUFFICES ASSUME NEW j \in 1..MaxClicks
               PROVE  /\ tasks'[j].phase # "idle" => j <= Len(clicks) /\ tasks'[j].thread = clicks[j].card.thread
                      /\ tasks'[j].how = "trigger" => tasks'[j].phase \in {"idle", "called", "done", "lost", "killed"}
                      /\ tasks'[j].phase = "peeking" => tasks'[j].how = "persisted"
    BY DEF ClickCoroutines
  <2>1. j \in Tasks
    BY DEF Tasks
  <2>2. CASE j = k
    BY <1>1, <2>2 DEF Fit
  <2>3. CASE j # k
    BY <1>1, <2>1, <2>3 DEF Coroutines, ClickCoroutines
  <2> QED
    BY <2>2, <2>3
<1> QED
  BY <1>1, <1>2, <1>3 DEF Coroutines

\* A coroutine that was called fits its place, and so does what it ends as.
LEMMA CalledFits ==
    ASSUME Coroutines, NEW k \in Tasks, tasks[k].phase # "idle"
    PROVE  /\ Fit(k, tasks[k])
           /\ \A phase \in {"done", "lost", "killed"} : Fit(k, At(tasks[k].thread, phase))
<1>1. Fit(k, tasks[k])
  BY DEF Coroutines, OwnCoroutines, ClickCoroutines, Fit, Tasks
<1>2. tasks[k].thread \in Threads
  BY DEF Coroutines, Task
<1>3. \A phase \in {"done", "lost", "killed"} : At(tasks[k].thread, phase) \in Task
  BY <1>2, InitialStateIsTyped DEF At, Task, Phases, Hows, Nodes
<1> QED
  BY <1>1, <1>3 DEF Fit, At

LEMMA InitCoroutines == Init => Coroutines
<1> SUFFICES ASSUME Init PROVE Coroutines
  OBVIOUS
<1>1. NoCheckpoint \in Checkpoint
  BY InitialStateIsTyped DEF NoCheckpoint, Checkpoint
<1>2. (CHOOSE t \in Threads : TRUE) \in Threads
  BY WorkflowRunsAssumption
<1>3. \A t \in Threads : At(t, "idle") \in Task
  BY InitialStateIsTyped DEF At, Task, Phases, Hows, Nodes
<1>4. /\ tasks \in [Tasks -> Task]
      /\ \A t \in Threads : tasks[t] = At(t, "idle")
      /\ \A k \in 1..MaxClicks : tasks[k].phase = "idle"
  BY <1>2, <1>3 DEF Init, Tasks, At
<1>5. clicks \in Seq(Clicks) /\ Len(clicks) <= MaxClicks
  BY WorkflowRunsAssumption DEF Init
<1> QED
  BY <1>1, <1>4, <1>5 DEF Init, Coroutines, OwnCoroutines, ClickCoroutines, At

\* A coroutine that goes on from a checkpoint.
LEMMA AtNodeIsTask ==
    ASSUME NEW r \in Task, NEW c \in Checkpoint, NEW a \in BOOLEAN
    PROVE  /\ AtNode(r, c, a) \in Task
           /\ AtNode(r, c, a).thread = r.thread
           /\ AtNode(r, c, a).how = r.how
           /\ AtNode(r, c, a).phase = "running"
           /\ AtNode(r, c, a).node = c.node
           /\ AtNode(r, c, a).st = c.st
           /\ AtNode(r, c, a).answer = a
BY DEF AtNode, Task, Phases, Checkpoint

\* A coroutine moves itself only, whatever it does next.
Moves(k, x) ==
    /\ Fit(k, x)
    /\ tasks' = [tasks EXCEPT ![k] = x]
    /\ x.thread = tasks[k].thread

LEMMA FinishMoves ==
    ASSUME Coroutines, NEW k \in Tasks, tasks[k].phase # "idle", Finish(k) \/ Lose(k)
    PROVE  \E phase \in {"done", "lost"} : Moves(k, At(tasks[k].thread, phase))
<1>1. CASE Finish(k)
  BY <1>1, CalledFits DEF Finish, Moves, At
<1>2. CASE Lose(k)
  BY <1>2, CalledFits DEF Lose, Moves, At
<1> QED
  BY <1>1, <1>2

\* Up to the first await of an answer.
LEMMA ResumeMoves ==
    ASSUME Coroutines, NEW k \in Tasks, Resume(k)
    PROVE  /\ k \in 1..MaxClicks
           /\ \E how \in {"memory", "persisted"} :
                 Moves(k, [tasks[k] EXCEPT !.phase = IF how = "memory" THEN "loading" ELSE "peeking",
                                           !.how = how])
<1>1. tasks[k].phase = "called" /\ tasks[k] \in Task /\ Fit(k, tasks[k])
  BY CalledFits DEF Resume, Coroutines
<1>2. k \in 1..MaxClicks
  BY <1>1 DEF Fit, Tasks
<1>3. k \notin Threads
  BY <1>2, WorkflowRunsAssumption
<1>4. CASE resume_by_thread(k)
  <2> DEFINE x == [tasks[k] EXCEPT !.phase = "loading", !.how = "memory"]
  <2>1. tasks' = [tasks EXCEPT ![k] = x]
    BY <1>4 DEF resume_by_thread
  <2>2. Fit(k, x) /\ x.thread = tasks[k].thread
    BY <1>1, <1>3 DEF Fit, Task, Phases, Hows
  <2> QED
    BY <1>2, <2>1, <2>2 DEF Moves
<1>5. CASE tasks' = [tasks EXCEPT ![k].phase = "peeking", ![k].how = "persisted"]
  <2> DEFINE x == [tasks[k] EXCEPT !.phase = "peeking", !.how = "persisted"]
  <2>1. tasks' = [tasks EXCEPT ![k] = x]
    BY <1>5
  <2>2. Fit(k, x) /\ x.thread = tasks[k].thread
    BY <1>1, <1>3 DEF Fit, Task, Phases, Hows
  <2> QED
    BY <1>2, <2>1, <2>2 DEF Moves
<1> QED
  BY <1>4, <1>5 DEF Resume

LEMMA PeekMoves ==
    ASSUME Coroutines, NEW k \in Tasks, Peek(k), ~Lose(k)
    PROVE  /\ k \in 1..MaxClicks
           /\ \/ \E phase \in {"done", "lost"} : Moves(k, At(tasks[k].thread, phase))
              \/ /\ Moves(k, [tasks[k] EXCEPT !.phase = "loading"])
                 /\ tasks[k].how # "trigger" /\ tasks[k].thread \notin ApiThreads
<1>1. tasks[k].phase = "peeking" /\ tasks[k] \in Task /\ Fit(k, tasks[k])
  BY CalledFits DEF Peek, Coroutines
<1>2. k \in 1..MaxClicks
  BY <1>1 DEF Fit, Tasks
<1>3. k \notin Threads
  BY <1>2, WorkflowRunsAssumption
<1>4. CASE Finish(k)
  BY <1>1, <1>2, <1>4, FinishMoves
<1>5. CASE tasks' = [tasks EXCEPT ![k].phase = "loading"] /\ tasks[k].thread \notin ApiThreads
  <2> DEFINE x == [tasks[k] EXCEPT !.phase = "loading"]
  <2>1. tasks' = [tasks EXCEPT ![k] = x]
    BY <1>5
  <2>2. Fit(k, x) /\ x.thread = tasks[k].thread /\ tasks[k].how # "trigger"
    BY <1>1, <1>2, <1>3 DEF Fit, Task, Phases
  <2> QED
    BY <1>2, <1>5, <2>1, <2>2 DEF Moves
<1> QED
  BY <1>4, <1>5 DEF Peek

LEMMA LoadMoves ==
    ASSUME Coroutines, NEW k \in Tasks, Load(k), ~Lose(k)
    PROVE  LET c == saved[tasks[k].thread]
           IN  /\ k \in 1..MaxClicks
               /\ tasks[k].phase = "loading" /\ tasks[k].how # "trigger"
               /\ tasks[k] \in Task /\ c \in Checkpoint
               /\ Moves(k, AtNode(tasks[k], c, TRUE))
<1> DEFINE c == saved[tasks[k].thread]
           x == AtNode(tasks[k], c, TRUE)
<1>1. tasks[k].phase = "loading" /\ tasks[k] \in Task /\ Fit(k, tasks[k])
  BY CalledFits DEF Load, Coroutines
<1>2. k \in 1..MaxClicks /\ tasks[k].thread \in Threads /\ tasks[k].how # "trigger"
  BY <1>1 DEF Fit, Tasks, Task
<1>3. k \notin Threads
  BY <1>2, WorkflowRunsAssumption
<1>4. tasks' = [tasks EXCEPT ![k] = x]
  BY DEF Load
<1>5. c \in Checkpoint
  BY <1>2 DEF Coroutines
<1>6. /\ x \in Task /\ x.thread = tasks[k].thread
      /\ x.how = tasks[k].how /\ x.phase = "running" /\ x.answer = TRUE
  BY <1>1, <1>5, AtNodeIsTask
<1> HIDE DEF x
<1>7. Fit(k, x)
  BY <1>1, <1>2, <1>3, <1>6 DEF Fit
<1> QED
  BY <1>1, <1>2, <1>4, <1>5, <1>6, <1>7 DEF Moves, x

LEMMA PostCardMoves ==
    ASSUME Coroutines, NEW k \in Tasks, PostCard(k)
    PROVE  Moves(k, [tasks[k] EXCEPT !.phase = "posted"])
<1> DEFINE x == [tasks[k] EXCEPT !.phase = "posted"]
<1>1. tasks[k].phase = "running" /\ tasks[k] \in Task /\ Fit(k, tasks[k])
  BY CalledFits DEF PostCard, Coroutines
<1>2. tasks' = [tasks EXCEPT ![k] = x]
  BY DEF PostCard
<1>3. Fit(k, x) /\ x.thread = tasks[k].thread
  BY <1>1 DEF Fit, Task, Phases
<1> QED
  BY <1>2, <1>3 DEF Moves

\* A superstep ends in one of the outcomes of its node, which the checkpoint
\* says too, and the resume value is used up.
LEMMA RunNodeMoves ==
    ASSUME Coroutines, NEW k \in Tasks, RunNode(k)
    PROVE  \E o \in Outcomes(tasks[k].node, tasks[k].st, ActionOf(k)) :
              /\ Driven(k) /\ tasks[k] \in Task /\ tasks[k].node \in Nodes /\ o \in Checkpoint
              /\ saved' = [saved EXCEPT ![tasks[k].thread] = o]
              /\ Moves(k, AtNode(tasks[k], o, FALSE))
<1>1. /\ Driven(k) /\ tasks[k].phase # "idle" /\ tasks[k] \in Task /\ Fit(k, tasks[k])
      /\ tasks[k].node # END
  BY CalledFits DEF RunNode, Coroutines, Driven
<1>2. PICK o \in Outcomes(tasks[k].node, tasks[k].st, ActionOf(k)) :
         /\ tasks' = [tasks EXCEPT ![k] = AtNode(@, o, FALSE)]
         /\ saved' = [saved EXCEPT ![tasks[k].thread] = o]
  BY DEF RunNode
<1> DEFINE x == AtNode(tasks[k], o, FALSE)
<1>3. tasks[k].node \in Nodes /\ tasks[k].st \in GraphState
  BY <1>1 DEF Task
<1>4. o \in Checkpoint
  BY <1>3, OutcomesAreCheckpoints
<1>5. tasks' = [tasks EXCEPT ![k] = x]
  BY <1>2
<1>6. /\ x \in Task /\ x.thread = tasks[k].thread
      /\ x.how = tasks[k].how /\ x.phase = "running" /\ x.answer = FALSE
  BY <1>1, <1>4, AtNodeIsTask
<1> HIDE DEF x
<1>7. Fit(k, x)
  BY <1>1, <1>6 DEF Fit, Driven
<1>8. Moves(k, x)
  BY <1>5, <1>6, <1>7 DEF Moves
<1> QED
  BY <1>1, <1>2, <1>3, <1>4, <1>8 DEF x

LEMMA BeginMoves ==
    ASSUME Coroutines, NEW t \in Threads, Begin(t)
    PROVE  /\ tasks[t] = At(t, "idle")
           /\ Moves(t, At(t, "running"))
<1>1. t \in Tasks /\ tasks[t].phase = "idle" /\ tasks[t] = At(t, "idle")
  BY DEF Begin, Coroutines, OwnCoroutines, Tasks
<1>2. t \notin 1..MaxClicks
  BY WorkflowRunsAssumption
<1>3. At(t, "running") \in Task
  BY InitialStateIsTyped DEF At, Task, Phases, Hows, Nodes
<1> QED
  BY <1>1, <1>2, <1>3 DEF Begin, Moves, Fit, At

\* What a click adds: a coroutine that nobody had called before.
LEMMA ClickAdds ==
    ASSUME Coroutines, NEW card \in Cards, NEW action \in Answers, Click(card, action)
    PROVE  LET n == Len(clicks) + 1
           IN  /\ n \in 1..MaxClicks /\ n \in Tasks /\ Len(clicks) \in Nat
               /\ Len(clicks') = n /\ clicks' \in Seq(Clicks)
               /\ clicks'[n].card = card /\ clicks'[n].action = action
               /\ \A i \in 1..Len(clicks) : clicks'[i] = clicks[i]
               /\ tasks' = [tasks EXCEPT ![n] = At(card.thread, "called")]
               /\ At(card.thread, "called") \in Task
<1>1. Len(clicks) \in Nat /\ Len(clicks) < MaxClicks /\ MaxClicks \in Nat
  BY WorkflowRunsAssumption DEF Coroutines, Click
<1>2. [card |-> card, action |-> action] \in Clicks
  BY WorkflowRunsAssumption DEF Clicks
<1>3. At(card.thread, "called") \in Task
  BY InitialStateIsTyped DEF At, Task, Phases, Hows, Nodes, Cards
<1> QED
  BY <1>1, <1>2, <1>3 DEF Coroutines, Click, Tasks

LEMMA ClickKeepsCoroutines ==
    ASSUME Coroutines, NEW card \in Cards, NEW action \in Answers, Click(card, action)
    PROVE  Coroutines'
<1> DEFINE n == Len(clicks) + 1
           x == At(card.thread, "called")
<1>1. /\ n \in 1..MaxClicks /\ n \in Tasks /\ Len(clicks) \in Nat
      /\ Len(clicks') = n /\ clicks' \in Seq(Clicks)
      /\ clicks'[n].card = card /\ clicks'[n].action = action
      /\ \A i \in 1..Len(clicks) : clicks'[i] = clicks[i]
      /\ tasks' = [tasks EXCEPT ![n] = x]
      /\ x \in Task
  BY ClickAdds
<1>2. n \notin Threads
  BY <1>1, WorkflowRunsAssumption
<1>3. /\ tasks' \in [Tasks -> Task]
      /\ tasks'[n] = x
      /\ \A j \in Tasks : j # n => tasks'[j] = tasks[j]
  BY <1>1 DEF Coroutines
<1>4. OwnCoroutines'
  BY <1>2, <1>3 DEF Coroutines, OwnCoroutines, Tasks, At
<1>5. ClickCoroutines'
  <2> SUFFICES ASSUME NEW j \in 1..MaxClicks
               PROVE  /\ tasks'[j].phase # "idle" => j <= Len(clicks') /\ tasks'[j].thread = clicks'[j].card.thread
                      /\ tasks'[j].how = "trigger" => tasks'[j].phase \in {"idle", "called", "done", "lost", "killed"}
                      /\ tasks'[j].phase = "peeking" => tasks'[j].how = "persisted"
    BY DEF ClickCoroutines
  <2>1. CASE j = n
    BY <1>1, <1>3, <2>1 DEF At
  <2>2. CASE j # n
    <3>1. tasks'[j] = tasks[j]
      BY <1>3, <2>2 DEF Tasks
    <3>2. tasks[j].phase # "idle" => j <= Len(clicks) /\ tasks[j].thread = clicks[j].card.thread
      BY DEF Coroutines, ClickCoroutines
    <3>3. /\ tasks[j].how = "trigger" => tasks[j].phase \in {"idle", "called", "done", "lost", "killed"}
          /\ tasks[j].phase = "peeking" => tasks[j].how = "persisted"
      BY DEF Coroutines, ClickCoroutines
    <3> QED
      BY <1>1, <3>1, <3>2, <3>3
  <2> QED
    BY <2>1, <2>2
<1>6. saved' = saved
  BY DEF Click
<1> QED
  BY <1>1, <1>3, <1>4, <1>5, <1>6 DEF Coroutines

\* After a restart every coroutine that was under way is gone.
LEMMA RestartKills ==
    ASSUME Coroutines, Restart
    PROVE  /\ Coroutines'
           /\ \A k \in Tasks :
                 \/ tasks'[k] = tasks[k] /\ tasks[k].phase \in {"idle", "done", "lost", "killed"}
                 \/ tasks[k].phase # "idle" /\ tasks'[k] = At(tasks[k].thread, "killed")
<1>1. /\ \A k \in Tasks : tasks'[k] = IF Active(k) THEN At(tasks[k].thread, "killed") ELSE tasks[k]
      /\ DOMAIN tasks' = Tasks /\ tasks' = [k \in Tasks |-> tasks'[k]]
      /\ clicks' = clicks
  BY DEF Restart
<1>2. \A k \in Tasks : Active(k) => Fit(k, At(tasks[k].thread, "killed"))
  BY CalledFits DEF Active
<1>3. tasks' \in [Tasks -> Task]
  <2>1. \A k \in Tasks : tasks'[k] \in Task
    BY <1>1, <1>2 DEF Fit, Coroutines
  <2> QED
    BY <1>1, <2>1
<1>4. saved' \in [Threads -> Checkpoint]
  <2>1. NoCheckpoint \in Checkpoint
    BY InitialStateIsTyped DEF NoCheckpoint, Checkpoint
  <2> QED
    BY <2>1 DEF Restart, Coroutines
<1>5. OwnCoroutines'
  <2> SUFFICES ASSUME NEW t \in Threads
               PROVE  /\ tasks'[t].thread = t
                      /\ tasks'[t].how = "trigger"
                      /\ tasks'[t].phase \in {"idle", "running", "posted", "done", "lost", "killed"}
                      /\ ~tasks'[t].answer
                      /\ tasks'[t].phase = "idle" => tasks'[t] = At(t, "idle")
    BY DEF OwnCoroutines, At
  <2>1. t \in Tasks
    BY DEF Tasks
  <2>2. CASE Active(t)
    BY <1>1, <1>2, <2>1, <2>2 DEF Fit
  <2>3. CASE ~Active(t)
    BY <1>1, <2>1, <2>3 DEF Coroutines, OwnCoroutines
  <2> QED
    BY <2>2, <2>3
<1>6. ClickCoroutines'
  <2> SUFFICES ASSUME NEW j \in 1..MaxClicks
               PROVE  /\ tasks'[j].phase # "idle" => j <= Len(clicks) /\ tasks'[j].thread = clicks[j].card.thread
                      /\ tasks'[j].how = "trigger" => tasks'[j].phase \in {"idle", "called", "done", "lost", "killed"}
                      /\ tasks'[j].phase = "peeking" => tasks'[j].how = "persisted"
    BY <1>1 DEF ClickCoroutines
  <2>1. j \in Tasks
    BY DEF Tasks
  <2>2. CASE Active(j)
    BY <1>1, <1>2, <2>1, <2>2 DEF Fit
  <2>3. CASE ~Active(j)
    BY <1>1, <2>1, <2>3 DEF Coroutines, ClickCoroutines
  <2> QED
    BY <2>2, <2>3
<1>7. ASSUME NEW k \in Tasks
      PROVE  \/ tasks'[k] = tasks[k] /\ tasks[k].phase \in {"idle", "done", "lost", "killed"}
             \/ tasks[k].phase # "idle" /\ tasks'[k] = At(tasks[k].thread, "killed")
  BY <1>1 DEF Active
<1> QED
  BY <1>1, <1>3, <1>4, <1>5, <1>6, <1>7 DEF Coroutines

LEMMA WorkKeepsCoroutines ==
    ASSUME Coroutines, NEW k \in Tasks, Work(k)
    PROVE  Coroutines'
<1>1. CASE Resume(k)
  <2>1. UNCHANGED <<clicks, saved>>
    BY <1>1 DEF Resume, history
  <2> QED
    BY <1>1, <2>1, ResumeMoves, OneCoroutineMoves DEF Moves, Coroutines
<1>2. CASE Peek(k) /\ ~Lose(k)
  <2>1. UNCHANGED <<clicks, saved>>
    BY <1>2 DEF Peek, history
  <2> QED
    BY <1>2, <2>1, PeekMoves, OneCoroutineMoves DEF Moves, Coroutines
<1>3. CASE Load(k) /\ ~Lose(k)
  <2>1. UNCHANGED <<clicks, saved>>
    BY <1>3 DEF Load, history
  <2> QED
    BY <1>3, <2>1, LoadMoves, OneCoroutineMoves DEF Moves, Coroutines
<1>4. CASE PostCard(k)
  <2>1. UNCHANGED <<clicks, saved>>
    BY <1>4 DEF PostCard, history
  <2> QED
    BY <1>4, <2>1, PostCardMoves, OneCoroutineMoves DEF Moves, Coroutines
<1>5. CASE RunNode(k)
  <2>1. UNCHANGED clicks
    BY <1>5 DEF RunNode
  <2>2. PICK o \in Checkpoint :
           /\ saved' = [saved EXCEPT ![tasks[k].thread] = o]
           /\ Moves(k, AtNode(tasks[k], o, FALSE))
    BY <1>5, RunNodeMoves
  <2>3. saved' \in [Threads -> Checkpoint]
    BY <2>2 DEF Coroutines
  <2> QED
    BY <2>1, <2>2, <2>3, OneCoroutineMoves DEF Moves
<1>6. CASE NodeRaises(k) \/ ReturnPaused(k) \/ ReturnEnded(k)
  <2>1. UNCHANGED <<clicks, saved>> /\ Finish(k) /\ tasks[k].phase # "idle"
    BY <1>6 DEF NodeRaises, ReturnPaused, ReturnEnded, history
  <2> QED
    BY <2>1, FinishMoves, OneCoroutineMoves DEF Moves, Coroutines
<1>7. CASE (Peek(k) \/ Load(k)) /\ Lose(k)
  <2>1. UNCHANGED <<clicks, saved>> /\ tasks[k].phase # "idle"
    BY <1>7 DEF Peek, Load, history
  <2> QED
    BY <1>7, <2>1, FinishMoves, OneCoroutineMoves DEF Moves, Coroutines
<1> QED
  BY <1>1, <1>2, <1>3, <1>4, <1>5, <1>6, <1>7 DEF Work

LEMMA StepKeepsCoroutines == Coroutines /\ [Next]_vars => Coroutines'
<1> SUFFICES ASSUME Coroutines, [Next]_vars PROVE Coroutines'
  OBVIOUS
<1>1. ASSUME NEW t \in Threads, _trigger_workflow(t) \/ receive_alert(t) PROVE Coroutines'
  <2>1. Begin(t) /\ UNCHANGED <<clicks, saved>> /\ t \in Tasks
    BY <1>1 DEF _trigger_workflow, receive_alert, Begin, history, Tasks
  <2> QED
    BY <2>1, BeginMoves, OneCoroutineMoves DEF Moves, Coroutines
<1>2. ASSUME NEW t \in Threads, TimeOut(t) PROVE Coroutines'
  <2>1. /\ Finish(t) /\ UNCHANGED <<clicks, saved>>
        /\ t \in Tasks /\ tasks[t].phase # "idle"
    BY <1>2 DEF TimeOut, Driven, history, Tasks
  <2> QED
    BY <2>1, FinishMoves, OneCoroutineMoves DEF Moves, Coroutines
<1>3. CASE UNCHANGED <<saved, tasks, clicks>>
  BY <1>3 DEF Coroutines, OwnCoroutines, ClickCoroutines
<1>4. ASSUME NEW t \in Threads, GrowOld(t) PROVE Coroutines'
  BY <1>3, <1>4 DEF GrowOld, history
<1>5. CASE CleanupStarts \/ CleanupGoesOn
  BY <1>3, <1>5 DEF CleanupStarts, CleanupGoesOn, history
<1>6. CASE UNCHANGED vars
  BY <1>3, <1>6 DEF vars
<1> QED
  BY <1>1, <1>2, <1>4, <1>5, <1>6, ClickKeepsCoroutines, WorkKeepsCoroutines, RestartKills DEF Next

-----------------------------------------------------------------------------
(* The manager and the coroutines that may register a run. *)

\* Coroutine x would register thread t.
Owns(x, t) ==
    /\ x.thread = t
    /\ x.how \in {"trigger", "memory"}
    /\ x.phase \in {"loading", "running", "posted"}

\* A step of one coroutine makes no other an owner.
LEMMA OwnersAfter ==
    ASSUME Coroutines, NEW k \in Tasks, NEW x, tasks' = [tasks EXCEPT ![k] = x], NEW t
    PROVE  /\ Owners(t)' = IF Owns(x, t) THEN Owners(t) \cup {k} ELSE Owners(t) \ {k}
           /\ k \in Owners(t) <=> Owns(tasks[k], t)
<1>1. DOMAIN tasks = Tasks
  BY DEF Coroutines
<1>2. tasks'[k] = x /\ \A j \in Tasks : j # k => tasks'[j] = tasks[j]
  BY <1>1
<1> QED
  BY <1>2 DEF Owners, Owns

\* A coroutine that becomes no owner, while the manager takes up no run.
LEMMA QuietMove ==
    ASSUME Coroutines, Waiting, NEW k \in Tasks, NEW x, x.phase # "idle",
           tasks' = [tasks EXCEPT ![k] = x],
           Agree(manager'), DOMAIN manager'.pending \subseteq DOMAIN manager.pending,
           \A t \in Threads : Owns(x, t) => Owns(tasks[k], t),
           k \in 1..MaxClicks /\ x.phase \in {"loading", "running", "posted"} =>
              x.thread \notin ApiThreads
    PROVE  Waiting'
<1>1. /\ tasks'[k] = x
      /\ \A j \in Tasks : j # k => tasks'[j] = tasks[j]
  BY DEF Coroutines
<1>2. \A t \in Threads : t \in Tasks /\ (tasks[t].phase # "idle" => tasks'[t].phase # "idle")
  BY <1>1 DEF Tasks
<1>3. \A t \in Threads : Owners(t)' \subseteq Owners(t)
  <2> TAKE t \in Threads
  <2>1. /\ Owners(t)' = IF Owns(x, t) THEN Owners(t) \cup {k} ELSE Owners(t) \ {k}
        /\ k \in Owners(t) <=> Owns(tasks[k], t)
    BY OwnersAfter
  <2> QED
    BY <2>1
<1>4. OneDriver'
  BY <1>2, <1>3 DEF Waiting, OneDriver, IsPending
<1>5. ClicksDriveTheChat'
  <2> SUFFICES ASSUME NEW j \in 1..MaxClicks, tasks'[j].phase \in {"loading", "running", "posted"}
               PROVE  tasks'[j].thread \notin ApiThreads
    BY DEF ClicksDriveTheChat
  <2>1. j \in Tasks
    BY DEF Tasks
  <2> QED
    BY <1>1, <2>1 DEF Waiting, ClicksDriveTheChat
<1> QED
  BY <1>4, <1>5 DEF Waiting

LEMMA InitWaiting == Init => Waiting
<1> SUFFICES ASSUME Init PROVE Waiting
  OBVIOUS
<1>1. Agree(manager)
  BY NoRunsAgree DEF Init
<1>2. DOMAIN manager.pending = {}
  BY DEF Init, NoRuns, Empty
<1>3. \A k \in Tasks : tasks[k].phase = "idle"
  BY DEF Init, At
<1>4. \A t : Owners(t) = {}
  BY <1>3 DEF Owners
<1> QED
  BY <1>1, <1>2, <1>3, <1>4 DEF Waiting, OneDriver, IsPending, ClicksDriveTheChat, Tasks

\* An alert that is taken up becomes the owner of a thread that has none.
LEMMA BeginKeepsWaiting ==
    ASSUME Coroutines, Waiting, NEW t \in Threads, Begin(t)
    PROVE  Waiting'
<1>1. /\ t \in Tasks /\ tasks[t].phase = "idle"
      /\ tasks' = [tasks EXCEPT ![t] = At(t, "running")]
      /\ manager' = manager
  BY DEF Begin, Tasks
<1>2. ~IsPending(manager, t) /\ Owners(t) = {}
  BY <1>1 DEF Waiting, OneDriver
<1>3. /\ tasks'[t] = At(t, "running")
      /\ \A j \in Tasks : j # t => tasks'[j] = tasks[j]
  BY <1>1 DEF Coroutines
<1>4. \A u \in Threads : Owners(u)' = IF u = t THEN {t} ELSE Owners(u)
  <2> TAKE u \in Threads
  <2>1. Owns(At(t, "running"), u) <=> u = t
    BY DEF Owns, At
  <2>2. u # t => t \notin Owners(u)
    BY <1>1 DEF Owners
  <2>3. Owners(u)' = IF Owns(At(t, "running"), u) THEN Owners(u) \cup {t} ELSE Owners(u) \ {t}
    BY <1>1, OwnersAfter
  <2> QED
    BY <1>2, <2>1, <2>2, <2>3
<1>5. OneDriver'
  <2> SUFFICES ASSUME NEW u \in Threads
               PROVE  /\ IsPending(manager, u) => Owners(u)' = {} /\ tasks'[u].phase # "idle"
                      /\ \A j, k \in Owners(u)' : j = k
                      /\ Owners(u)' # {} => tasks'[u].phase # "idle"
    BY <1>1 DEF OneDriver
  <2>1. CASE u = t
    BY <1>2, <1>3, <1>4, <2>1 DEF At
  <2>2. CASE u # t
    <3>1. tasks'[u] = tasks[u] /\ Owners(u)' = Owners(u)
      BY <1>3, <1>4, <2>2 DEF Tasks
    <3> QED
      BY <3>1 DEF Waiting, OneDriver
  <2> QED
    BY <2>1, <2>2
<1>6. t \notin 1..MaxClicks
  BY WorkflowRunsAssumption
<1>7. ClicksDriveTheChat'
  BY <1>3, <1>6 DEF Waiting, ClicksDriveTheChat, Tasks
<1> QED
  BY <1>1, <1>5, <1>7 DEF Waiting

\* resume_by_thread removes the run before it awaits, so that the click's
\* coroutine is the only owner; a run that is not found is looked for elsewhere.
LEMMA ResumeKeepsWaiting ==
    ASSUME Coroutines, Waiting, NEW k \in Tasks, Resume(k)
    PROVE  Waiting'
<1> DEFINE t == tasks[k].thread
           found == get_by_incident(manager, DbId(t))
<1>1. /\ k \in 1..MaxClicks /\ tasks[k].phase = "called" /\ tasks[k] \in Task /\ t \in Threads
  BY ResumeMoves DEF Resume, Coroutines, Task
<1>2. found = {u \in DOMAIN manager.pending : u = t /\ t \notin ApiThreads}
  BY LookupFindsTheRow DEF Waiting
<1>3. CASE found # {} /\ resume_by_thread(k)
  <2> DEFINE x == [tasks[k] EXCEPT !.phase = "loading", !.how = "memory"]
  <2>1. IsPending(manager, t) /\ t \notin ApiThreads
    BY <1>2, <1>3 DEF IsPending
  <2>2. tasks' = [tasks EXCEPT ![k] = x] /\ manager' = remove(manager, t)
    BY <1>3 DEF resume_by_thread
  <2>3. x.thread = t /\ x.phase = "loading" /\ x.how = "memory"
    BY <1>1 DEF Task
  <2> HIDE DEF x
  <2>4. Agree(manager') /\ DOMAIN manager'.pending = DOMAIN manager.pending \ {t}
    BY <2>2, RemoveAgrees DEF Waiting
  <2>5. Owners(t) = {} /\ tasks[t].phase # "idle"
    BY <1>1, <2>1 DEF Waiting, OneDriver
  <2>6. /\ tasks'[k] = x
        /\ \A j \in Tasks : j # k => tasks'[j] = tasks[j]
    BY <2>2 DEF Coroutines
  <2>7. k \notin Threads
    BY <1>1, WorkflowRunsAssumption
  <2>8. \A u \in Threads : Owners(u)' = IF u = t THEN {k} ELSE Owners(u)
    <3> TAKE u \in Threads
    <3>1. Owns(x, u) <=> u = t
      BY <2>3 DEF Owns
    <3>2. k \notin Owners(u)
      BY <1>1 DEF Owners
    <3>3. Owners(u)' = IF Owns(x, u) THEN Owners(u) \cup {k} ELSE Owners(u) \ {k}
      BY <2>2, OwnersAfter
    <3> QED
      BY <2>5, <3>1, <3>2, <3>3
  <2>9. \A u \in Threads : tasks'[u] = tasks[u]
    BY <2>6, <2>7 DEF Tasks
  <2>10. OneDriver'
    BY <2>4, <2>5, <2>8, <2>9 DEF Waiting, OneDriver, IsPending
  <2>11. ClicksDriveTheChat'
    BY <2>1, <2>3, <2>6 DEF Waiting, ClicksDriveTheChat, Tasks
  <2> QED
    BY <2>4, <2>10, <2>11 DEF Waiting
<1>4. CASE tasks' = [tasks EXCEPT ![k].phase = "peeking", ![k].how = "persisted"] /\ UNCHANGED manager
  <2> DEFINE x == [tasks[k] EXCEPT !.phase = "peeking", !.how = "persisted"]
  <2>1. tasks' = [tasks EXCEPT ![k] = x]
    BY <1>4
  <2>2. x.phase = "peeking"
    BY <1>1 DEF Task
  <2> HIDE DEF x
  <2>3. \A u \in Threads : ~Owns(x, u)
    BY <2>2 DEF Owns
  <2> QED
    BY <1>4, <2>1, <2>2, <2>3, QuietMove DEF Waiting
<1> QED
  BY <1>3, <1>4 DEF Resume

\* The owner that registers its thread is its only one, and ends.
LEMMA RegisteringKeepsWaiting ==
    ASSUME Coroutines, Waiting, NEW k \in Tasks, NEW t \in Threads, k \in Owners(t),
           tasks' = [tasks EXCEPT ![k] = At(t, "done")],
           manager' = register_pending(manager, t, RunId(t))
    PROVE  Waiting'
<1>1. Agree(manager') /\ DOMAIN manager'.pending = DOMAIN manager.pending \cup {t}
  BY RegisterAgrees DEF Waiting
<1>2. /\ tasks'[k] = At(t, "done")
      /\ \A j \in Tasks : j # k => tasks'[j] = tasks[j]
  BY DEF Coroutines
<1>3. Owners(t) = {k} /\ tasks[t].phase # "idle"
  BY DEF Waiting, OneDriver
<1>4. \A u \in Threads : Owners(u)' = Owners(u) \ {k}
  <2> TAKE u \in Threads
  <2>1. ~Owns(At(t, "done"), u)
    BY DEF Owns, At
  <2> QED
    BY <2>1, OwnersAfter
<1>5. \A u \in Threads : tasks[u].phase # "idle" => tasks'[u].phase # "idle"
  BY <1>2 DEF Tasks, At
<1>6. OneDriver'
  <2> SUFFICES ASSUME NEW u \in Threads
               PROVE  /\ IsPending(manager', u) => Owners(u)' = {} /\ tasks'[u].phase # "idle"
                      /\ \A i, j \in Owners(u)' : i = j
                      /\ Owners(u)' # {} => tasks'[u].phase # "idle"
    BY DEF OneDriver
  <2>1. CASE u = t
    BY <1>3, <1>4, <1>5, <2>1
  <2>2. CASE u # t
    BY <1>1, <1>4, <1>5, <2>2 DEF Waiting, OneDriver, IsPending
  <2> QED
    BY <2>1, <2>2
<1>7. ClicksDriveTheChat'
  BY <1>2 DEF Waiting, ClicksDriveTheChat, Tasks, At
<1> QED
  BY <1>1, <1>6, <1>7 DEF Waiting

\* A coroutine that ends without registering anything.
LEMMA FinishKeepsWaiting ==
    ASSUME Coroutines, Waiting, NEW k \in Tasks, Finish(k) \/ Lose(k), UNCHANGED manager
    PROVE  Waiting'
<1>0. PICK phase \in {"done", "lost"} : tasks' = [tasks EXCEPT ![k] = At(tasks[k].thread, phase)]
  BY DEF Finish, Lose
<1> DEFINE x == At(tasks[k].thread, phase)
<1>1. tasks' = [tasks EXCEPT ![k] = x] /\ x.phase \in {"done", "lost"}
  BY <1>0 DEF At
<1> HIDE DEF x
<1>2. \A t \in Threads : ~Owns(x, t)
  BY <1>1 DEF Owns
<1> QED
  BY <1>1, <1>2, QuietMove DEF Waiting

LEMMA ReturnPausedKeepsWaiting ==
    ASSUME Coroutines, Waiting, NEW k \in Tasks, ReturnPaused(k)
    PROVE  Waiting'
<1> DEFINE t == tasks[k].thread
<1>1. /\ tasks[k].phase = "running" /\ tasks[k] \in Task /\ t \in Threads
      /\ tasks' = [tasks EXCEPT ![k] = At(t, "done")] /\ Finish(k)
  BY DEF ReturnPaused, Finish, Coroutines, Task
<1>2. CASE TriggerPaused(k) \/ ApiPaused(k)
  <2>1. k \in Threads /\ t = k /\ tasks[k].how = "trigger"
    BY <1>2, WorkflowRunsAssumption DEF TriggerPaused, ApiPaused, Coroutines, OwnCoroutines
  <2>2. k \in Owners(t)
    BY <1>1, <2>1 DEF Owners
  <2>3. manager' = register_pending(manager, t, RunId(t))
    BY <1>2, <2>1 DEF TriggerPaused, ApiPaused, RunId
  <2> QED
    BY <1>1, <2>2, <2>3, RegisteringKeepsWaiting
<1>3. CASE ResumePaused(k)
  <2>1. k \in 1..MaxClicks /\ tasks[k].how = "memory"
    BY <1>3 DEF ResumePaused, Coroutines, OwnCoroutines, Tasks
  <2>2. t \notin ApiThreads
    BY <1>1, <2>1 DEF Waiting, ClicksDriveTheChat
  <2>3. k \in Owners(t)
    BY <1>1, <2>1 DEF Owners
  <2>4. manager' = register_pending(manager, t, RunId(t))
    BY <1>3, <2>2 DEF ResumePaused, RunId
  <2> QED
    BY <1>1, <2>3, <2>4, RegisteringKeepsWaiting
<1>4. CASE PersistedPaused(k)
  BY <1>1, <1>4, FinishKeepsWaiting DEF PersistedPaused
<1> QED
  BY <1>2, <1>3, <1>4 DEF ReturnPaused

LEMMA WorkKeepsWaiting ==
    ASSUME Coroutines, Waiting, NEW k \in Tasks, Work(k)
    PROVE  Waiting'
<1> USE DEF Owns
<1>1. CASE Resume(k)
  BY <1>1, ResumeKeepsWaiting
<1>2. CASE Peek(k) /\ ~Lose(k)
  <2>1. UNCHANGED manager /\ tasks[k] \in Task /\ tasks[k].phase = "peeking"
    BY <1>2 DEF Peek, Coroutines
  <2>2. CASE Finish(k)
    BY <2>1, <2>2, FinishKeepsWaiting
  <2>3. CASE tasks' = [tasks EXCEPT ![k].phase = "loading"] /\ tasks[k].thread \notin ApiThreads
    <3> DEFINE x == [tasks[k] EXCEPT !.phase = "loading"]
    <3>1. tasks' = [tasks EXCEPT ![k] = x]
      BY <2>3
    <3>2. x.phase = "loading" /\ x.how = tasks[k].how /\ x.thread = tasks[k].thread
      BY <2>1 DEF Task
    <3>3. x.how = "persisted"
      BY <1>2, <2>1, <3>2, PeekMoves DEF Coroutines, ClickCoroutines
    <3> HIDE DEF x
    <3> QED
      BY <2>1, <2>3, <3>1, <3>2, <3>3, QuietMove DEF Waiting
  <2> QED
    BY <1>2, <2>2, <2>3 DEF Peek
<1>3. CASE Load(k) /\ ~Lose(k)
  <2>1. UNCHANGED manager
    BY <1>3 DEF Load
  <2> DEFINE x == AtNode(tasks[k], saved[tasks[k].thread], TRUE)
  <2>2. /\ k \in 1..MaxClicks /\ tasks[k].phase = "loading"
        /\ tasks[k] \in Task /\ saved[tasks[k].thread] \in Checkpoint
        /\ tasks' = [tasks EXCEPT ![k] = x]
    BY <1>3, LoadMoves DEF Moves
  <2>3. x.phase = "running" /\ x.how = tasks[k].how /\ x.thread = tasks[k].thread
    BY <2>2, AtNodeIsTask
  <2> HIDE DEF x
  <2>4. tasks[k].thread \notin ApiThreads
    BY <2>2 DEF Waiting, ClicksDriveTheChat
  <2> QED
    BY <2>1, <2>2, <2>3, <2>4, QuietMove DEF Waiting
<1>4. CASE PostCard(k)
  <2> DEFINE x == [tasks[k] EXCEPT !.phase = "posted"]
  <2>1. /\ UNCHANGED manager /\ tasks[k].phase = "running" /\ tasks[k] \in Task
        /\ tasks' = [tasks EXCEPT ![k] = x]
    BY <1>4, PostCardMoves DEF PostCard, Moves, Coroutines
  <2>2. x.phase = "posted" /\ x.how = tasks[k].how /\ x.thread = tasks[k].thread
    BY <2>1 DEF Task
  <2> HIDE DEF x
  <2>3. k \in 1..MaxClicks => tasks[k].thread \notin ApiThreads
    BY <2>1 DEF Waiting, ClicksDriveTheChat
  <2>4. \A t \in Threads : Owns(x, t) => Owns(tasks[k], t)
    BY <2>1, <2>2
  <2>5. x.phase # "idle" /\ Agree(manager')
    BY <2>1, <2>2 DEF Waiting
  <2>6. DOMAIN manager'.pending \subseteq DOMAIN manager.pending
    BY <2>1
  <2>7. k \in 1..MaxClicks /\ x.phase \in {"loading", "running", "posted"} => x.thread \notin ApiThreads
    BY <2>2, <2>3
  <2>8. tasks' = [tasks EXCEPT ![k] = x]
    BY <2>1
  <2> HIDE DEF Owns
  <2> QED
    BY <2>4, <2>5, <2>6, <2>7, <2>8, QuietMove
<1>5. CASE RunNode(k)
  <2>1. UNCHANGED manager
    BY <1>5 DEF RunNode
  <2>2. PICK o \in Checkpoint :
           /\ Driven(k) /\ tasks[k] \in Task
           /\ Moves(k, AtNode(tasks[k], o, FALSE))
    BY <1>5, RunNodeMoves
  <2> DEFINE x == AtNode(tasks[k], o, FALSE)
  <2>3. tasks' = [tasks EXCEPT ![k] = x]
    BY <2>2 DEF Moves
  <2>4. x.phase = "running" /\ x.how = tasks[k].how /\ x.thread = tasks[k].thread
    BY <2>2, AtNodeIsTask
  <2> HIDE DEF x
  <2>5. k \in 1..MaxClicks => tasks[k].thread \notin ApiThreads
    BY <2>2 DEF Waiting, ClicksDriveTheChat, Driven
  <2> QED
    BY <2>1, <2>2, <2>3, <2>4, <2>5, QuietMove DEF Waiting, Driven
<1>6. CASE ReturnPaused(k)
  BY <1>6, ReturnPausedKeepsWaiting
<1>7. CASE NodeRaises(k) \/ ReturnEnded(k)
  BY <1>7, FinishKeepsWaiting DEF NodeRaises, ReturnEnded
<1>9. CASE (Peek(k) \/ Load(k)) /\ Lose(k)
  BY <1>9, FinishKeepsWaiting DEF Peek, Load
<1> QED
  BY <1>1, <1>2, <1>3, <1>4, <1>5, <1>6, <1>7, <1>9 DEF Work

\* The clock and the cleanup take runs from the manager, and nothing else.
LEMMA ForgettingKeepsWaiting ==
    ASSUME Waiting, UNCHANGED tasks, Agree(manager'),
           DOMAIN manager'.pending \subseteq DOMAIN manager.pending
    PROVE  Waiting'
<1>1. \A t : Owners(t)' = Owners(t)
  BY DEF Owners
<1> QED
  BY <1>1 DEF Waiting, OneDriver, IsPending, ClicksDriveTheChat

LEMMA StepKeepsWaiting == Coroutines /\ Waiting /\ [Next]_vars => Waiting'
<1> SUFFICES ASSUME Coroutines, Waiting, [Next]_vars PROVE Waiting'
  OBVIOUS
<1>1. ASSUME NEW t \in Threads, _trigger_workflow(t) \/ receive_alert(t) PROVE Waiting'
  BY <1>1, BeginKeepsWaiting DEF _trigger_workflow, receive_alert
<1>2. ASSUME NEW t \in Threads, TimeOut(t) PROVE Waiting'
  BY <1>2, FinishKeepsWaiting DEF TimeOut, Tasks
<1>3. ASSUME NEW t \in Threads, GrowOld(t) PROVE Waiting'
  <2>1. t \in DOMAIN manager.pending /\ manager' = Age(manager, t) /\ UNCHANGED tasks
    BY <1>3 DEF GrowOld, IsPending
  <2> QED
    BY <2>1, AgeAgrees, ForgettingKeepsWaiting DEF Waiting
<1>4. CASE CleanupStarts \/ CleanupGoesOn
  <2>1. PICK t : manager' = remove(manager, t)
    BY <1>4 DEF CleanupStarts, CleanupGoesOn
  <2>2. UNCHANGED tasks
    BY <1>4 DEF CleanupStarts, CleanupGoesOn
  <2> QED
    BY <2>1, <2>2, RemoveAgrees, ForgettingKeepsWaiting DEF Waiting
<1>5. ASSUME NEW card \in Cards, NEW action \in Answers, Click(card, action) PROVE Waiting'
  <2> DEFINE n == Len(clicks) + 1
             x == At(card.thread, "called")
  <2>1. n \in Tasks /\ tasks' = [tasks EXCEPT ![n] = x]
    BY <1>5, ClickAdds
  <2>2. UNCHANGED manager
    BY <1>5 DEF Click
  <2>3. x.phase = "called"
    BY DEF At
  <2> HIDE DEF n, x
  <2>4. \A t \in Threads : ~Owns(x, t)
    BY <2>3 DEF Owns
  <2> QED
    BY <2>1, <2>2, <2>3, <2>4, QuietMove DEF Waiting
<1>6. CASE Restart
  <2>1. manager' = NoRuns
    BY <1>6 DEF Restart
  <2>2. Agree(manager') /\ DOMAIN manager'.pending = {}
    BY <2>1, NoRunsAgree DEF NoRuns, Empty
  <2>3. ASSUME NEW k \in Tasks PROVE tasks'[k].phase \in {"idle", "done", "lost", "killed"}
    <3>1. At(tasks[k].thread, "killed").phase = "killed"
      BY DEF At
    <3> QED
      BY <1>6, <3>1, RestartKills
  <2>4. \A t : Owners(t)' = {}
    BY <2>3 DEF Owners
  <2> QED
    BY <2>2, <2>3, <2>4 DEF Waiting, OneDriver, IsPending, ClicksDriveTheChat, Tasks
<1>7. CASE UNCHANGED vars
  BY <1>7, ForgettingKeepsWaiting DEF vars, Waiting
<1> QED
  BY <1>1, <1>2, <1>3, <1>4, <1>5, <1>6, <1>7, WorkKeepsWaiting DEF Next

LEMMA WaitingInvariant == Spec => [](Coroutines /\ Waiting)
<1>1. Init => Coroutines /\ Waiting
  BY InitCoroutines, InitWaiting
<1>2. Coroutines /\ Waiting /\ [Next]_vars => (Coroutines /\ Waiting)'
  BY StepKeepsCoroutines, StepKeepsWaiting
<1> QED
  BY <1>1, <1>2, PTL DEF Spec

\* However often the cards are clicked, and whatever the cleanup and the
\* restarts do meanwhile, a thread is registered or has one coroutine that may
\* register it, and never both (resume_by_thread, register_pending).
THEOREM EveryThreadHasOneOwner == Spec => []OneOwner
<1>1. Waiting => OneOwner
  <2> SUFFICES ASSUME Waiting, NEW t \in Threads
               PROVE  /\ IsPending(manager, t) => Owners(t) = {}
                      /\ Cardinality(Owners(t)) <= 1
    BY DEF OneOwner
  <2>1. \A j, k \in Owners(t) : j = k
    BY DEF Waiting, OneDriver
  <2>2. Cardinality(Owners(t)) <= 1
    <3>1. CASE Owners(t) = {}
      <4>1. Cardinality({}) = 0
        BY FS_EmptySet
      <4> QED
        BY <3>1, <4>1
    <3>2. ASSUME NEW k \in Owners(t) PROVE Cardinality(Owners(t)) <= 1
      <4>1. Owners(t) = {k}
        BY <2>1
      <4>2. Cardinality({k}) = 1
        BY FS_Singleton
      <4> QED
        BY <4>1, <4>2
    <3> QED
      BY <3>1, <3>2
  <2> QED
    BY <2>2 DEF Waiting, OneDriver
<1> QED
  BY <1>1, WaitingInvariant, PTL

\* The manager's dicts agree in every reachable state, so that an incident
\* leads to the run that waits for it and to no other (get_by_incident).
THEOREM DictsAgree == Spec => []IncidentsLeadToRuns
<1>1. Waiting => IncidentsLeadToRuns
  BY DEF Waiting, Agree, IncidentsLeadToRuns, get_by_incident
<1> QED
  BY <1>1, WaitingInvariant, PTL

\* A run of the chat is found by the incident its cards name as long as it waits,
\* after any resumption it came back from (_trigger_workflow, resume_by_thread).
THEOREM ChatRunsAreFound == Spec => []ChatCardsFindTheirRuns
<1>1. Coroutines /\ Waiting => ChatCardsFindTheirRuns
  <2> SUFFICES ASSUME Coroutines, Waiting, NEW t \in DOMAIN manager.pending \ ApiThreads
               PROVE  get_by_incident(manager, DbId(t)) = {t}
    BY DEF ChatCardsFindTheirRuns
  <2>1. get_by_incident(manager, DbId(t)) = {t} \ ApiThreads
    BY LookupFindsTheRow DEF Waiting
  <2> QED
    BY <2>1
<1> QED
  BY <1>1, WaitingInvariant, PTL

-----------------------------------------------------------------------------
(* The answers. *)

\* The coroutine of a click whose answer is on its way no more.
Spent(x) == x.phase \notin {"called", "peeking", "loading"} /\ ~x.answer

\* The approvals of a thread that have been used up.
Used(t) == {i \in Approvals(t) : Spent(tasks[i])}

Two(t) == \E i, j \in Approvals(t) : i # j

\* A run of thread t at checkpoint c has used an approval for every question it
\* is past.
Past(t, c) ==
    /\ c.node \in Confirmed => Used(t) # {}
    /\ c.st.approval_decisions # {} => Two(t)

Answered ==
    /\ \A t \in Threads : Past(t, saved[t])
    /\ \A k \in Tasks : Driven(k) => Past(tasks[k].thread, tasks[k])
    /\ \A e \in BagToSet(effects) : Two(e.thread)

\* The approvals of a thread are coroutines that were called.
LEMMA ApprovalsAreClicks ==
    ASSUME Coroutines, NEW t
    PROVE  /\ Approvals(t) \subseteq 1..Len(clicks)
           /\ Approvals(t) \subseteq Tasks
           /\ IsFiniteSet(Approvals(t))
<1>1. Len(clicks) \in Nat /\ Len(clicks) <= MaxClicks /\ MaxClicks \in Nat
  BY WorkflowRunsAssumption DEF Coroutines
<1>2. Approvals(t) \subseteq 1..Len(clicks)
  BY DEF Approvals, Coroutines
<1>3. IsFiniteSet(1..Len(clicks))
  BY <1>1, FS_Interval
<1> QED
  BY <1>1, <1>2, <1>3, FS_Subset DEF Tasks

\* The clicker's coroutine that approves is one of the approvals.
LEMMA ApproverApproves ==
    ASSUME Coroutines, NEW k \in Tasks, tasks[k].phase # "idle", ActionOf(k) = "approve"
    PROVE  k \in Approvals(tasks[k].thread)
<1>1. k \in 1..MaxClicks /\ clicks[k].action = "approve"
  BY DEF ActionOf, Tasks
<1>2. k <= Len(clicks) /\ tasks[k].thread = clicks[k].card.thread
  BY <1>1 DEF Coroutines, ClickCoroutines
<1>3. k \in DOMAIN clicks
  BY <1>1, <1>2 DEF Coroutines
<1> QED
  BY <1>1, <1>2, <1>3 DEF Approvals

\* A step of one coroutine forgets no approval that was used up.
LEMMA UsedStaysUsed ==
    ASSUME Coroutines, NEW k \in Tasks, NEW x, tasks' = [tasks EXCEPT ![k] = x],
           UNCHANGED clicks, Spent(tasks[k]) => Spent(x), NEW t
    PROVE  /\ Used(t) \subseteq Used(t)'
           /\ Approvals(t)' = Approvals(t)
           /\ Two(t) => Two(t)'
<1>1. Approvals(t)' = Approvals(t)
  BY DEF Approvals
<1>2. tasks'[k] = x /\ \A j \in Tasks : j # k => tasks'[j] = tasks[j]
  BY DEF Coroutines
<1>3. Used(t) \subseteq Used(t)'
  BY <1>1, <1>2, ApprovalsAreClicks DEF Used, Spent
<1> QED
  BY <1>1, <1>3 DEF Two

LEMMA CarriedOutIsApproved ==
    ASSUME Coroutines, Answered, NEW k \in Tasks, Driven(k), NEW e \in CarriedOut(k)
    PROVE  Two(e.thread)
<1>1. /\ e.thread = tasks[k].thread
      /\ Ran(tasks[k].st, Registered) # {}
  BY DEF CarriedOut
<1>2. tasks[k].st.approval_decisions # {}
  BY <1>1 DEF Ran, ToRun
<1> QED
  BY <1>1, <1>2 DEF Answered, Past

\* What a step adds to the effects was approved twice before.
LEMMA EffectsStayApproved ==
    ASSUME Answered, NEW S, effects' = effects (+) SetToBag(S), \A e \in S : Two(e.thread)
    PROVE  \A e \in BagToSet(effects') : Two(e.thread)
<1>1. BagToSet(effects') = BagToSet(effects) \cup S
  BY DEF BagToSet, (+), SetToBag
<1> QED
  BY <1>1 DEF Answered

\* A step of one coroutine that writes no checkpoint.
LEMMA MoveKeepsAnswered ==
    ASSUME Coroutines, Answered, NEW k \in Tasks, NEW x,
           tasks' = [tasks EXCEPT ![k] = x], UNCHANGED <<saved, clicks>>,
           Spent(tasks[k]) => Spent(x),
           x.phase \in {"running", "posted"} => Past(x.thread, x),
           \A e \in BagToSet(effects') : Two(e.thread)
    PROVE  Answered'
<1>1. \A t : /\ Used(t) # {} => Used(t)' # {}
             /\ Two(t) => Two(t)'
  BY UsedStaysUsed
<1>2. tasks'[k] = x /\ \A j \in Tasks : j # k => tasks'[j] = tasks[j]
  BY DEF Coroutines
<1>3. \A t \in Threads : Past(t, saved[t])'
  BY <1>1 DEF Answered, Past
<1>4. ASSUME NEW j \in Tasks, Driven(j)'
      PROVE  Past(tasks[j].thread, tasks[j])'
  <2>1. PICK u : u = tasks'[j].thread
    OBVIOUS
  <2>2. Past(u, tasks'[j])
    BY <1>2, <1>4, <2>1 DEF Answered, Driven
  <2>3. Used(u) # {} => Used(u)' # {}
    BY <1>1
  <2>4. Two(u) => Two(u)'
    BY <1>1
  <2> QED
    BY <2>1, <2>2, <2>3, <2>4 DEF Past, Used, Two, Approvals
<1>5. \A e \in BagToSet(effects') : Two(e.thread)'
  BY <1>1
<1> QED
  BY <1>3, <1>4, <1>5 DEF Answered

\* ... and carries nothing out.
LEMMA QuietMoveKeepsAnswered ==
    ASSUME Coroutines, Answered, NEW k \in Tasks, NEW x,
           tasks' = [tasks EXCEPT ![k] = x], UNCHANGED <<saved, clicks, effects>>,
           Spent(tasks[k]) => Spent(x),
           x.phase \in {"running", "posted"} => Past(x.thread, x)
    PROVE  Answered'
<1>1. \A e \in BagToSet(effects') : Two(e.thread)
  BY DEF Answered
<1> QED
  BY <1>1, MoveKeepsAnswered

LEMMA InitAnswered == Init => Answered
<1> SUFFICES ASSUME Init PROVE Answered
  OBVIOUS
<1>1. \A t \in Threads : saved[t].node = END /\ saved[t].st.approval_decisions = {}
  BY DEF Init, NoCheckpoint, build_initial_state
<1>2. \A k \in Tasks : ~Driven(k)
  BY DEF Init, At, Driven
<1>3. BagToSet(effects) = {}
  BY DEF Init, EmptyBag, SetToBag, BagToSet
<1> QED
  BY <1>1, <1>2, <1>3 DEF Answered, Past, Confirmed, END

\* A coroutine that ends, whatever it carried out on its way.
LEMMA FinishKeepsAnswered ==
    ASSUME Coroutines, Answered, NEW k \in Tasks, Finish(k) \/ Lose(k), UNCHANGED <<saved, clicks>>,
           \/ UNCHANGED effects
           \/ Driven(k) /\ effects' = effects (+) SetToBag(CarriedOut(k))
    PROVE  Answered'
<1>0. PICK phase \in {"done", "lost"} : tasks' = [tasks EXCEPT ![k] = At(tasks[k].thread, phase)]
  BY DEF Finish, Lose
<1> DEFINE x == At(tasks[k].thread, phase)
<1>1. tasks' = [tasks EXCEPT ![k] = x] /\ Spent(x) /\ x.phase \in {"done", "lost"}
  BY <1>0 DEF At, Spent
<1>2. \A e \in BagToSet(effects') : Two(e.thread)
  <2>1. CASE UNCHANGED effects
    BY <2>1 DEF Answered
  <2>2. CASE Driven(k) /\ effects' = effects (+) SetToBag(CarriedOut(k))
    BY <2>2, CarriedOutIsApproved, EffectsStayApproved
  <2> QED
    BY <2>1, <2>2
<1> HIDE DEF x
<1> QED
  BY <1>1, <1>2, MoveKeepsAnswered

\* A superstep that goes past a question has used the answer it was driven
\* with, and one that approves a plan has used two.
LEMMA RunNodeKeepsAnswered ==
    ASSUME Coroutines, Answered, NEW k \in Tasks, RunNode(k)
    PROVE  Answered'
<1>1. PICK o \in Outcomes(tasks[k].node, tasks[k].st, ActionOf(k)) :
         /\ Driven(k) /\ tasks[k] \in Task /\ tasks[k].node \in Nodes /\ o \in Checkpoint
         /\ saved' = [saved EXCEPT ![tasks[k].thread] = o]
         /\ Moves(k, AtNode(tasks[k], o, FALSE))
  BY RunNodeMoves
<1>2. PICK u \in Threads : u = tasks[k].thread
  BY <1>1 DEF Task
<1>3. tasks[k].st \in GraphState /\ tasks[k].phase \in {"running", "posted"}
  BY <1>1 DEF Task, Driven
<1> DEFINE x == AtNode(tasks[k], o, FALSE)
<1>4. /\ tasks' = [tasks EXCEPT ![k] = x] /\ Spent(x)
      /\ x.node = o.node /\ x.st = o.st /\ x.thread = u
  BY <1>1, <1>2, AtNodeIsTask DEF Moves, Spent
<1>5. UNCHANGED clicks
  BY DEF RunNode
<1>6. \A t : /\ Used(t) \subseteq Used(t)' /\ Approvals(t)' = Approvals(t)
             /\ Two(t) => Two(t)'
  BY <1>4, <1>5, UsedStaysUsed
<1>7. Past(u, tasks[k])
  BY <1>1, <1>2 DEF Answered
<1>8. tasks'[k] = x /\ \A j \in Tasks : j # k => tasks'[j] = tasks[j]
  BY <1>4 DEF Coroutines
<1>9. ActionOf(k) = "approve" => k \in Approvals(u) /\ k \in Used(u)'
  <2>1. ActionOf(k) = "approve" => k \in Approvals(u)
    BY <1>2, <1>3, ApproverApproves
  <2> QED
    BY <1>4, <1>6, <1>8, <2>1 DEF Used
<1>10. o.node \in Confirmed => Used(u)' # {}
  BY <1>3, <1>1, <1>6, <1>7, <1>9, OutcomesAreCheckpoints DEF Past
<1>11. o.st.approval_decisions # {} => Two(u)'
  <2>1. CASE o.st.approval_decisions = tasks[k].st.approval_decisions
    BY <1>6, <1>7, <2>1 DEF Past
  <2>2. CASE o.st.approval_decisions # tasks[k].st.approval_decisions
    <3>1. tasks[k].node = "await_proposal_approval" /\ ActionOf(k) = "approve"
      BY <1>1, <1>3, <2>2, OutcomesAreCheckpoints
    <3>2. tasks[k].answer
      BY <3>1 DEF RunNode, Paused, Interrupts
    <3>3. k \notin Used(u)
      BY <3>2 DEF Used, Spent
    <3>4. PICK i : i \in Used(u)
      BY <1>7, <3>1 DEF Past, Confirmed
    <3>5. Two(u)
      BY <1>9, <3>1, <3>3, <3>4 DEF Two, Used
    <3> QED
      BY <1>6, <3>5
  <2> QED
    BY <2>1, <2>2
<1>12. \A t \in Threads : Past(t, saved[t])'
  <2> SUFFICES ASSUME NEW t \in Threads
               PROVE  /\ saved'[t].node \in Confirmed => Used(t)' # {}
                      /\ saved'[t].st.approval_decisions # {} => Two(t)'
    BY DEF Past
  <2>1. CASE t = u
    <3>1. saved'[t] = o
      BY <1>1, <1>2, <2>1 DEF Coroutines
    <3> QED
      BY <1>10, <1>11, <2>1, <3>1
  <2>2. CASE t # u
    <3>1. saved'[t] = saved[t]
      BY <1>1, <1>2, <2>2 DEF Coroutines
    <3> QED
      BY <1>6, <3>1 DEF Answered, Past
  <2> QED
    BY <2>1, <2>2
<1>13. ASSUME NEW j \in Tasks, Driven(j)'
       PROVE  Past(tasks[j].thread, tasks[j])'
  <2>1. CASE j = k
    <3>1. tasks'[j].thread = u /\ tasks'[j].node = o.node /\ tasks'[j].st = o.st
      BY <1>4, <1>8, <2>1
    <3>2. tasks'[j].node \in Confirmed => Used(u)' # {}
      BY <1>10, <3>1
    <3>3. tasks'[j].st.approval_decisions # {} => Two(u)'
      BY <1>11, <3>1
    <3> QED
      BY <3>1, <3>2, <3>3 DEF Past, Used, Two, Approvals
  <2>2. CASE j # k
    <3>1. PICK v : v = tasks'[j].thread
      OBVIOUS
    <3>2. Past(v, tasks'[j])
      BY <1>8, <1>13, <2>2, <3>1 DEF Answered, Driven
    <3>3. Used(v) # {} => Used(v)' # {}
      BY <1>6
    <3>4. Two(v) => Two(v)'
      BY <1>6
    <3> QED
      BY <3>1, <3>2, <3>3, <3>4 DEF Past, Used, Two, Approvals
  <2> QED
    BY <2>1, <2>2
<1>14. \A e \in BagToSet(effects') : Two(e.thread)'
  <2>1. effects' = effects (+) SetToBag(CarriedOut(k))
    BY DEF RunNode
  <2>2. \A e \in CarriedOut(k) : Two(e.thread)
    BY <1>1, CarriedOutIsApproved
  <2> QED
    BY <1>6, <2>1, <2>2, EffectsStayApproved
<1> QED
  BY <1>12, <1>13, <1>14 DEF Answered

LEMMA WorkKeepsAnswered ==
    ASSUME Coroutines, Answered, NEW k \in Tasks, Work(k)
    PROVE  Answered'
<1>1. CASE Resume(k)
  <2>1. UNCHANGED <<saved, clicks, effects>> /\ tasks[k].phase = "called" /\ tasks[k] \in Task
    BY <1>1 DEF Resume, history, Coroutines
  <2>2. PICK how \in {"memory", "persisted"} :
           Moves(k, [tasks[k] EXCEPT !.phase = IF how = "memory" THEN "loading" ELSE "peeking",
                                     !.how = how])
    BY <1>1, ResumeMoves
  <2> DEFINE x == [tasks[k] EXCEPT !.phase = IF how = "memory" THEN "loading" ELSE "peeking",
                                   !.how = how]
  <2>3. x.phase \in {"loading", "peeking"} /\ tasks' = [tasks EXCEPT ![k] = x]
    BY <2>1, <2>2 DEF Moves, Task
  <2> HIDE DEF x
  <2>4. ~Spent(tasks[k]) /\ x.phase \notin {"running", "posted"}
    BY <2>1, <2>3 DEF Spent
  <2> QED
    BY <2>1, <2>3, <2>4, QuietMoveKeepsAnswered
<1>2. CASE Peek(k) /\ ~Lose(k)
  <2>1. UNCHANGED <<saved, clicks, effects>> /\ tasks[k].phase = "peeking" /\ tasks[k] \in Task
    BY <1>2 DEF Peek, history, Coroutines
  <2>2. CASE Finish(k)
    BY <2>1, <2>2, FinishKeepsAnswered
  <2>3. CASE tasks' = [tasks EXCEPT ![k].phase = "loading"]
    <3> DEFINE x == [tasks[k] EXCEPT !.phase = "loading"]
    <3>1. x.phase = "loading" /\ tasks' = [tasks EXCEPT ![k] = x]
      BY <2>1, <2>3 DEF Task
    <3> HIDE DEF x
    <3>2. ~Spent(tasks[k]) /\ x.phase \notin {"running", "posted"}
      BY <2>1, <3>1 DEF Spent
    <3> QED
      BY <2>1, <3>1, <3>2, QuietMoveKeepsAnswered
  <2> QED
    BY <1>2, <2>2, <2>3 DEF Peek
<1>3. CASE Load(k) /\ ~Lose(k)
  <2>1. UNCHANGED <<saved, clicks, effects>>
    BY <1>3 DEF Load, history
  <2> DEFINE c == saved[tasks[k].thread]
             x == AtNode(tasks[k], c, TRUE)
  <2>2. /\ tasks[k].phase = "loading" /\ tasks[k] \in Task /\ c \in Checkpoint
        /\ tasks' = [tasks EXCEPT ![k] = x]
    BY <1>3, LoadMoves DEF Moves
  <2>3. x.node = c.node /\ x.st = c.st /\ x.thread = tasks[k].thread
    BY <2>2, AtNodeIsTask
  <2>4. tasks[k].thread \in Threads
    BY <2>2 DEF Task
  <2>5. Past(tasks[k].thread, c)
    BY <2>4 DEF Answered
  <2> HIDE DEF x, c
  <2>6. Past(x.thread, x)
    BY <2>3, <2>5 DEF Past
  <2>7. ~Spent(tasks[k])
    BY <2>2 DEF Spent
  <2> QED
    BY <2>1, <2>2, <2>6, <2>7, QuietMoveKeepsAnswered
<1>4. CASE PostCard(k)
  <2>1. UNCHANGED <<saved, clicks, effects>> /\ tasks[k].phase = "running" /\ tasks[k] \in Task
    BY <1>4 DEF PostCard, history, Coroutines
  <2> DEFINE x == [tasks[k] EXCEPT !.phase = "posted"]
  <2>2. tasks' = [tasks EXCEPT ![k] = x]
    BY <1>4, PostCardMoves DEF Moves
  <2>3. /\ x.phase = "posted" /\ x.answer = tasks[k].answer /\ x.thread = tasks[k].thread
        /\ x.node = tasks[k].node /\ x.st = tasks[k].st
    BY <2>1 DEF Task
  <2> HIDE DEF x
  <2>4. Past(x.thread, x)
    BY <2>1, <2>3 DEF Answered, Driven, Past
  <2>5. Spent(tasks[k]) => Spent(x)
    BY <2>3 DEF Spent
  <2> QED
    BY <2>1, <2>2, <2>4, <2>5, QuietMoveKeepsAnswered
<1>5. CASE RunNode(k)
  BY <1>5, RunNodeKeepsAnswered
<1>6. CASE NodeRaises(k)
  BY <1>6, FinishKeepsAnswered DEF NodeRaises, Driven
<1>7. CASE ReturnPaused(k) \/ ReturnEnded(k)
  BY <1>7, FinishKeepsAnswered DEF ReturnPaused, ReturnEnded, history
<1>9. CASE (Peek(k) \/ Load(k)) /\ Lose(k)
  BY <1>9, FinishKeepsAnswered DEF Peek, Load, history
<1> QED
  BY <1>1, <1>2, <1>3, <1>4, <1>5, <1>6, <1>7, <1>9 DEF Work

\* A click adds an approval, and no step takes one away.
LEMMA ClickKeepsAnswered ==
    ASSUME Coroutines, Answered, NEW card \in Cards, NEW action \in Answers, Click(card, action)
    PROVE  Answered'
<1> DEFINE n == Len(clicks) + 1
           x == At(card.thread, "called")
<1>1. /\ n \in 1..MaxClicks /\ n \in Tasks /\ Len(clicks) \in Nat
      /\ Len(clicks') = n /\ clicks' \in Seq(Clicks)
      /\ clicks'[n].card = card /\ clicks'[n].action = action
      /\ \A i \in 1..Len(clicks) : clicks'[i] = clicks[i]
      /\ tasks' = [tasks EXCEPT ![n] = x]
      /\ x \in Task
  BY ClickAdds
<1>2. UNCHANGED <<saved, effects>> /\ x.phase = "called"
  BY DEF Click, At
<1> HIDE DEF x
<1>3. tasks'[n] = x /\ \A j \in Tasks : j # n => tasks'[j] = tasks[j]
  BY <1>1 DEF Coroutines
<1>4. DOMAIN clicks = 1..Len(clicks) /\ DOMAIN clicks' = 1..n
  BY <1>1 DEF Coroutines
<1> HIDE DEF n
<1>5. \A i \in 1..Len(clicks) : i \in 1..n /\ i # n
  BY <1>1 DEF n
<1>6. \A t : Approvals(t) \subseteq Approvals(t)'
  BY <1>1, <1>4, <1>5 DEF Approvals
<1>7. \A t : Used(t) \subseteq Used(t)'
  BY <1>3, <1>5, <1>6, ApprovalsAreClicks DEF Used, Spent
<1>8. \A t : /\ Used(t) # {} => Used(t)' # {}
             /\ Two(t) => Two(t)'
  BY <1>6, <1>7 DEF Two
<1>9. \A t \in Threads : Past(t, saved[t])'
  BY <1>2, <1>8 DEF Answered, Past
<1>10. ASSUME NEW j \in Tasks, Driven(j)'
       PROVE  Past(tasks[j].thread, tasks[j])'
  <2>1. tasks'[j] = tasks[j]
    BY <1>2, <1>3, <1>10 DEF Driven
  <2>2. PICK v : v = tasks[j].thread
    OBVIOUS
  <2>3. Past(v, tasks[j])
    BY <1>10, <2>1, <2>2 DEF Answered, Driven
  <2>4. Used(v) # {} => Used(v)' # {}
    BY <1>8
  <2>5. Two(v) => Two(v)'
    BY <1>8
  <2> QED
    BY <2>1, <2>2, <2>3, <2>4, <2>5 DEF Past, Used, Two, Approvals
<1>11. \A e \in BagToSet(effects') : Two(e.thread)'
  BY <1>2, <1>8 DEF Answered
<1> QED
  BY <1>9, <1>10, <1>11 DEF Answered

\* After a restart: what was being carried out was approved, and what is saved
\* has used its approvals.
LEMMA RestartKeepsAnswered ==
    ASSUME Coroutines, Answered, Restart
    PROVE  Answered'
<1>1. /\ \A k \in Tasks : \/ tasks'[k] = tasks[k] /\ tasks[k].phase \in {"idle", "done", "lost", "killed"}
                          \/ tasks[k].phase # "idle" /\ tasks'[k] = At(tasks[k].thread, "killed")
      /\ UNCHANGED clicks
  BY RestartKills DEF Restart
<1>2. \A t : Approvals(t)' = Approvals(t)
  BY <1>1 DEF Approvals
<1>3. \A k \in Tasks : Spent(tasks[k]) => Spent(tasks'[k])
  <2> TAKE k \in Tasks
  <2>1. Spent(At(tasks[k].thread, "killed"))
    BY DEF Spent, At
  <2> QED
    BY <1>1, <2>1
<1>4. \A t : Used(t) \subseteq Used(t)'
  BY <1>2, <1>3, ApprovalsAreClicks DEF Used
<1>5. \A t : /\ Used(t) # {} => Used(t)' # {}
             /\ Two(t) => Two(t)'
  BY <1>2, <1>4 DEF Two
<1>6. \A t \in Threads : Past(t, saved[t])'
  <2> SUFFICES ASSUME NEW t \in Threads
               PROVE  /\ saved'[t].node \in Confirmed => Used(t)' # {}
                      /\ saved'[t].st.approval_decisions # {} => Two(t)'
    BY DEF Past
  <2>1. CASE t \in ApiThreads
    <3>1. saved'[t] = NoCheckpoint
      BY <2>1 DEF Restart
    <3> QED
      BY <3>1 DEF NoCheckpoint, END, Confirmed, build_initial_state
  <2>2. CASE t \notin ApiThreads
    <3>1. saved'[t] = saved[t]
      BY <2>2 DEF Restart
    <3> QED
      BY <1>5, <3>1 DEF Answered, Past
  <2> QED
    BY <2>1, <2>2
<1>7. \A k \in Tasks : ~Driven(k)'
  <2> SUFFICES ASSUME NEW k \in Tasks PROVE tasks'[k].phase \notin {"running", "posted"}
    BY DEF Driven
  <2>1. At(tasks[k].thread, "killed").phase = "killed"
    BY DEF At
  <2> QED
    BY <1>1, <2>1
<1>8. \A e \in BagToSet(effects') : Two(e.thread)'
  <2>1. PICK K \in SUBSET {k \in Tasks : Driven(k) /\ CarriedOut(k) # {}} :
           effects' = effects (+) SetToBag(UNION {CarriedOut(k) : k \in K})
    BY DEF Restart
  <2>2. \A e \in UNION {CarriedOut(k) : k \in K} : Two(e.thread)
    BY CarriedOutIsApproved
  <2> QED
    BY <1>5, <2>1, <2>2, EffectsStayApproved
<1> QED
  BY <1>6, <1>7, <1>8 DEF Answered

LEMMA StepKeepsAnswered == Coroutines /\ Answered /\ [Next]_vars => Answered'
<1> SUFFICES ASSUME Coroutines, Answered, [Next]_vars PROVE Answered'
  OBVIOUS
<1>1. ASSUME NEW t \in Threads, _trigger_workflow(t) \/ receive_alert(t) PROVE Answered'
  <2> DEFINE x == At(t, "running")
  <2>1. /\ t \in Tasks /\ tasks' = [tasks EXCEPT ![t] = x]
        /\ UNCHANGED <<saved, clicks, effects>>
    BY <1>1 DEF _trigger_workflow, receive_alert, Begin, history, Tasks
  <2>2. Spent(x) /\ Past(x.thread, x)
    BY DEF At, Spent, Past, Confirmed, build_initial_state
  <2> HIDE DEF x
  <2> QED
    BY <2>1, <2>2, QuietMoveKeepsAnswered
<1>2. ASSUME NEW t \in Threads, TimeOut(t) PROVE Answered'
  BY <1>2, FinishKeepsAnswered DEF TimeOut, Tasks, history
<1>3. CASE UNCHANGED <<saved, tasks, clicks, effects>>
  BY <1>3 DEF Answered, Past, Used, Two, Approvals, Driven
<1>4. ASSUME NEW t \in Threads, GrowOld(t) PROVE Answered'
  BY <1>3, <1>4 DEF GrowOld, history
<1>5. CASE CleanupStarts \/ CleanupGoesOn
  BY <1>3, <1>5 DEF CleanupStarts, CleanupGoesOn, history
<1>6. CASE UNCHANGED vars
  BY <1>3, <1>6 DEF vars
<1> QED
  BY <1>1, <1>2, <1>4, <1>5, <1>6, ClickKeepsAnswered, RestartKeepsAnswered, WorkKeepsAnswered DEF Next

\* However the clicks race each other, the cleanup and the restarts, no plan is
\* carried out on a thread before two clicks approved something on it
\* (_resume_workflow, the two interrupts).
THEOREM TwoApprovalsFirst == Spec => []TwoApprovals
<1>1. Init => Coroutines /\ Answered
  BY InitCoroutines, InitAnswered
<1>2. Coroutines /\ Answered /\ [Next]_vars => (Coroutines /\ Answered)'
  BY StepKeepsCoroutines, StepKeepsAnswered
<1>3. Coroutines /\ Answered => TwoApprovals
  <2> SUFFICES ASSUME Coroutines, Answered, NEW e \in BagToSet(effects)
               PROVE  Cardinality(Approvals(e.thread)) >= 2
    BY DEF TwoApprovals
  <2>1. PICK i, j \in Approvals(e.thread) : i # j
    BY DEF Answered, Two
  <2>2. IsFiniteSet(Approvals(e.thread))
    BY ApprovalsAreClicks
  <2>3. Cardinality({i, j}) = 2
    <3>1. IsFiniteSet({i}) /\ Cardinality({i}) = 1
      BY FS_Singleton
    <3>2. Cardinality({i} \cup {j}) = IF j \in {i} THEN Cardinality({i}) ELSE Cardinality({i}) + 1
      BY <3>1, FS_AddElement, Zenon
    <3>3. j \notin {i} /\ {i} \cup {j} = {i, j}
      BY <2>1
    <3> QED
      BY <3>1, <3>2, <3>3
  <2>4. Cardinality({i, j}) <= Cardinality(Approvals(e.thread))
    BY <2>1, <2>2, FS_Subset
  <2>5. Cardinality(Approvals(e.thread)) \in Nat
    BY <2>2, FS_CardinalityType
  <2> QED
    BY <2>3, <2>4, <2>5
<1> QED
  BY <1>1, <1>2, <1>3, PTL DEF Spec

-----------------------------------------------------------------------------
(* Type correctness. *)

\* What the other layers do not say of the types.
Rest ==
    /\ overdue \subseteq Threads
    /\ sent \in [Cards -> Nat]
    /\ IsABag(effects) /\ BagToSet(effects) \subseteq Effects
    /\ given_up \subseteq Threads
    /\ restarts \in 0..MaxRestarts

\* Adding to the effects keeps them a bag.
LEMMA EffectsStayABag ==
    ASSUME NEW b, IsABag(b), BagToSet(b) \subseteq Effects, NEW S \in SUBSET Effects
    PROVE  IsABag(b (+) SetToBag(S)) /\ BagToSet(b (+) SetToBag(S)) \subseteq Effects
<1> DEFINE c == b (+) SetToBag(S)
<1>1. /\ DOMAIN c = DOMAIN b \cup S
      /\ c = [e \in DOMAIN c |-> c[e]]
      /\ \A e \in DOMAIN c :
            c[e] = (IF e \in DOMAIN b THEN b[e] ELSE 0) + (IF e \in S THEN 1 ELSE 0)
  BY DEF (+), SetToBag
<1>2. \A e \in DOMAIN b : b[e] \in Nat /\ b[e] > 0
  BY DEF IsABag
<1>3. \A e \in DOMAIN c : c[e] \in {n \in Nat : n > 0}
  BY <1>1, <1>2
<1> HIDE DEF c
<1> QED
  BY <1>1, <1>3 DEF IsABag, BagToSet, c

LEMMA CarriedOutIsTyped ==
    ASSUME Coroutines, NEW k \in Tasks
    PROVE  CarriedOut(k) \subseteq Effects
<1>1. tasks[k] \in Task /\ AllAuto(tasks[k].st) \in BOOLEAN
  BY DEF Coroutines, AllAuto
<1> QED
  BY <1>1 DEF CarriedOut, Effects, Task, GraphState

LEMMA InitRest == Init => Rest
<1> SUFFICES ASSUME Init PROVE Rest
  OBVIOUS
<1>1. effects = EmptyBag /\ IsABag(EmptyBag) /\ BagToSet(EmptyBag) = {}
  BY DEF Init, EmptyBag, SetToBag, BagToSet, IsABag
<1> QED
  BY <1>1, WorkflowRunsAssumption DEF Init, Rest

LEMMA WorkKeepsRest ==
    ASSUME Coroutines, Rest, NEW k \in Tasks, Work(k)
    PROVE  Rest'
<1>1. CASE UNCHANGED <<overdue, sent, effects, given_up, restarts>>
  BY <1>1 DEF Rest
<1>2. CASE Resume(k) \/ Peek(k) \/ Load(k) \/ ReturnPaused(k) \/ ReturnEnded(k)
  BY <1>1, <1>2 DEF Resume, Peek, Load, ReturnPaused, ReturnEnded, history
<1>3. CASE PostCard(k)
  <2>1. sent' \in [Cards -> Nat]
    BY <1>3 DEF PostCard, Rest
  <2>2. UNCHANGED <<overdue, effects, given_up, restarts>>
    BY <1>3 DEF PostCard, history
  <2> QED
    BY <2>1, <2>2 DEF Rest
<1>4. CASE RunNode(k) \/ NodeRaises(k)
  <2>1. effects' = effects (+) SetToBag(CarriedOut(k)) /\ UNCHANGED <<overdue, sent, given_up, restarts>>
    BY <1>4 DEF RunNode, NodeRaises
  <2>2. CarriedOut(k) \in SUBSET Effects
    BY CarriedOutIsTyped
  <2> QED
    BY <2>1, <2>2, EffectsStayABag DEF Rest
<1> QED
  BY <1>2, <1>3, <1>4 DEF Work

LEMMA StepKeepsRest == Coroutines /\ Waiting /\ Rest /\ [Next]_vars => Rest'
<1> SUFFICES ASSUME Coroutines, Waiting, Rest, [Next]_vars PROVE Rest'
  OBVIOUS
<1>1. CASE UNCHANGED <<overdue, sent, effects, given_up, restarts>>
  BY <1>1 DEF Rest
<1>2. ASSUME NEW t \in Threads, _trigger_workflow(t) \/ receive_alert(t) \/ TimeOut(t) \/ GrowOld(t)
      PROVE  Rest'
  BY <1>1, <1>2 DEF _trigger_workflow, receive_alert, Begin, TimeOut, GrowOld, history
<1>3. ASSUME NEW card \in Cards, NEW action \in Answers, Click(card, action) PROVE Rest'
  BY <1>1, <1>3 DEF Click
<1>4. CASE CleanupStarts \/ CleanupGoesOn
  <2>1. overdue' \subseteq Threads /\ given_up' \subseteq Threads
    BY <1>4 DEF CleanupStarts, CleanupGoesOn, Expired, Rest, Waiting, Agree
  <2>2. UNCHANGED <<sent, effects, restarts>>
    BY <1>4 DEF CleanupStarts, CleanupGoesOn, history
  <2> QED
    BY <2>1, <2>2 DEF Rest
<1>5. CASE Restart
  <2>1. PICK K \in SUBSET {k \in Tasks : Driven(k) /\ CarriedOut(k) # {}} :
           effects' = effects (+) SetToBag(UNION {CarriedOut(k) : k \in K})
    BY <1>5 DEF Restart
  <2>2. UNION {CarriedOut(k) : k \in K} \in SUBSET Effects
    BY CarriedOutIsTyped
  <2>3. restarts' \in 0..MaxRestarts
    BY <1>5, WorkflowRunsAssumption DEF Restart, Rest
  <2>4. overdue' = {} /\ UNCHANGED <<sent, given_up>>
    BY <1>5 DEF Restart
  <2> QED
    BY <2>1, <2>2, <2>3, <2>4, EffectsStayABag DEF Rest
<1>6. CASE UNCHANGED vars
  BY <1>1, <1>6 DEF vars
<1> QED
  BY <1>2, <1>3, <1>4, <1>5, <1>6, WorkKeepsRest DEF Next

\* Every variable keeps its type.
THEOREM TypeCorrect == Spec => []TypeOK
<1>1. Init => Coroutines /\ Waiting /\ Rest
  BY InitCoroutines, InitWaiting, InitRest
<1>2. Coroutines /\ Waiting /\ Rest /\ [Next]_vars => (Coroutines /\ Waiting /\ Rest)'
  BY StepKeepsCoroutines, StepKeepsWaiting, StepKeepsRest
<1>3. Coroutines /\ Waiting /\ Rest => TypeOK
  <2> SUFFICES ASSUME Coroutines, Waiting, Rest PROVE TypeOK
    OBVIOUS
  <2>1. \E n \in 0..MaxClicks : clicks \in [1..n -> Clicks]
    <3>1. Len(clicks) \in 0..MaxClicks /\ clicks \in [1..Len(clicks) -> Clicks]
      BY WorkflowRunsAssumption DEF Coroutines
    <3> QED
      BY <3>1
  <2> QED
    BY <2>1 DEF TypeOK, Coroutines, Waiting, Agree, Rest, Clicks, Effects
<1> QED
  BY <1>1, <1>2, <1>3, PTL DEF Spec

-----------------------------------------------------------------------------
(* A chat whose cards are clicked once. A thread then has one token: the   *)
(* alert that was not taken up yet, one card that can still be clicked, or *)
(* one coroutine that is on its way to an interrupt. Its invariant has     *)
(* four layers: OneToken; Places, where the token is with respect to the   *)
(* checkpoint; Consent, that a plan that may be resumed has been approved  *)
(* or is what the token is about; and Counts, that every execution is paid *)
(* for by an answer.                                                       *)

ChatThreads == Threads \ ApiThreads

PlanCard(t, plan) == [thread |-> t, kind |-> "plan", plan |-> plan]

CardsOn(t) == {c \in Cards : c.thread = t}

SendNodes == {"send_diagnosis_card", "send_proposal_card"}

Asking == SendNodes \cup Interrupts

\* A card that was delivered more often than it was clicked.
Open(c) == Cardinality(Clicked(c)) < sent[c]

\* A coroutine that has an answer to give, and one that is on its way in
\* ainvoke. A node that has posted its card only has its checkpoint to write.
Summoned(x) == x.phase \in {"called", "peeking", "loading"}
Live(x)     == x.phase = "running" /\ x.node # END /\ ~(x.node \in Interrupts /\ ~x.answer)

Holding(k, x) == Summoned(x) \/ Live(x) \/ (k \in Threads /\ x.phase = "idle")

Holds(k, t) == tasks[k].thread = t /\ Holding(k, tasks[k])

\* One token for each thread of the chat.
OneToken ==
    \A t \in ChatThreads :
        /\ \A j, k \in Tasks : Holds(j, t) /\ Holds(k, t) => j = k
        /\ \A k \in Tasks : \A c \in CardsOn(t) : Holds(k, t) => ~Open(c)
        /\ \A c, d \in CardsOn(t) : Open(c) /\ Open(d) => c = d
        /\ \A c \in CardsOn(t) : sent[c] <= Cardinality(Clicked(c)) + 1

LEMMA ClickedIsFinite ==
    ASSUME Coroutines, NEW c
    PROVE  IsFiniteSet(Clicked(c)) /\ Cardinality(Clicked(c)) \in Nat
<1>1. Len(clicks) \in Nat /\ DOMAIN clicks = 1..Len(clicks)
  BY DEF Coroutines
<1>2. IsFiniteSet(1..Len(clicks))
  BY <1>1, FS_Interval
<1>3. IsFiniteSet(Clicked(c))
  BY <1>1, <1>2, FS_Subset DEF Clicked
<1> QED
  BY <1>3, FS_CardinalityType

\* One more element, one more in number.
LEMMA CountOneMore ==
    ASSUME NEW S, IsFiniteSet(S), NEW x, x \notin S
    PROVE  /\ IsFiniteSet(S \cup {x})
           /\ Cardinality(S \cup {x}) = Cardinality(S) + 1
<1>1. Cardinality(S \cup {x}) = IF x \in S THEN Cardinality(S) ELSE Cardinality(S) + 1
  BY FS_AddElement, Zenon
<1>2. IsFiniteSet(S \cup {x})
  BY FS_AddElement
<1> QED
  BY <1>1, <1>2

\* A click is counted for its card and for no other.
LEMMA ClickIsCounted ==
    ASSUME Coroutines, NEW card \in Cards, NEW action \in Answers, Click(card, action)
    PROVE  /\ Cardinality(Clicked(card)') = Cardinality(Clicked(card)) + 1
           /\ \A c : c # card => Clicked(c)' = Clicked(c)
<1> DEFINE n == Len(clicks) + 1
<1>1. /\ Len(clicks) \in Nat /\ Len(clicks') = n /\ clicks' \in Seq(Clicks)
      /\ clicks'[n].card = card
      /\ \A i \in 1..Len(clicks) : clicks'[i] = clicks[i]
  BY ClickAdds
<1>2. DOMAIN clicks = 1..Len(clicks) /\ DOMAIN clicks' = 1..Len(clicks) \cup {n}
  BY <1>1 DEF Coroutines
<1>3. n \notin DOMAIN clicks
  BY <1>1, <1>2
<1> HIDE DEF n
<1>4. Clicked(card)' = Clicked(card) \cup {n}
  BY <1>1, <1>2 DEF Clicked
<1>5. n \notin Clicked(card)
  BY <1>3 DEF Clicked
<1>6. Cardinality(Clicked(card)') = Cardinality(Clicked(card)) + 1
  BY <1>4, <1>5, ClickedIsFinite, CountOneMore
<1>7. \A c : c # card => Clicked(c)' = Clicked(c)
  BY <1>1, <1>2 DEF Clicked
<1> QED
  BY <1>6, <1>7

\* The coroutine of the next click has not been called.
LEMMA NextClickIsIdle ==
    ASSUME Coroutines, Len(clicks) + 1 \in 1..MaxClicks
    PROVE  tasks[Len(clicks) + 1].phase = "idle" /\ Len(clicks) + 1 \notin Threads
<1>1. Len(clicks) \in Nat
  BY DEF Coroutines
<1>2. tasks[Len(clicks) + 1].phase = "idle"
  BY <1>1 DEF Coroutines, ClickCoroutines
<1> QED
  BY <1>2, WorkflowRunsAssumption

\* Nobody gets hold of a thread that another holds, unless a card is clicked.
LEMMA HoldersKeepOneToken ==
    ASSUME OneToken, UNCHANGED <<sent, clicks>>,
           \A k \in Tasks : Holding(k, tasks'[k]) =>
              Holding(k, tasks[k]) /\ tasks'[k].thread = tasks[k].thread
    PROVE  OneToken'
<1>1. \A t : \A k \in Tasks : Holds(k, t)' => Holds(k, t)
  BY DEF Holds, Holding, Live, Summoned
<1>2. \A c : /\ Clicked(c)' = Clicked(c)
             /\ Open(c)' = Open(c)
  BY DEF Clicked, Open
<1> QED
  BY <1>1, <1>2 DEF OneToken, CardsOn

\* ... which is so when one coroutine moves on or ends.
LEMMA MoveKeepsOneToken ==
    ASSUME Coroutines, OneToken, NEW k \in Tasks, NEW x, x.thread = tasks[k].thread,
           tasks' = [tasks EXCEPT ![k] = x], UNCHANGED <<sent, clicks>>,
           Holding(k, x) => Holding(k, tasks[k])
    PROVE  OneToken'
<1>1. tasks'[k] = x /\ \A j \in Tasks : j # k => tasks'[j] = tasks[j]
  BY DEF Coroutines
<1> QED
  BY <1>1, HoldersKeepOneToken

LEMMA InitOneToken == Init => OneToken
<1> SUFFICES ASSUME Init PROVE OneToken
  OBVIOUS
<1>1. Coroutines
  BY InitCoroutines
<1>2. \A c \in Cards : sent[c] = 0 /\ Cardinality(Clicked(c)) \in Nat
  BY <1>1, ClickedIsFinite DEF Init
<1>3. \A c \in Cards : ~Open(c) /\ sent[c] <= Cardinality(Clicked(c)) + 1
  BY <1>2 DEF Open
<1>4. \A k \in Tasks : tasks[k].phase = "idle"
  BY DEF Init, At
<1>5. \A k \in Tasks, t \in ChatThreads : Holds(k, t) => k = t
  BY <1>1, <1>4 DEF Holds, Holding, Live, Summoned, Coroutines, OwnCoroutines
<1> QED
  BY <1>3, <1>5 DEF OneToken, CardsOn

-----------------------------------------------------------------------------
(* The way through the graph. *)

\* The nodes before the first answer.
Early == {"ingest", "triage", "diagnose", "send_diagnosis_card", "await_diagnosis_approval"}

\* Where the edges of create_workflow lead: a card is followed by its question
\* and nothing else is, a rejection by the escalation and that by the end, a
\* plan's card only by the policy, and the execution by an approval of the plan
\* at hand or by a policy that releases all of it.
LEMMA Routes ==
    ASSUME NEW n \in Nodes, NEW s \in GraphState, NEW a, NEW o \in Outcomes(n, s, a)
    PROVE  /\ n = "send_diagnosis_card" => o = To("await_diagnosis_approval", s)
           /\ n = "send_proposal_card" => o = To("await_proposal_approval", s)
           /\ n \notin SendNodes => o.node \notin Interrupts
           /\ n \in Interrupts /\ a = "reject" => o.node = "escalate"
           /\ n = "escalate" => o.node = END
           /\ n \in {"ingest", "triage", "diagnose"} => o.node \in Early \cup {END}
           /\ o.node = "send_proposal_card" => n = "policy_evaluate"
           /\ o.node = "execute" =>
                 \/ n = "await_proposal_approval" /\ o.st.proposals = s.proposals
                 \/ n = "policy_evaluate" /\ AllAuto(o.st)
<1> USE DEF To, Interrupts, SendNodes, Early
<1>1. CASE n = "ingest"
  <2>1. PICK x : o = To(should_continue_after_ingest(x), x)
    BY <1>1 DEF Outcomes
  <2>2. o.node \in {END, "triage"}
    BY <2>1 DEF should_continue_after_ingest
  <2> QED
    BY <1>1, <2>2 DEF END
<1>2. CASE n \in {"triage", "diagnose"}
  <2>1. o.node \in {"diagnose", "send_diagnosis_card"}
    BY <1>2 DEF Outcomes
  <2> QED
    BY <1>2, <2>1
<1>3. CASE n \in SendNodes
  <2>1. /\ n = "send_diagnosis_card" => o = To("await_diagnosis_approval", s)
        /\ n = "send_proposal_card" => o = To("await_proposal_approval", s)
    BY <1>3 DEF Outcomes
  <2> QED
    BY <1>3, <2>1
<1>4. CASE n = "await_diagnosis_approval"
  <2> DEFINE x == await_diagnosis_approval_node(s, a)
  <2>1. o.node = should_continue_after_diagnosis_approval(x)
    BY <1>4 DEF Outcomes
  <2>2. x.diagnosis_approved = (a = "approve")
    BY DEF await_diagnosis_approval_node, GraphState
  <2> HIDE DEF x
  <2>3. o.node = IF a = "approve" THEN "propose" ELSE "escalate"
    BY <2>1, <2>2 DEF should_continue_after_diagnosis_approval
  <2> QED
    BY <1>4, <2>3
<1>5. CASE n = "propose"
  <2>1. PICK x : o = To(should_continue_after_propose(x), x)
    BY <1>5 DEF Outcomes
  <2>2. o.node \in {"resolve", "escalate", "policy_evaluate"}
    BY <2>1 DEF should_continue_after_propose
  <2> QED
    BY <1>5, <2>2
<1>6. CASE n = "policy_evaluate"
  <2>1. PICK x : o = To(should_continue_after_policy(x), x)
    BY <1>6 DEF Outcomes
  <2>2. /\ o.node \in {"escalate", "execute", "send_proposal_card"}
        /\ o.node = "execute" => AllAuto(o.st)
    BY <2>1 DEF should_continue_after_policy
  <2> QED
    BY <1>6, <2>2
<1>7. CASE n = "await_proposal_approval"
  <2> DEFINE x == await_proposal_approval_node(s, a)
  <2>1. o.node = should_continue_after_proposal_approval(x) /\ o.st = x
    BY <1>7 DEF Outcomes
  <2>2. x.proposals_approved = (a = "approve") /\ x.proposals = s.proposals
    BY DEF await_proposal_approval_node, GraphState
  <2> HIDE DEF x
  <2>3. o.node = IF a = "approve" THEN "execute" ELSE "escalate"
    BY <2>1, <2>2 DEF should_continue_after_proposal_approval
  <2> QED
    BY <1>7, <2>1, <2>2, <2>3
<1>8. CASE n = "execute"
  <2>1. PICK x : o = To(should_continue_after_execute(x), x)
    BY <1>8 DEF Outcomes
  <2>2. o.node \in {"verify", "propose", "escalate"}
    BY <2>1 DEF should_continue_after_execute
  <2> QED
    BY <1>8, <2>2
<1>9. CASE n = "verify"
  <2>1. PICK x : o = To(should_continue_after_verify(x), x)
    BY <1>9 DEF Outcomes
  <2>2. o.node \in {"resolve", "escalate"}
    BY <2>1 DEF should_continue_after_verify
  <2> QED
    BY <1>9, <2>2
<1>10. CASE n \in {"resolve", "escalate"}
  <2>1. o.node = END
    BY <1>10 DEF Outcomes
  <2> QED
    BY <1>10, <2>1 DEF END
<1> QED
  BY <1>1, <1>2, <1>3, <1>4, <1>5, <1>6, <1>7, <1>8, <1>9, <1>10 DEF Nodes

\* The two nodes that send a card send one for their thread.
LEMMA SendersSendCards ==
    ASSUME NEW t, NEW n, NEW s
    PROVE  /\ CardsOf(t, n, s) = {} <=> n \notin SendNodes
           /\ n = "send_proposal_card" => CardsOf(t, n, s) = {PlanCard(t, s.proposals)}
           /\ n = "send_diagnosis_card" =>
                 CardsOf(t, n, s) = {[thread |-> t, kind |-> "diagnosis", plan |-> <<>>]}
BY DEF CardsOf, SendNodes, PlanCard

-----------------------------------------------------------------------------
(* One token. *)

\* A click takes the one card that is open, and its coroutine the token.
LEMMA ClickKeepsOneToken ==
    ASSUME Coroutines, Rest, ClickOnce, OneToken,
           NEW card \in Cards, NEW action \in Answers, Click(card, action)
    PROVE  Open(card) /\ OneToken'
<1> DEFINE x == At(card.thread, "called")
<1>1. PICK n \in 1..MaxClicks :
         /\ n = Len(clicks) + 1 /\ n \in Tasks
         /\ tasks' = [tasks EXCEPT ![n] = x]
  BY ClickAdds
<1>2. tasks'[n] = x /\ \A j \in Tasks : j # n => tasks'[j] = tasks[j]
  BY <1>1 DEF Coroutines
<1>3. x.thread = card.thread
  BY DEF At
<1> HIDE DEF x
<1>4. /\ Cardinality(Clicked(card)') = Cardinality(Clicked(card)) + 1
      /\ \A c : c # card => Clicked(c)' = Clicked(c)
  BY ClickIsCounted
<1>5. sent' = sent
  BY DEF Click
<1>6. Open(card)
  BY DEF Click, Open, Clicked
<1>7. \A c \in Cards : c # card => (Open(c)' <=> Open(c))
  BY <1>4, <1>5 DEF Open
<1>8. Cardinality(Clicked(card)) \in Nat /\ sent[card] \in Nat
  BY ClickedIsFinite DEF Rest
<1>9. card.thread \in ChatThreads => ~Open(card)'
  BY <1>4, <1>5, <1>6, <1>8 DEF OneToken, CardsOn, Open
<1>10. \A t : \A j \in Tasks : j # n => (Holds(j, t)' <=> Holds(j, t))
  BY <1>2 DEF Holds, Holding, Live, Summoned
<1>11. \A t : Holds(n, t)' => t = card.thread
  BY <1>1, <1>2, <1>3 DEF Holds
<1>12. ASSUME NEW t \in ChatThreads
       PROVE  /\ \A j, k \in Tasks : Holds(j, t)' /\ Holds(k, t)' => j = k
              /\ \A k \in Tasks : \A c \in CardsOn(t) : Holds(k, t)' => ~Open(c)'
              /\ \A c, d \in CardsOn(t) : Open(c)' /\ Open(d)' => c = d
              /\ \A c \in CardsOn(t) : sent'[c] <= Cardinality(Clicked(c)') + 1
  <2>1. CASE t = card.thread
    <3>1. \A k \in Tasks : ~Holds(k, t)
      BY <1>6, <2>1 DEF OneToken, CardsOn
    <3>2. \A c \in CardsOn(t) : ~Open(c)'
      BY <1>6, <1>7, <1>9, <2>1 DEF OneToken, CardsOn
    <3>3. \A c \in CardsOn(t) : sent'[c] <= Cardinality(Clicked(c)') + 1
      BY <1>4, <1>5, <1>8 DEF OneToken, CardsOn
    <3> QED
      BY <1>10, <3>1, <3>2, <3>3
  <2>2. CASE t # card.thread
    <3>1. \A c \in CardsOn(t) : c # card
      BY <2>2 DEF CardsOn
    <3>2. \A k \in Tasks : Holds(k, t)' => Holds(k, t)
      BY <1>10, <1>11, <2>2
    <3>3. \A c \in CardsOn(t) : sent'[c] <= Cardinality(Clicked(c)') + 1
      BY <1>4, <1>5, <3>1 DEF OneToken, CardsOn
    <3>4. \A c \in CardsOn(t) : Open(c)' <=> Open(c)
      BY <1>7, <3>1 DEF CardsOn
    <3> QED
      BY <3>2, <3>3, <3>4 DEF OneToken
  <2> QED
    BY <2>1, <2>2
<1> QED
  BY <1>6, <1>12 DEF OneToken, CardsOn

\* A node hands the token to the card it delivers.
LEMMA PostCardHands ==
    ASSUME Coroutines, Rest, OneToken, NEW k \in Tasks, PostCard(k),
           NEW t \in ChatThreads, t = tasks[k].thread
    PROVE  /\ Holds(k, t) /\ tasks[k].node \in SendNodes
           /\ \A j \in Tasks : ~Holds(j, t)'
           /\ \A c \in CardsOn(t) : Open(c)' => CardsOf(t, tasks[k].node, tasks[k].st) = {c}
           /\ \A c \in CardsOn(t) : sent'[c] <= Cardinality(Clicked(c)) + 1
<1> DEFINE x == [tasks[k] EXCEPT !.phase = "posted"]
           cards == CardsOf(t, tasks[k].node, tasks[k].st)
<1>1. tasks' = [tasks EXCEPT ![k] = x] /\ tasks[k] \in Task /\ tasks[k].phase = "running"
  BY DEF PostCard, Coroutines
<1>2. tasks[k].node \in SendNodes /\ cards # {}
  BY SendersSendCards DEF PostCard
<1>3. Holds(k, t)
  BY <1>1, <1>2 DEF Holds, Holding, Live, SendNodes, Interrupts, END
<1>4. x.phase = "posted" /\ x.thread = t
  BY <1>1 DEF Task
<1>5. tasks'[k] = x /\ \A j \in Tasks : j # k => tasks'[j] = tasks[j]
  BY <1>1 DEF Coroutines
<1>6. \A j \in Tasks : ~Holds(j, t)'
  <2> TAKE j \in Tasks
  <2>1. CASE j = k
    BY <1>4, <1>5, <2>1 DEF Holds, Holding, Live, Summoned
  <2>2. CASE j # k
    <3>1. ~Holds(j, t)
      BY <1>3, <2>2 DEF OneToken
    <3> QED
      BY <1>5, <2>2, <3>1 DEF Holds, Holding, Live, Summoned
  <2> QED
    BY <2>1, <2>2
<1>7. PICK posted \in {{}, cards} :
         sent' = [c \in Cards |-> IF c \in posted THEN sent[c] + 1 ELSE sent[c]]
  BY DEF PostCard
<1>8. \A c \in cards : c.thread = t
  BY DEF CardsOf
<1>9. \E d : cards = {d}
  <2>1. CASE tasks[k].node = "send_proposal_card"
    <3>1. cards = {PlanCard(t, tasks[k].st.proposals)}
      BY <2>1, SendersSendCards
    <3> QED
      BY <3>1
  <2>2. CASE tasks[k].node = "send_diagnosis_card"
    BY <2>2, SendersSendCards
  <2> QED
    BY <1>2, <2>1, <2>2 DEF SendNodes
<1> HIDE DEF cards
<1>10. UNCHANGED clicks
  BY DEF PostCard, history
<1>11. \A c : Clicked(c)' = Clicked(c)
  BY <1>10 DEF Clicked
<1>12. ASSUME NEW c \in CardsOn(t)
       PROVE  /\ Open(c)' => cards = {c}
              /\ sent'[c] <= Cardinality(Clicked(c)) + 1
  <2>1. ~Open(c) /\ c \in Cards
    BY <1>3, <1>12 DEF OneToken, CardsOn
  <2>2. sent[c] \in Nat /\ Cardinality(Clicked(c)) \in Nat
    BY <2>1, ClickedIsFinite DEF Rest
  <2>3. sent[c] <= Cardinality(Clicked(c))
    BY <2>1, <2>2 DEF Open
  <2>4. Open(c)' => c \in cards
    BY <1>7, <1>11, <2>1, <2>3 DEF Open
  <2>5. sent'[c] <= Cardinality(Clicked(c)) + 1
    BY <1>7, <2>1, <2>2, <2>3
  <2> QED
    BY <1>9, <2>4, <2>5
<1> QED
  BY <1>2, <1>3, <1>6, <1>12 DEF cards

LEMMA PostCardKeepsOneToken ==
    ASSUME Coroutines, Rest, OneToken, NEW k \in Tasks, PostCard(k)
    PROVE  OneToken'
<1> DEFINE x == [tasks[k] EXCEPT !.phase = "posted"]
<1>1. /\ tasks' = [tasks EXCEPT ![k] = x] /\ tasks[k] \in Task /\ UNCHANGED clicks
  BY DEF PostCard, Coroutines, history
<1>u. PICK u \in Threads : u = tasks[k].thread
  BY <1>1 DEF Task
<1>2. x.phase = "posted" /\ x.thread = u
  BY <1>1, <1>u DEF Task
<1>3. tasks'[k] = x /\ \A j \in Tasks : j # k => tasks'[j] = tasks[j]
  BY <1>1 DEF Coroutines
<1> HIDE DEF x
<1>4. \A c : Clicked(c)' = Clicked(c)
  BY <1>1 DEF Clicked
<1>5. \A c \in Cards : c.thread # u => sent'[c] = sent[c]
  <2>1. PICK posted \in {{}, CardsOf(u, tasks[k].node, tasks[k].st)} :
           sent' = [c \in Cards |-> IF c \in posted THEN sent[c] + 1 ELSE sent[c]]
    BY <1>u DEF PostCard
  <2>2. \A c \in posted : c.thread = u
    BY DEF CardsOf
  <2> QED
    BY <2>1, <2>2
<1>6. ASSUME NEW t \in ChatThreads
      PROVE  /\ \A i, j \in Tasks : Holds(i, t)' /\ Holds(j, t)' => i = j
             /\ \A j \in Tasks : \A c \in CardsOn(t) : Holds(j, t)' => ~Open(c)'
             /\ \A c, d \in CardsOn(t) : Open(c)' /\ Open(d)' => c = d
             /\ \A c \in CardsOn(t) : sent'[c] <= Cardinality(Clicked(c)') + 1
  <2>1. CASE t = u
    <3>1. u \in ChatThreads
      BY <2>1
    <3>2. /\ \A j \in Tasks : ~Holds(j, u)'
          /\ \A c \in CardsOn(u) : Open(c)' => CardsOf(u, tasks[k].node, tasks[k].st) = {c}
          /\ \A c \in CardsOn(u) : sent'[c] <= Cardinality(Clicked(c)) + 1
      BY <1>u, <3>1, PostCardHands
    <3> QED
      BY <1>4, <2>1, <3>2
  <2>2. CASE t # u
    <3>1. \A j \in Tasks : Holds(j, t)' => Holds(j, t)
      BY <1>2, <1>3, <1>u, <2>2 DEF Holds, Holding, Live, Summoned
    <3>2. \A c \in CardsOn(t) : /\ sent'[c] = sent[c]
                                /\ Open(c)' <=> Open(c)
      BY <1>4, <1>5, <2>2 DEF CardsOn, Open
    <3> QED
      BY <1>4, <3>1, <3>2 DEF OneToken
  <2> QED
    BY <2>1, <2>2
<1> QED
  BY <1>6 DEF OneToken, CardsOn

\* A superstep keeps the token with its coroutine, or has handed it over before.
LEMMA RunNodeKeepsOneToken ==
    ASSUME Coroutines, OneToken, NEW k \in Tasks, RunNode(k)
    PROVE  OneToken'
<1>1. PICK o \in Outcomes(tasks[k].node, tasks[k].st, ActionOf(k)) :
         /\ Driven(k) /\ tasks[k] \in Task /\ tasks[k].node \in Nodes /\ o \in Checkpoint
         /\ saved' = [saved EXCEPT ![tasks[k].thread] = o]
         /\ Moves(k, AtNode(tasks[k], o, FALSE))
  BY RunNodeMoves
<1>2. tasks[k].st \in GraphState
  BY <1>1 DEF Task
<1> DEFINE x == AtNode(tasks[k], o, FALSE)
<1>3. /\ tasks' = [tasks EXCEPT ![k] = x] /\ x.thread = tasks[k].thread
      /\ x.phase = "running" /\ x.node = o.node /\ ~x.answer
  BY <1>1, AtNodeIsTask DEF Moves
<1> HIDE DEF x
<1>4. Holding(k, x) => Holding(k, tasks[k])
  <2>1. CASE tasks[k].node \in SendNodes
    <3>1. o.node \in Interrupts
      BY <1>1, <1>2, <2>1, Routes DEF SendNodes, To, Interrupts
    <3> QED
      BY <1>3, <3>1 DEF Holding, Live, Summoned
  <2>2. CASE tasks[k].node \notin SendNodes
    <3>1. tasks[k].phase = "running" /\ tasks[k].node # END /\ ~Paused(k)
      BY <2>2, SendersSendCards DEF RunNode
    <3> QED
      BY <3>1 DEF Holding, Live, Paused
  <2> QED
    BY <2>1, <2>2
<1>5. UNCHANGED <<sent, clicks>>
  BY DEF RunNode
<1> QED
  BY <1>3, <1>4, <1>5, MoveKeepsOneToken

\* A coroutine that ends drops the token.
LEMMA FinishKeepsOneToken ==
    ASSUME Coroutines, OneToken, NEW k \in Tasks, Finish(k) \/ Lose(k), UNCHANGED <<sent, clicks>>
    PROVE  OneToken'
<1>0. PICK phase \in {"done", "lost"} : tasks' = [tasks EXCEPT ![k] = At(tasks[k].thread, phase)]
  BY DEF Finish, Lose
<1> DEFINE x == At(tasks[k].thread, phase)
<1>1. tasks' = [tasks EXCEPT ![k] = x] /\ x.phase \in {"done", "lost"} /\ x.thread = tasks[k].thread
  BY <1>0 DEF At
<1> HIDE DEF x
<1>2. ~Holding(k, x)
  BY <1>1 DEF Holding, Live, Summoned
<1> QED
  BY <1>1, <1>2, MoveKeepsOneToken

LEMMA WorkKeepsOneToken ==
    ASSUME Coroutines, Rest, OneToken, NEW k \in Tasks, Work(k)
    PROVE  OneToken'
<1>1. CASE Resume(k)
  <2>1. PICK how \in {"memory", "persisted"} :
           Moves(k, [tasks[k] EXCEPT !.phase = IF how = "memory" THEN "loading" ELSE "peeking",
                                     !.how = how])
    BY <1>1, ResumeMoves
  <2>2. Holding(k, tasks[k]) /\ UNCHANGED <<sent, clicks>>
    BY <1>1 DEF Resume, Holding, Summoned, history
  <2> QED
    BY <2>1, <2>2, MoveKeepsOneToken DEF Moves
<1>2. CASE Peek(k) /\ ~Lose(k)
  <2>1. Holding(k, tasks[k]) /\ UNCHANGED <<sent, clicks>>
    BY <1>2 DEF Peek, Holding, Summoned, history
  <2>2. CASE Finish(k)
    BY <2>1, <2>2, FinishKeepsOneToken
  <2>3. CASE tasks' = [tasks EXCEPT ![k].phase = "loading"]
    <3>1. tasks' = [tasks EXCEPT ![k] = [tasks[k] EXCEPT !.phase = "loading"]]
      BY <2>3
    <3>2. [tasks[k] EXCEPT !.phase = "loading"].thread = tasks[k].thread
      BY DEF Coroutines, Task
    <3> QED
      BY <2>1, <3>1, <3>2, MoveKeepsOneToken
  <2> QED
    BY <1>2, <2>2, <2>3 DEF Peek
<1>3. CASE Load(k) /\ ~Lose(k)
  <2>1. Moves(k, AtNode(tasks[k], saved[tasks[k].thread], TRUE))
    BY <1>3, LoadMoves
  <2>2. Holding(k, tasks[k]) /\ UNCHANGED <<sent, clicks>>
    BY <1>3 DEF Load, Holding, Summoned, history
  <2> QED
    BY <2>1, <2>2, MoveKeepsOneToken DEF Moves
<1>4. CASE NodeRaises(k) \/ ReturnPaused(k) \/ ReturnEnded(k)
  BY <1>4, FinishKeepsOneToken DEF NodeRaises, ReturnPaused, ReturnEnded, history
<1>9. CASE (Peek(k) \/ Load(k)) /\ Lose(k)
  BY <1>9, FinishKeepsOneToken DEF Peek, Load, history
<1> QED
  BY <1>1, <1>2, <1>3, <1>4, <1>9, PostCardKeepsOneToken, RunNodeKeepsOneToken DEF Work

LEMMA StepKeepsOneToken ==
    Coroutines /\ Rest /\ ClickOnce /\ OneToken /\ [Next]_vars => OneToken'
<1> SUFFICES ASSUME Coroutines, Rest, ClickOnce, OneToken, [Next]_vars PROVE OneToken'
  OBVIOUS
<1>1. ASSUME NEW t \in Threads, _trigger_workflow(t) \/ receive_alert(t) PROVE OneToken'
  <2>1. Begin(t) /\ t \in Tasks
    BY <1>1 DEF _trigger_workflow, receive_alert, Tasks
  <2>2. Moves(t, At(t, "running"))
    BY <2>1, BeginMoves
  <2>3. Holding(t, tasks[t]) /\ UNCHANGED <<sent, clicks>>
    BY <2>1 DEF Begin, Holding, history
  <2> QED
    BY <2>1, <2>2, <2>3, MoveKeepsOneToken DEF Moves
<1>2. ASSUME NEW t \in Threads, TimeOut(t) PROVE OneToken'
  BY <1>2, FinishKeepsOneToken DEF TimeOut, Tasks, history
<1>3. CASE UNCHANGED <<tasks, sent, clicks>>
  BY <1>3, HoldersKeepOneToken
<1>4. ASSUME NEW t \in Threads, GrowOld(t) PROVE OneToken'
  BY <1>3, <1>4 DEF GrowOld, history
<1>5. CASE CleanupStarts \/ CleanupGoesOn
  BY <1>3, <1>5 DEF CleanupStarts, CleanupGoesOn, history
<1>6. CASE Restart
  <2>1. \A k \in Tasks :
           \/ tasks'[k] = tasks[k]
           \/ tasks'[k] = At(tasks[k].thread, "killed")
    BY <1>6, RestartKills
  <2>2. ASSUME NEW k \in Tasks, Holding(k, tasks'[k]) PROVE tasks'[k] = tasks[k]
    <3>1. At(tasks[k].thread, "killed").phase = "killed"
      BY DEF At
    <3> QED
      BY <2>1, <2>2, <3>1 DEF Holding, Live, Summoned
  <2>3. sent' = sent /\ clicks' = clicks
    BY <1>6 DEF Restart
  <2> QED
    BY <2>2, <2>3, HoldersKeepOneToken
<1>7. CASE UNCHANGED vars
  BY <1>3, <1>7 DEF vars
<1> QED
  BY <1>1, <1>2, <1>4, <1>5, <1>6, <1>7, ClickKeepsOneToken, WorkKeepsOneToken DEF Next

-----------------------------------------------------------------------------
(* Where the token is. *)

\* The node that sends card d is the one checkpoint c goes on with, if c goes
\* on with a node that sends a card.
Fits(d, c) == c.node \in SendNodes => CardsOf(d.thread, c.node, c.st) = {d}

\* The holder k, being x, of a thread whose checkpoint is c.
Placed(k, x, c) ==
    /\ Summoned(x) => c.node \in Asking /\ Fits(clicks[k].card, c)
    /\ Live(x) => x.node = "ingest" \/ c.node \in Interrupts \/ c = To(x.node, x.st)
    /\ Live(x) /\ x.answer => x.node \in Asking /\ Fits(clicks[k].card, To(x.node, x.st))
    /\ Live(x) /\ ~x.answer /\ k \notin Threads =>
          clicks[k].action = "approve" \/ x.node = "escalate"

PlacedOn(t) ==
    /\ \A k \in Tasks : Holds(k, t) => Placed(k, tasks[k], saved[t])
    /\ \A c \in CardsOn(t) : Open(c) => saved[t].node \in Asking /\ Fits(c, saved[t])

Places ==
    /\ \A t \in ChatThreads : PlacedOn(t)
    /\ \A k \in Tasks : tasks[k].phase = "posted" => tasks[k].node \in SendNodes
    /\ \A t \in Threads : Driven(t) => tasks[t].node \in Early \cup {END}

\* What coroutine k, being x, must be wherever it is.
InPlace(k, x) ==
    /\ x.phase = "posted" => x.node \in SendNodes
    /\ k \in Threads /\ x.phase \in {"running", "posted"} => x.node \in Early \cup {END}

\* A step of one coroutine, thread by thread.
LEMMA MoveKeepsPlaces ==
    ASSUME Coroutines, Places, NEW k \in Tasks, NEW x, tasks' = [tasks EXCEPT ![k] = x],
           InPlace(k, x), \A t \in ChatThreads : PlacedOn(t)'
    PROVE  Places'
<1>1. tasks'[k] = x /\ \A j \in Tasks : j # k => tasks'[j] = tasks[j]
  BY DEF Coroutines
<1>2. \A j \in Tasks : tasks'[j].phase = "posted" => tasks'[j].node \in SendNodes
  BY <1>1 DEF Places, InPlace
<1>3. \A t \in Threads : Driven(t)' => tasks'[t].node \in Early \cup {END}
  BY <1>1 DEF Places, InPlace, Driven, Tasks
<1> QED
  BY <1>2, <1>3 DEF Places

\* The threads a coroutine does not work on.
LEMMA PlacedElsewhere ==
    ASSUME Coroutines, Places, NEW k \in Tasks, NEW x, tasks' = [tasks EXCEPT ![k] = x],
           x.thread = tasks[k].thread, UNCHANGED clicks,
           NEW t \in ChatThreads, t # tasks[k].thread, saved'[t] = saved[t],
           \A c \in CardsOn(t) : sent'[c] = sent[c]
    PROVE  PlacedOn(t)'
<1>1. tasks'[k] = x /\ \A j \in Tasks : j # k => tasks'[j] = tasks[j]
  BY DEF Coroutines
<1>2. \A j \in Tasks : Holds(j, t)' => j # k /\ Holds(j, t)
  BY <1>1 DEF Holds, Holding, Live, Summoned
<1>3. \A c \in CardsOn(t) : Open(c)' <=> Open(c)
  BY DEF Open, Clicked
<1>4. PlacedOn(t)
  BY DEF Places
<1>5. ASSUME NEW j \in Tasks, Holds(j, t)' PROVE Placed(j, tasks[j], saved[t])'
  <2>1. tasks'[j] = tasks[j] /\ Placed(j, tasks[j], saved[t])
    BY <1>1, <1>2, <1>4, <1>5 DEF PlacedOn
  <2> QED
    BY <2>1 DEF Placed, Fits, Live, Summoned
<1> QED
  BY <1>3, <1>4, <1>5 DEF PlacedOn, Fits, CardsOn

\* A coroutine moves and writes neither a checkpoint nor a card.
LEMMA QuietMoveKeepsPlaces ==
    ASSUME Coroutines, Places, NEW k \in Tasks, NEW x, tasks' = [tasks EXCEPT ![k] = x],
           x.thread = tasks[k].thread, UNCHANGED <<saved, sent, clicks>>, InPlace(k, x),
           Holding(k, x) /\ x.thread \in ChatThreads => Placed(k, x, saved[x.thread])
    PROVE  Places'
<1>1. tasks'[k] = x /\ \A j \in Tasks : j # k => tasks'[j] = tasks[j]
  BY DEF Coroutines
<1>2. ASSUME NEW t \in ChatThreads PROVE PlacedOn(t)'
  <2>1. PlacedOn(t)
    BY DEF Places
  <2>2. \A c : Open(c)' <=> Open(c)
    BY DEF Open, Clicked
  <2>3. ASSUME NEW j \in Tasks, Holds(j, t)' PROVE Placed(j, tasks[j], saved[t])'
    <3>1. tasks'[j].thread = t /\ Holding(j, tasks'[j])
      BY <2>3 DEF Holds, Holding, Live, Summoned
    <3>2. Placed(j, tasks'[j], saved[t])
      <4>1. CASE j = k
        BY <1>1, <3>1, <4>1
      <4>2. CASE j # k
        BY <1>1, <2>1, <3>1, <4>2 DEF PlacedOn, Holds
      <4> QED
        BY <4>1, <4>2
    <3> QED
      BY <3>2 DEF Placed, Fits, Live, Summoned
  <2> QED
    BY <2>1, <2>2, <2>3 DEF PlacedOn, Fits, CardsOn
<1> QED
  BY <1>2, MoveKeepsPlaces

LEMMA InitPlaces == Init => Places
<1> SUFFICES ASSUME Init PROVE Places
  OBVIOUS
<1>1. Coroutines
  BY InitCoroutines
<1>2. \A c \in Cards : ~Open(c)
  <2>1. \A c \in Cards : sent[c] = 0 /\ Cardinality(Clicked(c)) \in Nat
    BY <1>1, ClickedIsFinite DEF Init
  <2> QED
    BY <2>1 DEF Open
<1>3. \A k \in Tasks : tasks[k].phase = "idle"
  BY DEF Init, At
<1>4. \A k \in Tasks : ~Live(tasks[k]) /\ ~Summoned(tasks[k]) /\ ~Driven(k)
  BY <1>3 DEF Live, Summoned, Driven
<1> QED
  BY <1>2, <1>3, <1>4 DEF Places, PlacedOn, Placed, CardsOn, Tasks

\* A coroutine that ends is nowhere.
LEMMA FinishKeepsPlaces ==
    ASSUME Coroutines, Places, NEW k \in Tasks, Finish(k) \/ Lose(k), UNCHANGED <<saved, sent, clicks>>
    PROVE  Places'
<1>0. PICK phase \in {"done", "lost"} : tasks' = [tasks EXCEPT ![k] = At(tasks[k].thread, phase)]
  BY DEF Finish, Lose
<1> DEFINE x == At(tasks[k].thread, phase)
<1>1. tasks' = [tasks EXCEPT ![k] = x] /\ x.phase \in {"done", "lost"} /\ x.thread = tasks[k].thread
  BY <1>0 DEF At
<1> HIDE DEF x
<1>2. ~Holding(k, x) /\ InPlace(k, x)
  BY <1>1 DEF Holding, Live, Summoned, InPlace
<1> QED
  BY <1>1, <1>2, QuietMoveKeepsPlaces

\* A click finds the checkpoint the open card was sent for, or one that waits.
LEMMA ClickKeepsPlaces ==
    ASSUME Coroutines, Rest, ClickOnce, OneToken, Places,
           NEW card \in Cards, NEW action \in Answers, Click(card, action)
    PROVE  Places'
<1> DEFINE x == At(card.thread, "called")
<1>1. PICK n \in 1..MaxClicks :
         /\ n = Len(clicks) + 1 /\ n \in Tasks
         /\ tasks' = [tasks EXCEPT ![n] = x]
         /\ Len(clicks) \in Nat
         /\ clicks'[n].card = card
         /\ \A i \in 1..Len(clicks) : clicks'[i] = clicks[i]
  BY ClickAdds
<1>2. x.thread = card.thread /\ x.phase = "called"
  BY DEF At
<1> HIDE DEF x
<1>3. tasks'[n] = x /\ \A j \in Tasks : j # n => tasks'[j] = tasks[j]
  BY <1>1 DEF Coroutines
<1>4. Open(card) /\ UNCHANGED <<saved, sent>>
  BY ClickKeepsOneToken DEF Click
<1>5. \A c \in Cards : Open(c)' => Open(c)
  <2> TAKE c \in Cards
  <2>1. CASE c = card
    BY <1>4, <2>1
  <2>2. CASE c # card
    BY <1>4, <2>2, ClickIsCounted DEF Open
  <2> QED
    BY <2>1, <2>2
<1>6. n \notin Threads
  BY WorkflowRunsAssumption
<1>7. InPlace(n, x)
  BY <1>2 DEF InPlace
<1>8. ASSUME NEW t \in ChatThreads PROVE PlacedOn(t)'
  <2>1. PlacedOn(t)
    BY DEF Places
  <2>2. ASSUME NEW j \in Tasks, Holds(j, t)' PROVE Placed(j, tasks[j], saved[t])'
    <3>1. CASE j = n
      <4>1. card \in CardsOn(t)
        BY <1>2, <1>3, <2>2, <3>1 DEF Holds, CardsOn
      <4>2. saved[t].node \in Asking /\ Fits(card, saved[t])
        BY <1>4, <2>1, <4>1 DEF PlacedOn
      <4>3. ~Live(x)
        BY <1>2 DEF Live
      <4> QED
        BY <1>1, <1>3, <1>4, <3>1, <4>2, <4>3 DEF Placed, Fits, Live, Summoned
    <3>2. CASE j # n
      <4>1. tasks'[j] = tasks[j] /\ Holds(j, t)
        BY <1>3, <2>2, <3>2 DEF Holds, Holding, Live, Summoned
      <4>2. Placed(j, tasks[j], saved[t])
        BY <2>1, <4>1 DEF PlacedOn
      <4>3. j \notin Threads /\ tasks[j].phase # "idle" => j \in 1..Len(clicks)
        BY <1>1 DEF Tasks, Coroutines, ClickCoroutines
      <4>4. j \notin Threads => clicks'[j] = clicks[j]
        BY <1>1, <4>1, <4>3 DEF Holds, Holding, Live, Summoned
      <4>5. j \in Threads => ~Summoned(tasks[j]) /\ ~tasks[j].answer
        BY DEF Coroutines, OwnCoroutines, Summoned
      <4> QED
        BY <1>4, <4>1, <4>2, <4>4, <4>5 DEF Placed, Fits, Live, Summoned
    <3> QED
      BY <3>1, <3>2
  <2>3. \A c \in CardsOn(t) : Open(c)' => saved'[t].node \in Asking /\ Fits(c, saved'[t])
    BY <1>4, <1>5, <2>1 DEF PlacedOn, CardsOn
  <2> QED
    BY <2>2, <2>3 DEF PlacedOn, Fits, CardsOn
<1> QED
  BY <1>1, <1>7, <1>8, MoveKeepsPlaces

\* The card that was delivered is the one of the checkpoint, unless a node that
\* posted its card earlier has put the checkpoint to its question since.
LEMMA PostCardKeepsPlaces ==
    ASSUME Coroutines, Rest, OneToken, Places, NEW k \in Tasks, PostCard(k)
    PROVE  Places'
<1> DEFINE x == [tasks[k] EXCEPT !.phase = "posted"]
<1>1. tasks' = [tasks EXCEPT ![k] = x] /\ tasks[k] \in Task /\ tasks[k].phase = "running"
  BY DEF PostCard, Coroutines
<1>2. PICK u \in Threads : u = tasks[k].thread
  BY <1>1 DEF Task
<1>3. x.phase = "posted" /\ x.thread = u /\ x.node = tasks[k].node
  BY <1>1, <1>2 DEF Task
<1> HIDE DEF x
<1>4. tasks[k].node \in SendNodes
  BY SendersSendCards DEF PostCard
<1>5. InPlace(k, x)
  BY <1>1, <1>3, <1>4 DEF InPlace, Places, Driven
<1>6. UNCHANGED <<saved, clicks>>
  BY DEF PostCard, history
<1>7. ASSUME NEW t \in ChatThreads PROVE PlacedOn(t)'
  <2>1. CASE t = u
    <3>1. /\ Holds(k, t)
          /\ \A j \in Tasks : ~Holds(j, t)'
          /\ \A c \in CardsOn(t) : Open(c)' => CardsOf(t, tasks[k].node, tasks[k].st) = {c}
      BY <1>2, <2>1, PostCardHands
    <3>2. Placed(k, tasks[k], saved[t])
      BY <3>1 DEF Places, PlacedOn
    <3>3. saved[t].node \in Interrupts \/ saved[t] = To(tasks[k].node, tasks[k].st)
      BY <1>1, <1>4, <3>1, <3>2 DEF Placed, Holds, Holding, Live, Summoned, SendNodes, Interrupts, END
    <3>4. CASE saved[t].node \in Interrupts
      BY <1>6, <3>1, <3>4 DEF PlacedOn, Fits, Asking, SendNodes, Interrupts
    <3>5. CASE saved[t] = To(tasks[k].node, tasks[k].st)
      <4>1. saved[t].node = tasks[k].node /\ saved[t].st = tasks[k].st
        BY <3>5 DEF To
      <4>2. \A c \in CardsOn(t) : Open(c)' => saved[t].node \in Asking /\ Fits(c, saved[t])
        BY <1>4, <3>1, <4>1 DEF Fits, Asking, CardsOn
      <4> QED
        BY <1>6, <3>1, <4>2 DEF PlacedOn, Fits
    <3> QED
      BY <3>3, <3>4, <3>5
  <2>2. CASE t # u
    <3>1. PICK posted \in {{}, CardsOf(u, tasks[k].node, tasks[k].st)} :
             sent' = [c \in Cards |-> IF c \in posted THEN sent[c] + 1 ELSE sent[c]]
      BY <1>2 DEF PostCard
    <3>2. \A c \in posted : c.thread = u
      BY DEF CardsOf
    <3>3. \A c \in CardsOn(t) : sent'[c] = sent[c]
      BY <2>2, <3>1, <3>2 DEF CardsOn
    <3> QED
      BY <1>1, <1>2, <1>3, <1>6, <2>2, <3>3, PlacedElsewhere
  <2> QED
    BY <2>1, <2>2
<1> QED
  BY <1>1, <1>5, <1>7, MoveKeepsPlaces

\* What a superstep of coroutine k does, seen from its thread t.
LEMMA RunNodeOnThread ==
    ASSUME Coroutines, NEW k \in Tasks, RunNode(k)
    PROVE  \E t \in Threads : \E o \in Outcomes(tasks[k].node, tasks[k].st, ActionOf(k)) : \E x \in Task :
              /\ t = tasks[k].thread /\ o \in Checkpoint
              /\ tasks[k].node \in Nodes /\ tasks[k].st \in GraphState
              /\ tasks[k].phase = IF tasks[k].node \in SendNodes THEN "posted" ELSE "running"
              /\ tasks[k].node \in SendNodes \/ Live(tasks[k])
              /\ tasks' = [tasks EXCEPT ![k] = x] /\ tasks'[k] = x
              /\ \A j \in Tasks : j # k => tasks'[j] = tasks[j]
              /\ x.thread = t /\ x.phase = "running" /\ x.node = o.node /\ x.st = o.st /\ ~x.answer
              /\ saved' = [saved EXCEPT ![t] = o] /\ saved'[t] = o
              /\ UNCHANGED <<sent, clicks>>
<1>1. PICK o \in Outcomes(tasks[k].node, tasks[k].st, ActionOf(k)) :
         /\ Driven(k) /\ tasks[k] \in Task /\ tasks[k].node \in Nodes /\ o \in Checkpoint
         /\ saved' = [saved EXCEPT ![tasks[k].thread] = o]
         /\ Moves(k, AtNode(tasks[k], o, FALSE))
  BY RunNodeMoves
<1>2. PICK t \in Threads : t = tasks[k].thread
  BY <1>1 DEF Task
<1>3. PICK x \in Task : x = AtNode(tasks[k], o, FALSE)
  BY <1>1, AtNodeIsTask
<1>4. x.thread = t /\ x.phase = "running" /\ x.node = o.node /\ x.st = o.st /\ ~x.answer
  BY <1>1, <1>2, <1>3, AtNodeIsTask
<1>5. tasks' = [tasks EXCEPT ![k] = x]
  BY <1>1, <1>3 DEF Moves
<1>6. tasks'[k] = x /\ \A j \in Tasks : j # k => tasks'[j] = tasks[j]
  BY <1>5 DEF Coroutines
<1>7. saved' = [saved EXCEPT ![t] = o] /\ saved'[t] = o
  BY <1>1, <1>2 DEF Coroutines
<1>8. tasks[k].phase = IF tasks[k].node \in SendNodes THEN "posted" ELSE "running"
  BY SendersSendCards DEF RunNode
<1>9. tasks[k].node \in SendNodes \/ Live(tasks[k])
  BY <1>8 DEF RunNode, Paused, Live
<1>10. UNCHANGED <<sent, clicks>>
  BY DEF RunNode
<1>11. tasks[k].st \in GraphState
  BY <1>1 DEF Task
<1> QED
  BY <1>1, <1>2, <1>4, <1>5, <1>6, <1>7, <1>8, <1>9, <1>10, <1>11

\* The answer of a click is its action.
LEMMA ClicksAnswer ==
    ASSUME Coroutines, NEW k \in Tasks, tasks[k].phase # "idle", k \notin Threads
    PROVE  /\ k \in 1..MaxClicks /\ k \in DOMAIN clicks
           /\ clicks[k] \in Clicks /\ ActionOf(k) = clicks[k].action
           /\ clicks[k].card.thread = tasks[k].thread
<1>1. k \in 1..MaxClicks
  BY DEF Tasks
<1>2. k <= Len(clicks) /\ tasks[k].thread = clicks[k].card.thread
  BY <1>1 DEF Coroutines, ClickCoroutines
<1>3. k \in DOMAIN clicks /\ clicks[k] \in Clicks
  BY <1>1, <1>2, WorkflowRunsAssumption DEF Coroutines
<1> QED
  BY <1>1, <1>2, <1>3 DEF ActionOf

\* A superstep: a node that had posted its card puts the checkpoint to the
\* question; any other has the token and takes the checkpoint along.
LEMMA RunNodeKeepsPlaces ==
    ASSUME Coroutines, OneToken, Places, NEW k \in Tasks, RunNode(k)
    PROVE  Places'
<1>1. PICK u \in Threads, o \in Outcomes(tasks[k].node, tasks[k].st, ActionOf(k)), x \in Task :
              /\ u = tasks[k].thread /\ o \in Checkpoint
              /\ tasks[k].node \in Nodes /\ tasks[k].st \in GraphState
              /\ tasks[k].phase = IF tasks[k].node \in SendNodes THEN "posted" ELSE "running"
              /\ tasks[k].node \in SendNodes \/ Live(tasks[k])
              /\ tasks' = [tasks EXCEPT ![k] = x] /\ tasks'[k] = x
              /\ \A j \in Tasks : j # k => tasks'[j] = tasks[j]
              /\ x.thread = u /\ x.phase = "running" /\ x.node = o.node /\ x.st = o.st /\ ~x.answer
              /\ saved' = [saved EXCEPT ![u] = o] /\ saved'[u] = o
              /\ UNCHANGED <<sent, clicks>>
  BY RunNodeOnThread
<1> DEFINE n == tasks[k].node
           s == tasks[k].st
           a == ActionOf(k)
<1>2. /\ n \in SendNodes => o.node \in Interrupts
      /\ n \in Interrupts /\ a = "reject" => o.node = "escalate"
      /\ n = "escalate" => o.node = END
      /\ n \in {"ingest", "triage", "diagnose"} => o.node \in Early \cup {END}
      /\ n = "send_diagnosis_card" => o.node = "await_diagnosis_approval"
  BY <1>1, Routes DEF SendNodes, Interrupts, To
<1> HIDE DEF n, s, a
<1>3. InPlace(k, x)
  <2> SUFFICES ASSUME k \in Threads PROVE x.node \in Early \cup {END}
    BY <1>1 DEF InPlace
  <2>1. n \in Early /\ (n = "await_diagnosis_approval" => FALSE)
    <3>1. n \in Early \cup {END}
      BY <1>1 DEF Places, Driven, n
    <3>2. ~tasks[k].answer
      BY DEF Coroutines, OwnCoroutines
    <3> QED
      BY <1>1, <3>1, <3>2 DEF Live, SendNodes, Interrupts, END, Nodes, n
  <2> QED
    BY <1>1, <1>2, <2>1 DEF Early
<1>4. ASSUME NEW t \in ChatThreads PROVE PlacedOn(t)'
  <2>1. CASE t # u
    <3>1. saved'[t] = saved[t]
      BY <1>1, <2>1 DEF Coroutines, ChatThreads
    <3> QED
      BY <1>1, <2>1, <3>1, PlacedElsewhere
  <2>2. CASE t = u /\ n \in SendNodes
    <3>1. saved'[t].node \in Interrupts
      BY <1>1, <1>2, <2>2
    <3>2. ASSUME NEW j \in Tasks, Holds(j, t)' PROVE Placed(j, tasks[j], saved[t])'
      <4>1. j # k
        BY <1>1, <1>2, <2>2, <3>2 DEF Holds, Holding, Live, Summoned
      <4>2. tasks'[j] = tasks[j] /\ Holds(j, t)
        BY <1>1, <3>2, <4>1 DEF Holds, Holding, Live, Summoned
      <4>3. Placed(j, tasks[j], saved[t])
        BY <4>2 DEF Places, PlacedOn
      <4> QED
        BY <1>1, <3>1, <4>2, <4>3 DEF Placed, Fits, Live, Summoned, Asking, SendNodes, Interrupts
    <3> QED
      BY <3>1, <3>2 DEF PlacedOn, Fits, Asking, SendNodes, Interrupts
  <2>3. CASE t = u /\ n \notin SendNodes
    <3>1. Live(tasks[k]) /\ Holds(k, t)
      BY <1>1, <2>3 DEF Holds, Holding, n
    <3>2. Placed(k, tasks[k], saved[t])
      BY <3>1 DEF Places, PlacedOn
    <3>3. \A c \in CardsOn(t) : ~Open(c)'
      BY <1>1, <3>1 DEF OneToken, Open, Clicked
    <3>4. ASSUME NEW j \in Tasks, Holds(j, t)' PROVE j = k
      BY <1>1, <3>1, <3>4 DEF OneToken, Holds, Holding, Live, Summoned
    <3>5. saved'[t] = To(x.node, x.st)
      BY <1>1, <2>3 DEF Checkpoint, To
    <3>6. ASSUME k \notin Threads, Live(x)
          PROVE  clicks[k].action = "approve" \/ x.node = "escalate"
      <4>1. a = clicks[k].action /\ clicks[k].action \in {"approve", "reject"}
        BY <1>1, <3>6, ClicksAnswer DEF Clicks, a
      <4>2. n # "escalate"
        BY <1>1, <1>2, <3>6 DEF Live
      <4>3. CASE tasks[k].answer
        <5>1. n \in Interrupts
          BY <2>3, <3>1, <3>2, <4>3 DEF Placed, Asking, n
        <5> QED
          BY <1>1, <1>2, <4>1, <5>1
      <4>4. CASE ~tasks[k].answer
        BY <3>1, <3>2, <3>6, <4>2, <4>4 DEF Placed, n
      <4> QED
        BY <4>3, <4>4
    <3>7. Placed(k, tasks[k], saved[t])'
      BY <1>1, <3>5, <3>6 DEF Placed, Fits, Live, Summoned
    <3> QED
      BY <3>3, <3>4, <3>7 DEF PlacedOn
  <2> QED
    BY <2>1, <2>2, <2>3
<1> QED
  BY <1>1, <1>3, <1>4, MoveKeepsPlaces

LEMMA WorkKeepsPlaces ==
    ASSUME Coroutines, Waiting, Rest, OneToken, Places, NEW k \in Tasks, Work(k)
    PROVE  Places'
<1> DEFINE t == tasks[k].thread
<1>1. CASE Resume(k)
  <2>1. PICK how \in {"memory", "persisted"} :
           Moves(k, [tasks[k] EXCEPT !.phase = IF how = "memory" THEN "loading" ELSE "peeking",
                                     !.how = how])
    BY <1>1, ResumeMoves
  <2> DEFINE x == [tasks[k] EXCEPT !.phase = IF how = "memory" THEN "loading" ELSE "peeking",
                                   !.how = how]
  <2>2. tasks[k].phase = "called" /\ tasks[k] \in Task /\ UNCHANGED <<saved, sent, clicks>>
    BY <1>1 DEF Resume, history, Coroutines
  <2>3. /\ x.thread = t /\ x.phase \in {"loading", "peeking"}
        /\ tasks' = [tasks EXCEPT ![k] = x]
    BY <2>1, <2>2 DEF Moves, Task
  <2> HIDE DEF x
  <2>4. InPlace(k, x)
    BY <2>3 DEF InPlace
  <2>5. ~Live(x) /\ Holds(k, t) /\ Summoned(tasks[k])
    BY <2>2, <2>3 DEF Live, Holds, Holding, Summoned
  <2>6. t \in ChatThreads => Placed(k, x, saved[t])
    BY <2>5 DEF Places, PlacedOn, Placed
  <2> QED
    BY <2>2, <2>3, <2>4, <2>6, QuietMoveKeepsPlaces
<1>2. CASE Peek(k) /\ ~Lose(k)
  <2>1. tasks[k].phase = "peeking" /\ tasks[k] \in Task /\ UNCHANGED <<saved, sent, clicks>>
    BY <1>2 DEF Peek, history, Coroutines
  <2>2. CASE Finish(k)
    BY <2>1, <2>2, FinishKeepsPlaces
  <2>3. CASE tasks' = [tasks EXCEPT ![k].phase = "loading"]
    <3> DEFINE x == [tasks[k] EXCEPT !.phase = "loading"]
    <3>1. tasks' = [tasks EXCEPT ![k] = x] /\ x.phase = "loading" /\ x.thread = t
      BY <2>1, <2>3 DEF Task
    <3> HIDE DEF x
    <3>2. InPlace(k, x)
      BY <3>1 DEF InPlace
    <3>3. ~Live(x) /\ Holds(k, t) /\ Summoned(tasks[k])
      BY <2>1, <3>1 DEF Live, Holds, Holding, Summoned
    <3>4. t \in ChatThreads => Placed(k, x, saved[t])
      BY <3>3 DEF Places, PlacedOn, Placed
    <3> QED
      BY <2>1, <3>1, <3>2, <3>4, QuietMoveKeepsPlaces
  <2> QED
    BY <1>2, <2>2, <2>3 DEF Peek
<1>3. CASE Load(k) /\ ~Lose(k)
  <2> DEFINE c == saved[t]
             x == AtNode(tasks[k], c, TRUE)
  <2>1. /\ k \in 1..MaxClicks /\ tasks[k].phase = "loading"
        /\ tasks[k] \in Task /\ c \in Checkpoint /\ tasks' = [tasks EXCEPT ![k] = x]
        /\ UNCHANGED <<saved, sent, clicks>>
    BY <1>3, LoadMoves DEF Moves, Load, history
  <2>2. /\ x.thread = t /\ x.phase = "running" /\ x.node = c.node /\ x.st = c.st /\ x.answer
    BY <2>1, AtNodeIsTask
  <2>3. k \notin Threads
    BY <2>1, WorkflowRunsAssumption
  <2>4. Summoned(tasks[k]) /\ Holds(k, t)
    BY <2>1 DEF Holds, Holding, Summoned
  <2> HIDE DEF x, c
  <2>5. InPlace(k, x)
    BY <2>2, <2>3 DEF InPlace
  <2>6. ASSUME t \in ChatThreads PROVE Placed(k, x, c)
    <3>1. c.node \in Asking /\ Fits(clicks[k].card, c)
      BY <2>4, <2>6 DEF Places, PlacedOn, Placed, c
    <3>2. c = To(x.node, x.st)
      BY <2>1, <2>2 DEF Checkpoint, To
    <3> QED
      BY <2>2, <3>1, <3>2 DEF Placed, Live, Summoned
  <2> QED
    BY <2>1, <2>2, <2>5, <2>6, QuietMoveKeepsPlaces DEF c
<1>4. CASE NodeRaises(k) \/ ReturnPaused(k) \/ ReturnEnded(k)
  BY <1>4, FinishKeepsPlaces DEF NodeRaises, ReturnPaused, ReturnEnded, history
<1>9. CASE (Peek(k) \/ Load(k)) /\ Lose(k)
  BY <1>9, FinishKeepsPlaces DEF Peek, Load, history
<1> QED
  BY <1>1, <1>2, <1>3, <1>4, <1>9, PostCardKeepsPlaces, RunNodeKeepsPlaces DEF Work

LEMMA RestartKeepsPlaces ==
    ASSUME Coroutines, OneToken, Places, Restart
    PROVE  Places'
<1>1. \A k \in Tasks :
         \/ tasks'[k] = tasks[k] /\ tasks[k].phase \in {"idle", "done", "lost", "killed"}
         \/ tasks[k].phase # "idle" /\ tasks'[k] = At(tasks[k].thread, "killed")
  BY RestartKills
<1>2. \A k \in Tasks : tasks'[k].phase \in {"idle", "done", "lost", "killed"}
  <2>1. \A t : At(t, "killed").phase = "killed"
    BY DEF At
  <2> QED
    BY <1>1, <2>1
<1>3. sent' = sent /\ clicks' = clicks
  BY DEF Restart
<1>4. \A t \in ChatThreads : saved'[t] = saved[t]
  BY DEF Restart, ChatThreads
<1>5. \A k \in Tasks : ~Live(tasks'[k]) /\ ~Summoned(tasks'[k]) /\ ~Driven(k)'
  BY <1>2 DEF Live, Summoned, Driven
<1>6. \A t \in ChatThreads : PlacedOn(t)'
  <2> TAKE t \in ChatThreads
  <2>1. \A c \in CardsOn(t) : Open(c)' => saved'[t].node \in Asking /\ Fits(c, saved'[t])
    BY <1>3, <1>4 DEF Places, PlacedOn, Open, Clicked
  <2>2. \A k \in Tasks : Placed(k, tasks[k], saved[t])'
    BY <1>5 DEF Placed, Live, Summoned
  <2> QED
    BY <2>1, <2>2 DEF PlacedOn, Fits, CardsOn
<1> QED
  BY <1>2, <1>5, <1>6 DEF Places, Tasks

LEMMA StepKeepsPlaces ==
    Coroutines /\ Waiting /\ Rest /\ ClickOnce /\ OneToken /\ Places /\ [Next]_vars => Places'
<1> SUFFICES ASSUME Coroutines, Waiting, Rest, ClickOnce, OneToken, Places, [Next]_vars PROVE Places'
  OBVIOUS
<1>1. ASSUME NEW t \in Threads, _trigger_workflow(t) \/ receive_alert(t) PROVE Places'
  <2> DEFINE x == At(t, "running")
  <2>1. Begin(t) /\ t \in Tasks
    BY <1>1 DEF _trigger_workflow, receive_alert, Tasks
  <2>2. tasks' = [tasks EXCEPT ![t] = x] /\ tasks[t] = At(t, "idle") /\ UNCHANGED <<saved, sent, clicks>>
    BY <2>1, BeginMoves DEF Begin, Moves, history
  <2>3. /\ x.thread = t /\ x.phase = "running" /\ x.node = "ingest" /\ ~x.answer
        /\ tasks[t].thread = t
    BY <2>2 DEF At
  <2> HIDE DEF x
  <2>4. InPlace(t, x) /\ Placed(t, x, saved[t])
    BY <2>3 DEF InPlace, Placed, Summoned, Early
  <2> QED
    BY <2>1, <2>2, <2>3, <2>4, QuietMoveKeepsPlaces
<1>2. ASSUME NEW t \in Threads, TimeOut(t) PROVE Places'
  BY <1>2, FinishKeepsPlaces DEF TimeOut, Tasks, history
<1>3. CASE UNCHANGED <<saved, tasks, sent, clicks>>
  <2>1. ASSUME NEW t \in ChatThreads PROVE PlacedOn(t)'
    <3>1. PlacedOn(t)
      BY DEF Places
    <3>2. \A c : Open(c)' <=> Open(c)
      BY <1>3 DEF Open, Clicked
    <3> QED
      BY <1>3, <3>1, <3>2 DEF PlacedOn, Placed, Fits, Holds, Holding, Live, Summoned, CardsOn
  <2> QED
    BY <1>3, <2>1 DEF Places, Driven
<1>4. ASSUME NEW t \in Threads, GrowOld(t) PROVE Places'
  BY <1>3, <1>4 DEF GrowOld, history
<1>5. CASE CleanupStarts \/ CleanupGoesOn
  BY <1>3, <1>5 DEF CleanupStarts, CleanupGoesOn, history
<1>6. CASE UNCHANGED vars
  BY <1>3, <1>6 DEF vars
<1> QED
  BY <1>1, <1>2, <1>4, <1>5, <1>6, ClickKeepsPlaces, RestartKeepsPlaces, WorkKeepsPlaces DEF Next

-----------------------------------------------------------------------------
(* Consent. A node that posted its card may write its checkpoint long after *)
(* the card was answered, and so put a plan to the question again that the  *)
(* human has answered. That is harmless after an approval; before it, the   *)
(* card of that plan is what the token is about.                            *)

\* The card of the plan was approved.
Approved(t, plan) == \E i \in DOMAIN clicks : clicks[i] = [card |-> PlanCard(t, plan), action |-> "approve"]

\* x has posted the card of the plan and has its checkpoint to write.
Straggles(x, t, plan) ==
    x.phase = "posted" /\ x.thread = t /\ x.node = "send_proposal_card" /\ x.st.proposals = plan

\* The checkpoint of a thread asks for the plan, or will do so.
Asks(c, plan) == c.node \in {"send_proposal_card", "await_proposal_approval"} /\ c.st.proposals = plan

Pending(t, plan) == Asks(saved[t], plan) \/ \E k \in Tasks : Straggles(tasks[k], t, plan)

\* Coroutine k, being x, brings an answer to the plan, or is about to ask for
\* it, or gives the thread up.
About(k, x, plan) ==
    \/ (Summoned(x) \/ x.answer) /\ clicks[k].card = PlanCard(x.thread, plan)
    \/ x.phase = "running" /\ x.node = "send_proposal_card" /\ x.st.proposals = plan
    \/ x.phase = "running" /\ x.node = "escalate"

AllAbout(t, plan) ==
    /\ \A c \in CardsOn(t) : Open(c) => c = PlanCard(t, plan)
    /\ \A k \in Tasks : Holds(k, t) => About(k, tasks[k], plan)

ConsentOn(t) == \A plan \in Plans : Pending(t, plan) => Approved(t, plan) \/ AllAbout(t, plan)

\* Coroutine k, being x, may take the plan it holds past the question.
Entitled(k, x) ==
    /\ x.phase = "running" /\ x.answer /\ x.node = "await_proposal_approval" =>
          Approved(x.thread, x.st.proposals) \/ clicks[k].card = PlanCard(x.thread, x.st.proposals)
    /\ x.phase = "running" /\ x.node = "execute" =>
          AllAuto(x.st) \/ Approved(x.thread, x.st.proposals)

\* An effect of an approval's coroutine, of a plan that was approved or released.
Warranted(e) ==
    /\ e.thread \in ChatThreads
    /\ e.task \in DOMAIN clicks /\ clicks[e.task].action = "approve"
    /\ e.released \/ Approved(e.thread, e.plan)

Consent ==
    /\ \A t \in ChatThreads : ConsentOn(t)
    /\ \A k \in Tasks : Entitled(k, tasks[k])
    /\ \A e \in BagToSet(effects) : Warranted(e)

\* What a coroutine carries out is warranted.
LEMMA CarriedOutIsWarranted ==
    ASSUME Coroutines, Waiting, Places, Consent, NEW k \in Tasks, Driven(k), NEW e \in CarriedOut(k)
    PROVE  /\ Warranted(e)
           /\ k \in 1..MaxClicks /\ tasks[k].phase = "running" /\ tasks[k].node = "execute"
           /\ Live(tasks[k]) /\ tasks[k].thread \in ChatThreads
           /\ e = [task |-> k, thread |-> tasks[k].thread, plan |-> tasks[k].st.proposals,
                   released |-> AllAuto(tasks[k].st)]
<1>1. /\ tasks[k].node = "execute"
      /\ e = [task |-> k, thread |-> tasks[k].thread, plan |-> tasks[k].st.proposals,
              released |-> AllAuto(tasks[k].st)]
  BY DEF CarriedOut
<1>2. tasks[k].phase = "running"
  BY <1>1 DEF Places, Driven, SendNodes
<1>3. Live(tasks[k])
  BY <1>1, <1>2 DEF Live, Interrupts, END
<1>4. k \notin Threads
  BY <1>1 DEF Places, Early, END
<1>5. /\ k \in 1..MaxClicks /\ k \in DOMAIN clicks
  BY <1>2, <1>4, ClicksAnswer
<1>6. tasks[k].thread \in ChatThreads
  BY <1>2, <1>5 DEF Waiting, ClicksDriveTheChat, ChatThreads, Coroutines, Task
<1>7. Placed(k, tasks[k], saved[tasks[k].thread])
  BY <1>3, <1>6 DEF Places, PlacedOn, Holds, Holding
<1>8. clicks[k].action = "approve"
  BY <1>1, <1>3, <1>4, <1>7 DEF Placed, Asking, SendNodes, Interrupts
<1>9. AllAuto(tasks[k].st) \/ Approved(tasks[k].thread, tasks[k].st.proposals)
  BY <1>1, <1>2 DEF Consent, Entitled
<1> QED
  BY <1>1, <1>2, <1>3, <1>5, <1>6, <1>8, <1>9 DEF Warranted

LEMMA EffectsStayWarranted ==
    ASSUME Consent, NEW S, effects' = effects (+) SetToBag(S), \A e \in S : Warranted(e)
    PROVE  \A e \in BagToSet(effects') : Warranted(e)
<1>1. BagToSet(effects') = BagToSet(effects) \cup S
  BY DEF BagToSet, (+), SetToBag
<1> QED
  BY <1>1 DEF Consent

\* A step of one coroutine, layer by layer.
LEMMA MoveKeepsConsent ==
    ASSUME Coroutines, Consent, NEW k \in Tasks, NEW x, tasks' = [tasks EXCEPT ![k] = x],
           UNCHANGED clicks, Entitled(k, x), \A t \in ChatThreads : ConsentOn(t)',
           \A e \in BagToSet(effects') : Warranted(e)
    PROVE  Consent'
<1>1. tasks'[k] = x /\ \A j \in Tasks : j # k => tasks'[j] = tasks[j]
  BY DEF Coroutines
<1>2. \A t, plan : Approved(t, plan)' <=> Approved(t, plan)
  BY DEF Approved
<1>3. ASSUME NEW j \in Tasks PROVE Entitled(j, tasks[j])'
  <2>1. Entitled(j, tasks'[j])
    BY <1>1 DEF Consent
  <2> QED
    BY <1>2, <2>1 DEF Entitled
<1>4. \A e \in BagToSet(effects') : Warranted(e)'
  BY <1>2 DEF Warranted
<1> QED
  BY <1>3, <1>4 DEF Consent

\* The threads a coroutine does not work on.
LEMMA ConsentElsewhere ==
    ASSUME Coroutines, Consent, NEW k \in Tasks, NEW x, tasks' = [tasks EXCEPT ![k] = x],
           x.thread = tasks[k].thread, UNCHANGED clicks,
           NEW t \in ChatThreads, t # tasks[k].thread, saved'[t] = saved[t],
           \A c \in CardsOn(t) : sent'[c] = sent[c]
    PROVE  ConsentOn(t)'
<1>1. tasks'[k] = x /\ \A j \in Tasks : j # k => tasks'[j] = tasks[j]
  BY DEF Coroutines
<1>2. \A j \in Tasks : Holds(j, t)' => j # k /\ Holds(j, t)
  BY <1>1 DEF Holds, Holding, Live, Summoned
<1>3. \A c \in CardsOn(t) : Open(c)' <=> Open(c)
  BY DEF Open, Clicked
<1>4. ASSUME NEW plan \in Plans, Pending(t, plan)' PROVE Approved(t, plan)' \/ AllAbout(t, plan)'
  <2>1. Pending(t, plan)
    <3>1. Asks(saved[t], plan)' => Asks(saved[t], plan)
      BY DEF Asks
    <3>2. \A j \in Tasks : Straggles(tasks[j], t, plan)' => Straggles(tasks[j], t, plan)
      BY <1>1 DEF Straggles
    <3> QED
      BY <1>4, <3>1, <3>2 DEF Pending
  <2>2. CASE Approved(t, plan)
    BY <2>2 DEF Approved
  <2>3. CASE AllAbout(t, plan)
    <3>1. \A j \in Tasks : Holds(j, t)' => About(j, tasks[j], plan)'
      BY <1>1, <1>2, <2>3 DEF AllAbout, About, Summoned
    <3> QED
      BY <1>3, <2>3, <3>1 DEF AllAbout, CardsOn
  <2> QED
    BY <2>1, <2>2, <2>3 DEF Consent, ConsentOn
<1> QED
  BY <1>4 DEF ConsentOn

\* A coroutine moves and writes neither a checkpoint nor a card.
LEMMA QuietMoveKeepsConsent ==
    ASSUME Coroutines, Consent, NEW k \in Tasks, NEW x, tasks' = [tasks EXCEPT ![k] = x],
           x.thread = tasks[k].thread, UNCHANGED <<saved, sent, clicks>>,
           x.phase # "posted", Entitled(k, x),
           Holding(k, x) => /\ Holding(k, tasks[k])
                            /\ \A plan : About(k, tasks[k], plan) => About(k, x, plan),
           \A e \in BagToSet(effects') : Warranted(e)
    PROVE  Consent'
<1>1. tasks'[k] = x /\ \A j \in Tasks : j # k => tasks'[j] = tasks[j]
  BY DEF Coroutines
<1>2. \A c : Open(c)' <=> Open(c)
  BY DEF Open, Clicked
<1>3. ASSUME NEW t \in ChatThreads, NEW plan \in Plans, Pending(t, plan)'
      PROVE  Approved(t, plan)' \/ AllAbout(t, plan)'
  <2>1. Pending(t, plan)
    <3>1. Asks(saved[t], plan)' => Asks(saved[t], plan)
      BY DEF Asks
    <3>2. \A j \in Tasks : Straggles(tasks[j], t, plan)' => Straggles(tasks[j], t, plan)
      BY <1>1 DEF Straggles
    <3> QED
      BY <1>3, <3>1, <3>2 DEF Pending
  <2>2. CASE Approved(t, plan)
    BY <2>2 DEF Approved
  <2>3. CASE AllAbout(t, plan)
    <3>1. ASSUME NEW j \in Tasks, Holds(j, t)' PROVE About(j, tasks[j], plan)'
      <4>1. Holding(j, tasks'[j]) /\ tasks'[j].thread = t
        BY <3>1 DEF Holds, Holding, Live, Summoned
      <4>2. About(j, tasks'[j], plan)
        <5>1. CASE j = k
          BY <1>1, <2>3, <4>1, <5>1 DEF AllAbout, Holds
        <5>2. CASE j # k
          BY <1>1, <2>3, <4>1, <5>2 DEF AllAbout, Holds
        <5> QED
          BY <5>1, <5>2
      <4> QED
        BY <4>2 DEF About, Summoned
    <3> QED
      BY <1>2, <2>3, <3>1 DEF AllAbout, CardsOn
  <2> QED
    BY <2>1, <2>2, <2>3 DEF Consent, ConsentOn
<1> QED
  BY <1>3, MoveKeepsConsent DEF ConsentOn

LEMMA InitConsent == Init => Consent
<1> SUFFICES ASSUME Init PROVE Consent
  OBVIOUS
<1>1. \A k \in Tasks : tasks[k].phase = "idle"
  BY DEF Init, At
<1>2. \A t \in Threads : saved[t].node = END
  BY DEF Init, NoCheckpoint
<1>3. \A t \in ChatThreads : ConsentOn(t)
  BY <1>1, <1>2 DEF ConsentOn, Pending, Asks, Straggles, END, ChatThreads
<1>4. BagToSet(effects) = {}
  BY DEF Init, EmptyBag, SetToBag, BagToSet
<1> QED
  BY <1>1, <1>3, <1>4 DEF Consent, Entitled

LEMMA FinishKeepsConsent ==
    ASSUME Coroutines, Consent, NEW k \in Tasks, Finish(k) \/ Lose(k), UNCHANGED <<saved, sent, clicks>>,
           \A e \in BagToSet(effects') : Warranted(e)
    PROVE  Consent'
<1>0. PICK phase \in {"done", "lost"} : tasks' = [tasks EXCEPT ![k] = At(tasks[k].thread, phase)]
  BY DEF Finish, Lose
<1> DEFINE x == At(tasks[k].thread, phase)
<1>1. tasks' = [tasks EXCEPT ![k] = x] /\ x.phase \in {"done", "lost"} /\ x.thread = tasks[k].thread
  BY <1>0 DEF At
<1> HIDE DEF x
<1>2. ~Holding(k, x) /\ Entitled(k, x)
  BY <1>1 DEF Holding, Live, Summoned, Entitled
<1> QED
  BY <1>1, <1>2, QuietMoveKeepsConsent

\* A click answers the plan its card is about.
LEMMA ClickKeepsConsent ==
    ASSUME Coroutines, Rest, ClickOnce, OneToken, Consent,
           NEW card \in Cards, NEW action \in Answers, Click(card, action)
    PROVE  Consent'
<1> DEFINE x == At(card.thread, "called")
<1>1. PICK n \in 1..MaxClicks :
         /\ n = Len(clicks) + 1 /\ n \in Tasks
         /\ tasks' = [tasks EXCEPT ![n] = x]
         /\ Len(clicks) \in Nat /\ Len(clicks') = n /\ clicks' \in Seq(Clicks)
         /\ clicks'[n].card = card
         /\ \A i \in 1..Len(clicks) : clicks'[i] = clicks[i]
  BY ClickAdds
<1>2. x.thread = card.thread /\ x.phase = "called"
  BY DEF At
<1> HIDE DEF x
<1>3. tasks'[n] = x /\ \A j \in Tasks : j # n => tasks'[j] = tasks[j]
  BY <1>1 DEF Coroutines
<1>4. Open(card) /\ OneToken' /\ UNCHANGED <<saved, sent, effects>>
  BY ClickKeepsOneToken DEF Click
<1>5. DOMAIN clicks = 1..Len(clicks) /\ DOMAIN clicks' = 1..n
  BY <1>1 DEF Coroutines
<1>6. \A i \in DOMAIN clicks : i \in DOMAIN clicks' /\ clicks'[i] = clicks[i]
  BY <1>1, <1>5
<1>7. \A t, plan : Approved(t, plan) => Approved(t, plan)'
  BY <1>6 DEF Approved
<1>8. \A j \in Tasks : tasks[j].phase # "idle" => j \in Threads \/ clicks'[j] = clicks[j]
  BY <1>6, ClicksAnswer
<1>9. \A j \in Threads : j \in Tasks /\ ~tasks[j].answer /\ ~Summoned(tasks[j])
  BY DEF Coroutines, OwnCoroutines, Tasks, Summoned
<1>10. ASSUME NEW t \in ChatThreads, NEW plan \in Plans, Pending(t, plan)'
       PROVE  Approved(t, plan)' \/ AllAbout(t, plan)'
  <2>1. Pending(t, plan)
    <3>1. Asks(saved[t], plan)' => Asks(saved[t], plan)
      BY <1>4 DEF Asks
    <3>2. \A j \in Tasks : Straggles(tasks[j], t, plan)' => Straggles(tasks[j], t, plan)
      BY <1>2, <1>3 DEF Straggles
    <3> QED
      BY <1>10, <3>1, <3>2 DEF Pending
  <2>2. CASE Approved(t, plan)
    BY <1>7, <2>2
  <2>3. CASE AllAbout(t, plan) /\ t = card.thread
    <3>1. card = PlanCard(t, plan)
      BY <1>4, <2>3 DEF AllAbout, CardsOn
    <3>2. Holds(n, t)'
      BY <1>1, <1>2, <1>3, <2>3 DEF Holds, Holding, Summoned
    <3>3. /\ \A c \in CardsOn(t) : ~Open(c)'
          /\ \A j \in Tasks : Holds(j, t)' => j = n
      BY <1>1, <1>4, <3>2 DEF OneToken, CardsOn
    <3>4. About(n, tasks[n], plan)'
      BY <1>1, <1>2, <1>3, <2>3, <3>1 DEF About, Summoned, PlanCard
    <3> QED
      BY <3>3, <3>4 DEF AllAbout, CardsOn
  <2>4. CASE AllAbout(t, plan) /\ t # card.thread
    <3>1. \A c \in CardsOn(t) : Open(c)' <=> Open(c)
      BY <1>4, <2>4, ClickIsCounted DEF Open, CardsOn
    <3>2. ASSUME NEW j \in Tasks, Holds(j, t)' PROVE About(j, tasks[j], plan)'
      <4>1. j # n /\ tasks'[j] = tasks[j]
        BY <1>2, <1>3, <2>4, <3>2 DEF Holds
      <4>2. Holds(j, t)
        BY <3>2, <4>1 DEF Holds, Holding, Live, Summoned
      <4>3. About(j, tasks[j], plan)
        BY <2>4, <4>2 DEF AllAbout
      <4>4. CASE j \in Threads
        BY <1>9, <4>1, <4>3, <4>4 DEF About
      <4>5. CASE j \notin Threads
        <5>1. clicks'[j] = clicks[j]
          BY <1>8, <4>2, <4>5 DEF Holds, Holding, Live, Summoned
        <5> QED
          BY <4>1, <4>3, <5>1 DEF About, Summoned
      <4> QED
        BY <4>4, <4>5
    <3> QED
      BY <2>4, <3>1, <3>2 DEF AllAbout, CardsOn
  <2> QED
    BY <2>1, <2>2, <2>3, <2>4 DEF Consent, ConsentOn
<1>11. ASSUME NEW j \in Tasks PROVE Entitled(j, tasks[j])'
  <2>1. CASE j = n
    BY <1>2, <1>3, <2>1 DEF Entitled
  <2>2. CASE j # n
    <3>1. tasks'[j] = tasks[j] /\ Entitled(j, tasks[j])
      BY <1>3, <2>2 DEF Consent
    <3> QED
      BY <1>7, <1>8, <1>9, <3>1 DEF Entitled
  <2> QED
    BY <2>1, <2>2
<1>12. \A e \in BagToSet(effects') : Warranted(e)'
  <2>1. \A e \in BagToSet(effects') : Warranted(e)
    BY <1>4 DEF Consent
  <2> QED
    BY <1>6, <1>7, <2>1 DEF Warranted
<1> QED
  BY <1>10, <1>11, <1>12 DEF Consent, ConsentOn

\* The card that is delivered is the one the token is about.
LEMMA PostCardKeepsConsent ==
    ASSUME Coroutines, Rest, OneToken, Places, Consent, NEW k \in Tasks, PostCard(k)
    PROVE  Consent'
<1> DEFINE x == [tasks[k] EXCEPT !.phase = "posted"]
<1>1. tasks' = [tasks EXCEPT ![k] = x] /\ tasks[k] \in Task /\ tasks[k].phase = "running"
  BY DEF PostCard, Coroutines
<1>2. PICK u \in Threads : u = tasks[k].thread
  BY <1>1 DEF Task
<1>3. x.phase = "posted" /\ x.thread = u /\ x.node = tasks[k].node /\ x.st = tasks[k].st
  BY <1>1, <1>2 DEF Task
<1> HIDE DEF x
<1>4. tasks[k].node \in SendNodes
  BY SendersSendCards DEF PostCard
<1>5. UNCHANGED <<saved, clicks, effects>>
  BY DEF PostCard, history
<1>6. tasks'[k] = x /\ \A j \in Tasks : j # k => tasks'[j] = tasks[j]
  BY <1>1 DEF Coroutines
<1>7. ASSUME NEW t \in ChatThreads PROVE ConsentOn(t)'
  <2>1. CASE t = u
    <3>1. /\ Holds(k, t)
          /\ \A j \in Tasks : ~Holds(j, t)'
          /\ \A c \in CardsOn(t) : Open(c)' => CardsOf(t, tasks[k].node, tasks[k].st) = {c}
      BY <1>2, <2>1, PostCardHands
    <3>2. Placed(k, tasks[k], saved[t]) /\ Live(tasks[k]) /\ ~Summoned(tasks[k])
      BY <1>1, <1>4, <3>1 DEF Places, PlacedOn, Live, Summoned, SendNodes, Interrupts, END
    <3>3. ASSUME NEW plan \in Plans, Pending(t, plan)'
          PROVE  Approved(t, plan)' \/ AllAbout(t, plan)'
      <4> DEFINE Sent == CardsOf(t, tasks[k].node, tasks[k].st) = {PlanCard(t, plan)}
      <4>1. Sent => AllAbout(t, plan)'
        BY <3>1 DEF AllAbout, CardsOn
      <4>2. tasks[k].node = "send_proposal_card" /\ tasks[k].st.proposals = plan => Sent
        BY SendersSendCards
      <4>3. CASE Straggles(x, t, plan)
        BY <1>3, <4>1, <4>2, <4>3 DEF Straggles
      <4>4. CASE Pending(t, plan) /\ Approved(t, plan)
        BY <1>5, <4>4 DEF Approved
      <4>5. CASE Pending(t, plan) /\ AllAbout(t, plan)
        <5>1. About(k, tasks[k], plan)
          BY <3>1, <4>5 DEF AllAbout
        <5>2. CASE tasks[k].answer /\ clicks[k].card = PlanCard(t, plan)
          <6>1. Fits(PlanCard(t, plan), To(tasks[k].node, tasks[k].st))
            BY <3>2, <5>2 DEF Placed
          <6> QED
            BY <1>4, <4>1, <6>1 DEF Fits, To, PlanCard
        <5> QED
          BY <1>2, <1>4, <2>1, <3>2, <4>1, <4>2, <5>1, <5>2 DEF About, SendNodes
      <4>6. Straggles(x, t, plan) \/ Pending(t, plan)
        <5>1. Asks(saved[t], plan)' => Asks(saved[t], plan)
          BY <1>5 DEF Asks
        <5>2. \A j \in Tasks : Straggles(tasks[j], t, plan)' =>
                 Straggles(x, t, plan) \/ Straggles(tasks[j], t, plan)
          BY <1>6 DEF Straggles
        <5> QED
          BY <3>3, <5>1, <5>2 DEF Pending
      <4> QED
        BY <4>3, <4>4, <4>5, <4>6 DEF Consent, ConsentOn
    <3> QED
      BY <3>3 DEF ConsentOn
  <2>2. CASE t # u
    <3>1. PICK posted \in {{}, CardsOf(u, tasks[k].node, tasks[k].st)} :
             sent' = [c \in Cards |-> IF c \in posted THEN sent[c] + 1 ELSE sent[c]]
      BY <1>2 DEF PostCard
    <3>2. \A c \in posted : c.thread = u
      BY DEF CardsOf
    <3>3. \A c \in CardsOn(t) : sent'[c] = sent[c]
      BY <2>2, <3>1, <3>2 DEF CardsOn
    <3> QED
      BY <1>1, <1>2, <1>3, <1>5, <2>2, <3>3, ConsentElsewhere
  <2> QED
    BY <2>1, <2>2
<1>8. Entitled(k, x)
  BY <1>3 DEF Entitled
<1>9. \A e \in BagToSet(effects') : Warranted(e)
  BY <1>5 DEF Consent
<1> QED
  BY <1>1, <1>5, <1>7, <1>8, <1>9, MoveKeepsConsent

\* A superstep asks for a plan that is about to be sent, or for none; only an
\* approval takes a plan past the question.
LEMMA RunNodeKeepsConsent ==
    ASSUME Coroutines, Waiting, OneToken, Places, Consent, NEW k \in Tasks, RunNode(k)
    PROVE  Consent'
<1>1. PICK u \in Threads, o \in Outcomes(tasks[k].node, tasks[k].st, ActionOf(k)), x \in Task :
              /\ u = tasks[k].thread /\ o \in Checkpoint
              /\ tasks[k].node \in Nodes /\ tasks[k].st \in GraphState
              /\ tasks[k].phase = IF tasks[k].node \in SendNodes THEN "posted" ELSE "running"
              /\ tasks[k].node \in SendNodes \/ Live(tasks[k])
              /\ tasks' = [tasks EXCEPT ![k] = x] /\ tasks'[k] = x
              /\ \A j \in Tasks : j # k => tasks'[j] = tasks[j]
              /\ x.thread = u /\ x.phase = "running" /\ x.node = o.node /\ x.st = o.st /\ ~x.answer
              /\ saved' = [saved EXCEPT ![u] = o] /\ saved'[u] = o
              /\ UNCHANGED <<sent, clicks>>
  BY RunNodeOnThread
<1> DEFINE n == tasks[k].node
           s == tasks[k].st
           a == ActionOf(k)
<1>2. /\ n = "send_diagnosis_card" => o = To("await_diagnosis_approval", s)
      /\ n = "send_proposal_card" => o = To("await_proposal_approval", s)
      /\ n \notin SendNodes => o.node \notin Interrupts
      /\ n \in Interrupts /\ a = "reject" => o.node = "escalate"
      /\ n = "escalate" => o.node = END
      /\ o.node = "execute" =>
            \/ n = "await_proposal_approval" /\ o.st.proposals = s.proposals
            \/ n = "policy_evaluate" /\ AllAuto(o.st)
  BY <1>1, Routes
<1> HIDE DEF n, s, a
<1>3. k \notin Threads => /\ a = clicks[k].action /\ a \in {"approve", "reject"}
                          /\ k \in DOMAIN clicks /\ clicks[k] \in Clicks
                          /\ clicks[k].card.thread = u
  BY <1>1, ClicksAnswer DEF Clicks, a
<1>4. tasks[k].answer => k \notin Threads
  BY DEF Coroutines, OwnCoroutines
<1>5. \A c : Open(c)' <=> Open(c)
  BY <1>1 DEF Open, Clicked
<1>6. \A t, plan : tasks[k].answer /\ a = "approve" /\ clicks[k].card = PlanCard(t, plan) => Approved(t, plan)
  <2> SUFFICES ASSUME NEW t, NEW plan, tasks[k].answer, a = "approve",
                      clicks[k].card = PlanCard(t, plan)
               PROVE  Approved(t, plan)
    OBVIOUS
  <2>1. k \in DOMAIN clicks /\ clicks[k] = [card |-> PlanCard(t, plan), action |-> "approve"]
    BY <1>3, <1>4 DEF Clicks
  <2> QED
    BY <2>1 DEF Approved
<1>7. ASSUME NEW t \in ChatThreads PROVE ConsentOn(t)'
  <2>1. CASE t # u
    <3>1. saved'[t] = saved[t]
      BY <1>1, <2>1 DEF Coroutines, ChatThreads
    <3> QED
      BY <1>1, <2>1, <3>1, ConsentElsewhere
  <2>2. CASE t = u /\ n \in SendNodes
    <3>1. ASSUME NEW plan \in Plans, Pending(t, plan)' PROVE Pending(t, plan)
      <4>1. Asks(saved[t], plan)' => Straggles(tasks[k], t, plan)
        BY <1>1, <1>2, <2>2 DEF Asks, Straggles, To, SendNodes, n, s
      <4>2. \A j \in Tasks : Straggles(tasks[j], t, plan)' => Straggles(tasks[j], t, plan)
        BY <1>1 DEF Straggles
      <4> QED
        BY <3>1, <4>1, <4>2 DEF Pending
    <3>2. ASSUME NEW j \in Tasks, Holds(j, t)' PROVE j # k /\ Holds(j, t) /\ tasks'[j] = tasks[j]
      <4>1. o.node \in Interrupts
        BY <1>2, <2>2 DEF To, SendNodes, Interrupts
      <4>2. ~Live(x) /\ ~Summoned(x) /\ x.phase # "idle"
        BY <1>1, <4>1 DEF Live, Summoned
      <4>3. j # k
        BY <1>1, <3>2, <4>2 DEF Holds, Holding, Live, Summoned
      <4> QED
        BY <1>1, <3>2, <4>3 DEF Holds, Holding, Live, Summoned
    <3>3. ASSUME NEW plan \in Plans, AllAbout(t, plan) PROVE AllAbout(t, plan)'
      <4>1. ASSUME NEW j \in Tasks, Holds(j, t)' PROVE About(j, tasks[j], plan)'
        <5>1. About(j, tasks[j], plan) /\ tasks'[j] = tasks[j]
          BY <3>2, <3>3, <4>1 DEF AllAbout
        <5> QED
          BY <1>1, <5>1 DEF About, Summoned
      <4> QED
        BY <1>5, <3>3, <4>1 DEF AllAbout, CardsOn
    <3>4. \A plan : Approved(t, plan) => Approved(t, plan)'
      BY <1>1 DEF Approved
    <3> QED
      BY <3>1, <3>3, <3>4 DEF Consent, ConsentOn
  <2>3. CASE t = u /\ n \notin SendNodes
    <3>1. Live(tasks[k]) /\ Holds(k, t) /\ tasks[k].phase = "running"
      BY <1>1, <2>3 DEF Holds, Holding, n
    <3>2. Placed(k, tasks[k], saved[t])
      BY <3>1 DEF Places, PlacedOn
    <3>3. \A c \in CardsOn(t) : ~Open(c)'
      BY <1>5, <3>1 DEF OneToken
    <3>4. ASSUME NEW j \in Tasks, Holds(j, t)' PROVE j = k /\ Live(x)
      <4>1. j = k
        BY <1>1, <3>1, <3>4 DEF OneToken, Holds, Holding, Live, Summoned
      <4> QED
        BY <1>1, <3>4, <4>1 DEF Holds, Holding, Live, Summoned
    <3>5. ASSUME NEW plan \in Plans, Pending(t, plan)'
          PROVE  Approved(t, plan) \/ (Live(x) => About(k, x, plan))
      <4>1. CASE Asks(o, plan)
        BY <1>1, <1>2, <2>3, <4>1 DEF Asks, About, Interrupts
      <4>2. CASE Pending(t, plan)
        <5>1. CASE AllAbout(t, plan)
          <6>1. About(k, tasks[k], plan)
            BY <3>1, <5>1 DEF AllAbout
          <6>2. CASE tasks[k].answer /\ clicks[k].card = PlanCard(t, plan)
            <7>1. n \in Interrupts
              BY <2>3, <3>1, <3>2, <6>2 DEF Placed, Asking, n
            <7>2. CASE a = "approve"
              BY <1>6, <6>2, <7>2
            <7>3. CASE a = "reject"
              BY <1>1, <1>2, <7>1, <7>3 DEF About
            <7> QED
              BY <1>3, <1>4, <6>2, <7>2, <7>3
          <6>3. CASE n = "escalate"
            BY <1>1, <1>2, <6>3 DEF Live
          <6> QED
            BY <1>1, <2>3, <3>1, <6>1, <6>2, <6>3 DEF About, Summoned, SendNodes, n
        <5> QED
          BY <4>2, <5>1 DEF Consent, ConsentOn
      <4>3. Asks(o, plan) \/ Pending(t, plan)
        <5>1. Asks(saved[t], plan)' => Asks(o, plan)
          BY <1>1, <2>3 DEF Asks
        <5>2. \A j \in Tasks : Straggles(tasks[j], t, plan)' => Straggles(tasks[j], t, plan)
          BY <1>1 DEF Straggles
        <5> QED
          BY <3>5, <5>1, <5>2 DEF Pending
      <4> QED
        BY <4>1, <4>2, <4>3
    <3>6. ASSUME NEW plan \in Plans, Live(x) => About(k, x, plan) PROVE AllAbout(t, plan)'
      <4>1. ASSUME NEW j \in Tasks, Holds(j, t)' PROVE About(j, tasks[j], plan)'
        <5>1. About(k, x, plan) /\ j = k
          BY <3>4, <3>6, <4>1
        <5> QED
          BY <1>1, <5>1 DEF About, Summoned
      <4> QED
        BY <3>3, <4>1 DEF AllAbout, CardsOn
    <3>7. \A plan : Approved(t, plan) => Approved(t, plan)'
      BY <1>1 DEF Approved
    <3> QED
      BY <3>5, <3>6, <3>7 DEF ConsentOn
  <2> QED
    BY <2>1, <2>2, <2>3
<1>8. Entitled(k, x)
  <2> SUFFICES ASSUME x.node = "execute" PROVE AllAuto(x.st) \/ Approved(u, x.st.proposals)
    BY <1>1 DEF Entitled
  <2>1. CASE n = "policy_evaluate" /\ AllAuto(o.st)
    BY <1>1, <2>1
  <2>2. CASE n = "await_proposal_approval" /\ o.st.proposals = s.proposals
    <3>1. tasks[k].answer /\ tasks[k].phase = "running"
      BY <1>1, <2>2 DEF Live, SendNodes, Interrupts, n
    <3>2. Approved(u, s.proposals) \/ clicks[k].card = PlanCard(u, s.proposals)
      BY <1>1, <2>2, <3>1 DEF Consent, Entitled, n, s
    <3>3. a = "approve"
      BY <1>1, <1>2, <1>3, <1>4, <2>2, <3>1 DEF Interrupts
    <3> QED
      BY <1>1, <1>6, <2>2, <3>1, <3>2, <3>3
  <2> QED
    BY <1>1, <1>2, <2>1, <2>2
<1>9. \A e \in BagToSet(effects') : Warranted(e)
  <2>1. \A e \in CarriedOut(k) : Warranted(e)
    BY <1>1, CarriedOutIsWarranted DEF Driven
  <2> QED
    BY <2>1, EffectsStayWarranted DEF RunNode
<1> QED
  BY <1>1, <1>7, <1>8, <1>9, MoveKeepsConsent

LEMMA WorkKeepsConsent ==
    ASSUME Coroutines, Waiting, Rest, OneToken, Places, Consent, NEW k \in Tasks, Work(k)
    PROVE  Consent'
<1> DEFINE t == tasks[k].thread
<1>0. ASSUME UNCHANGED effects PROVE \A e \in BagToSet(effects') : Warranted(e)
  BY <1>0 DEF Consent
<1>1. CASE Resume(k)
  <2>1. PICK how \in {"memory", "persisted"} :
           Moves(k, [tasks[k] EXCEPT !.phase = IF how = "memory" THEN "loading" ELSE "peeking",
                                     !.how = how])
    BY <1>1, ResumeMoves
  <2> DEFINE x == [tasks[k] EXCEPT !.phase = IF how = "memory" THEN "loading" ELSE "peeking",
                                   !.how = how]
  <2>2. tasks[k].phase = "called" /\ tasks[k] \in Task /\ UNCHANGED <<saved, sent, clicks, effects>>
    BY <1>1 DEF Resume, history, Coroutines
  <2>3. /\ x.thread = t /\ x.phase \in {"loading", "peeking"}
        /\ tasks' = [tasks EXCEPT ![k] = x]
    BY <2>1, <2>2 DEF Moves, Task
  <2> HIDE DEF x
  <2>4. Holding(k, tasks[k]) /\ \A plan : About(k, tasks[k], plan) => About(k, x, plan)
    BY <2>2, <2>3 DEF Holding, About, Summoned
  <2>5. Entitled(k, x)
    BY <2>3 DEF Entitled
  <2> QED
    BY <1>0, <2>2, <2>3, <2>4, <2>5, QuietMoveKeepsConsent
<1>2. CASE Peek(k) /\ ~Lose(k)
  <2>1. tasks[k].phase = "peeking" /\ tasks[k] \in Task /\ UNCHANGED <<saved, sent, clicks, effects>>
    BY <1>2 DEF Peek, history, Coroutines
  <2>2. CASE Finish(k)
    BY <1>0, <2>1, <2>2, FinishKeepsConsent
  <2>3. CASE tasks' = [tasks EXCEPT ![k].phase = "loading"]
    <3> DEFINE x == [tasks[k] EXCEPT !.phase = "loading"]
    <3>1. tasks' = [tasks EXCEPT ![k] = x] /\ x.phase = "loading" /\ x.thread = t
      BY <2>1, <2>3 DEF Task
    <3> HIDE DEF x
    <3>2. Holding(k, tasks[k]) /\ \A plan : About(k, tasks[k], plan) => About(k, x, plan)
      BY <2>1, <3>1 DEF Holding, About, Summoned
    <3>3. Entitled(k, x)
      BY <3>1 DEF Entitled
    <3> QED
      BY <1>0, <2>1, <3>1, <3>2, <3>3, QuietMoveKeepsConsent
  <2> QED
    BY <1>2, <2>2, <2>3 DEF Peek
<1>3. CASE Load(k) /\ ~Lose(k)
  <2> DEFINE c == saved[t]
             x == AtNode(tasks[k], c, TRUE)
  <2>1. /\ k \in 1..MaxClicks /\ tasks[k].phase = "loading"
        /\ tasks[k] \in Task /\ c \in Checkpoint /\ tasks' = [tasks EXCEPT ![k] = x]
        /\ UNCHANGED <<saved, sent, clicks, effects>>
    BY <1>3, LoadMoves DEF Moves, Load, history
  <2>2. /\ x.thread = t /\ x.phase = "running" /\ x.node = c.node /\ x.st = c.st /\ x.answer
    BY <2>1, AtNodeIsTask
  <2>3. t \in ChatThreads
    BY <2>1 DEF Waiting, ClicksDriveTheChat, ChatThreads, Task
  <2>4. Summoned(tasks[k]) /\ Holds(k, t)
    BY <2>1 DEF Holds, Holding, Summoned
  <2> HIDE DEF x
  <2>5. Holding(k, tasks[k]) /\ \A plan : About(k, tasks[k], plan) => About(k, x, plan)
    BY <2>1, <2>2 DEF Holding, About, Summoned
  <2>6. c.node \in Asking
    BY <2>3, <2>4 DEF Places, PlacedOn, Placed
  <2>7. ASSUME x.node = "await_proposal_approval"
        PROVE  Approved(t, x.st.proposals) \/ clicks[k].card = PlanCard(t, x.st.proposals)
    <3>1. c.st.proposals \in Plans
      BY <2>1 DEF Checkpoint, GraphState
    <3>2. Pending(t, c.st.proposals)
      BY <2>2, <2>7 DEF Pending, Asks
    <3>3. CASE AllAbout(t, c.st.proposals)
      <4>1. About(k, tasks[k], c.st.proposals)
        BY <2>4, <3>3 DEF AllAbout
      <4> QED
        BY <2>1, <2>2, <4>1 DEF About
    <3> QED
      BY <2>2, <2>3, <3>1, <3>2, <3>3 DEF Consent, ConsentOn
  <2>8. Entitled(k, x)
    BY <2>2, <2>6, <2>7 DEF Entitled, Asking, SendNodes, Interrupts
  <2> QED
    BY <1>0, <2>1, <2>2, <2>5, <2>8, QuietMoveKeepsConsent
<1>4. CASE NodeRaises(k)
  <2>1. \A e \in BagToSet(effects') : Warranted(e)
    <3>1. \A e \in CarriedOut(k) : Warranted(e)
      BY <1>4, CarriedOutIsWarranted DEF NodeRaises, Driven
    <3> QED
      BY <1>4, <3>1, EffectsStayWarranted DEF NodeRaises
  <2> QED
    BY <1>4, <2>1, FinishKeepsConsent DEF NodeRaises
<1>5. CASE ReturnPaused(k) \/ ReturnEnded(k)
  BY <1>0, <1>5, FinishKeepsConsent DEF ReturnPaused, ReturnEnded, history
<1>9. CASE (Peek(k) \/ Load(k)) /\ Lose(k)
  BY <1>0, <1>9, FinishKeepsConsent DEF Peek, Load, history
<1> QED
  BY <1>1, <1>2, <1>3, <1>4, <1>5, <1>9, PostCardKeepsConsent, RunNodeKeepsConsent DEF Work

LEMMA RestartKeepsConsent ==
    ASSUME Coroutines, Waiting, OneToken, Places, Consent, Restart
    PROVE  Consent'
<1>1. \A k \in Tasks :
         \/ tasks'[k] = tasks[k] /\ tasks[k].phase \in {"idle", "done", "lost", "killed"}
         \/ tasks[k].phase # "idle" /\ tasks'[k] = At(tasks[k].thread, "killed")
  BY RestartKills
<1>2. \A k \in Tasks : \/ tasks'[k].phase = "killed"
                       \/ tasks'[k].phase \in {"idle", "done", "lost", "killed"} /\ tasks'[k] = tasks[k]
  <2>1. \A t : At(t, "killed").phase = "killed"
    BY DEF At
  <2> QED
    BY <1>1, <2>1
<1>3. sent' = sent /\ clicks' = clicks
  BY DEF Restart
<1>4. \A t \in ChatThreads : saved'[t] = saved[t]
  BY DEF Restart, ChatThreads
<1>5. \A c : Open(c)' <=> Open(c)
  BY <1>3 DEF Open, Clicked
<1>6. \A t, plan : Approved(t, plan)' <=> Approved(t, plan)
  BY <1>3 DEF Approved
<1>7. ASSUME NEW t \in ChatThreads, NEW plan \in Plans, Pending(t, plan)'
      PROVE  Approved(t, plan)' \/ AllAbout(t, plan)'
  <2>1. Pending(t, plan)
    <3>1. Asks(saved[t], plan)' => Asks(saved[t], plan)
      BY <1>4 DEF Asks
    <3>2. \A j \in Tasks : ~Straggles(tasks[j], t, plan)'
      BY <1>2 DEF Straggles
    <3> QED
      BY <1>7, <3>1, <3>2 DEF Pending
  <2>2. CASE AllAbout(t, plan)
    <3>1. ASSUME NEW j \in Tasks, Holds(j, t)' PROVE About(j, tasks[j], plan)'
      <4>1. tasks'[j] = tasks[j] /\ Holds(j, t)
        BY <1>2, <3>1 DEF Holds, Holding, Live, Summoned
      <4>2. About(j, tasks[j], plan)
        BY <2>2, <4>1 DEF AllAbout
      <4> QED
        BY <1>3, <4>1, <4>2 DEF About, Summoned
    <3> QED
      BY <1>5, <2>2, <3>1 DEF AllAbout, CardsOn
  <2> QED
    BY <1>6, <2>1, <2>2 DEF Consent, ConsentOn
<1>8. \A k \in Tasks : Entitled(k, tasks[k])'
  BY <1>2 DEF Entitled
<1>9. \A e \in BagToSet(effects') : Warranted(e)'
  <2>1. PICK K \in SUBSET {k \in Tasks : Driven(k) /\ CarriedOut(k) # {}} :
           effects' = effects (+) SetToBag(UNION {CarriedOut(k) : k \in K})
    BY DEF Restart
  <2>2. \A e \in UNION {CarriedOut(k) : k \in K} : Warranted(e)
    BY CarriedOutIsWarranted
  <2>3. \A e \in BagToSet(effects') : Warranted(e)
    BY <2>1, <2>2, EffectsStayWarranted
  <2> QED
    BY <1>3, <1>6, <2>3 DEF Warranted
<1> QED
  BY <1>7, <1>8, <1>9 DEF Consent, ConsentOn

LEMMA StepKeepsConsent ==
    Coroutines /\ Waiting /\ Rest /\ ClickOnce /\ OneToken /\ Places /\ Consent /\ [Next]_vars => Consent'
<1> SUFFICES ASSUME Coroutines, Waiting, Rest, ClickOnce, OneToken, Places, Consent, [Next]_vars
             PROVE  Consent'
  OBVIOUS
<1>0. ASSUME UNCHANGED effects PROVE \A e \in BagToSet(effects') : Warranted(e)
  BY <1>0 DEF Consent
<1>1. ASSUME NEW t \in Threads, _trigger_workflow(t) \/ receive_alert(t) PROVE Consent'
  <2> DEFINE x == At(t, "running")
  <2>1. Begin(t) /\ t \in Tasks
    BY <1>1 DEF _trigger_workflow, receive_alert, Tasks
  <2>2. /\ tasks' = [tasks EXCEPT ![t] = x] /\ tasks[t] = At(t, "idle")
        /\ UNCHANGED <<saved, sent, clicks, effects>>
    BY <2>1, BeginMoves DEF Begin, Moves, history
  <2>3. /\ x.thread = t /\ x.phase = "running" /\ x.node = "ingest" /\ ~x.answer
        /\ tasks[t].thread = t /\ tasks[t].phase = "idle" /\ ~tasks[t].answer
    BY <2>2 DEF At
  <2> HIDE DEF x
  <2>4. /\ Holding(t, tasks[t]) /\ Entitled(t, x)
        /\ \A plan : ~About(t, tasks[t], plan)
    BY <2>3 DEF Holding, Entitled, About, Summoned
  <2> QED
    BY <1>0, <2>1, <2>2, <2>3, <2>4, QuietMoveKeepsConsent
<1>2. ASSUME NEW t \in Threads, TimeOut(t) PROVE Consent'
  BY <1>0, <1>2, FinishKeepsConsent DEF TimeOut, Tasks, history
<1>3. CASE UNCHANGED <<saved, tasks, sent, clicks, effects>>
  <2>1. \A c : Open(c)' <=> Open(c)
    BY <1>3 DEF Open, Clicked
  <2>2. \A t, plan : /\ Approved(t, plan)' <=> Approved(t, plan)
                     /\ Pending(t, plan)' <=> Pending(t, plan)
    BY <1>3 DEF Approved, Pending, Asks, Straggles
  <2>3. \A t, plan : AllAbout(t, plan) => AllAbout(t, plan)'
    BY <1>3, <2>1 DEF AllAbout, About, Holds, Holding, Live, Summoned, CardsOn
  <2>4. \A t \in ChatThreads : ConsentOn(t)'
    BY <2>2, <2>3 DEF Consent, ConsentOn
  <2>5. \A k \in Tasks : Entitled(k, tasks[k])'
    BY <1>3, <2>2 DEF Consent, Entitled
  <2>6. \A e \in BagToSet(effects') : Warranted(e)'
    BY <1>3, <2>2 DEF Consent, Warranted
  <2> QED
    BY <2>4, <2>5, <2>6 DEF Consent
<1>4. ASSUME NEW t \in Threads, GrowOld(t) PROVE Consent'
  BY <1>3, <1>4 DEF GrowOld, history
<1>5. CASE CleanupStarts \/ CleanupGoesOn
  BY <1>3, <1>5 DEF CleanupStarts, CleanupGoesOn, history
<1>6. CASE UNCHANGED vars
  BY <1>3, <1>6 DEF vars
<1> QED
  BY <1>1, <1>2, <1>4, <1>5, <1>6, ClickKeepsConsent, RestartKeepsConsent, WorkKeepsConsent DEF Next

-----------------------------------------------------------------------------
(* Counting. Every coroutine that carried a plan out and every one that may *)
(* still put it to the question again stands for an answer of its own to    *)
(* the plan's card; so does the question under way.                         *)

Receipt(k, t, plan) == [task |-> k, thread |-> t, plan |-> plan, released |-> FALSE]

Executors(t, plan)  == {k \in 1..MaxClicks : Receipt(k, t, plan) \in BagToSet(effects)}
Stragglers(t, plan) == {k \in 1..MaxClicks : Straggles(tasks[k], t, plan)}

Owed(t, plan)  == Cardinality(Executors(t, plan)) + Cardinality(Stragglers(t, plan))
Asked(t, plan) == Cardinality(Clicked(PlanCard(t, plan)))

Waits(t, plan) == saved[t].node = "await_proposal_approval" /\ saved[t].st.proposals = plan

\* x has a plan that nobody released on its way from the question to the
\* execution.
Bears(x, plan) ==
    /\ x.st.proposals = plan
    /\ x.node = "await_proposal_approval" \/ (x.node = "execute" /\ ~AllAuto(x.st))

\* The holder x may carry the plan out: with what it holds, or with what it
\* will load.
Uses(x, plan) ==
    IF Live(x) /\ x.node \notin SendNodes THEN Bears(x, plan) ELSE Waits(x.thread, plan)

One(p) == IF p THEN 1 ELSE 0

\* A coroutine that has carried out nothing of what needs an answer.
Fresh(x) ==
    Summoned(x) \/ (x.phase = "running" /\ (x.answer \/ (x.node = "execute" /\ ~AllAuto(x.st))))

PaidOn(t) ==
    \A plan \in Plans :
        /\ \A k \in Tasks : Holds(k, t) => Owed(t, plan) + One(Uses(tasks[k], plan)) <= Asked(t, plan)
        /\ \A c \in CardsOn(t) :
              Open(c) => Owed(t, plan) + One(Waits(t, plan)) <= Asked(t, plan) + One(c = PlanCard(t, plan))
        /\ Cardinality(Executors(t, plan)) <= Asked(t, plan)

\* No coroutine carries out twice what needs an answer.
Single == \A e \in BagToSet(effects) : ~e.released => effects[e] = 1

Untouched(k) == \A e \in BagToSet(effects) : ~e.released => e.task # k

Counts ==
    /\ \A t \in ChatThreads : PaidOn(t)
    /\ Single
    /\ \A k \in 1..MaxClicks : Fresh(tasks[k]) => Untouched(k)

LEMMA CountsAreNumbers ==
    ASSUME Coroutines, NEW t, NEW plan
    PROVE  /\ IsFiniteSet(Executors(t, plan)) /\ Cardinality(Executors(t, plan)) \in Nat
           /\ IsFiniteSet(Stragglers(t, plan)) /\ Cardinality(Stragglers(t, plan)) \in Nat
           /\ Owed(t, plan) \in Nat /\ Asked(t, plan) \in Nat
<1>1. IsFiniteSet(1..MaxClicks)
  BY WorkflowRunsAssumption, FS_Interval
<1>2. IsFiniteSet(Executors(t, plan)) /\ IsFiniteSet(Stragglers(t, plan))
  BY <1>1, FS_Subset DEF Executors, Stragglers
<1>3. Cardinality(Executors(t, plan)) \in Nat /\ Cardinality(Stragglers(t, plan)) \in Nat
  BY <1>2, FS_CardinalityType
<1>4. Asked(t, plan) \in Nat
  BY ClickedIsFinite DEF Asked
<1> QED
  BY <1>2, <1>3, <1>4 DEF Owed

\* Fewer stragglers, less is owed.
LEMMA FewerAreOwed ==
    ASSUME Coroutines, UNCHANGED clicks, NEW t, NEW plan,
           Executors(t, plan)' = Executors(t, plan),
           Stragglers(t, plan)' \subseteq Stragglers(t, plan)
    PROVE  /\ Asked(t, plan)' = Asked(t, plan)
           /\ Owed(t, plan)' \in Nat /\ Owed(t, plan)' <= Owed(t, plan)
<1>1. Asked(t, plan)' = Asked(t, plan)
  BY DEF Asked, Clicked
<1>2. Cardinality(Stragglers(t, plan)') <= Cardinality(Stragglers(t, plan))
  BY CountsAreNumbers, FS_Subset
<1>3. /\ Cardinality(Stragglers(t, plan)) \in Nat /\ Cardinality(Executors(t, plan)) \in Nat
      /\ Cardinality(Stragglers(t, plan)') \in Nat
  <2>1. Cardinality(Stragglers(t, plan)) \in Nat /\ Cardinality(Executors(t, plan)) \in Nat
    BY CountsAreNumbers
  <2>2. IsFiniteSet(Stragglers(t, plan)')
    BY CountsAreNumbers, FS_Subset
  <2> QED
    BY <2>1, <2>2, FS_CardinalityType
<1>4. Owed(t, plan)' = Cardinality(Executors(t, plan)') + Cardinality(Stragglers(t, plan)')
  BY DEF Owed
<1> QED
  BY <1>1, <1>2, <1>3, <1>4 DEF Owed

\* Who straggles after a step of one coroutine.
LEMMA StragglersAfter ==
    ASSUME Coroutines, NEW k \in Tasks, NEW x, tasks' = [tasks EXCEPT ![k] = x]
    PROVE  \A t, plan :
              Stragglers(t, plan)' = IF k \in 1..MaxClicks /\ Straggles(x, t, plan)
                                     THEN Stragglers(t, plan) \cup {k}
                                     ELSE Stragglers(t, plan) \ {k}
<1>1. tasks'[k] = x /\ \A j \in Tasks : j # k => tasks'[j] = tasks[j]
  BY DEF Coroutines
<1>2. \A j \in 1..MaxClicks : j \in Tasks
  BY DEF Tasks
<1>3. \A t, plan : Stragglers(t, plan)' = {j \in 1..MaxClicks : Straggles(tasks'[j], t, plan)}
  BY DEF Stragglers, Straggles
<1> QED
  BY <1>1, <1>2, <1>3 DEF Stragglers

\* What was fresh and moved on is fresh no more, or as untouched as before.
LEMMA QuietMoveKeepsCounts ==
    ASSUME Coroutines, Counts, NEW k \in Tasks, NEW x,
           tasks' = [tasks EXCEPT ![k] = x], x.thread = tasks[k].thread,
           UNCHANGED <<saved, sent, clicks, effects>>, x.phase # "posted",
           Holding(k, x) => /\ Holding(k, tasks[k])
                            /\ \A plan : Uses(x, plan) => Uses(tasks[k], plan),
           Fresh(x) => Fresh(tasks[k])
    PROVE  Counts'
<1>1. tasks'[k] = x /\ \A j \in Tasks : j # k => tasks'[j] = tasks[j]
  BY DEF Coroutines
<1>2. \A c : Open(c)' <=> Open(c)
  BY DEF Open, Clicked
<1>3. ASSUME NEW t \in ChatThreads, NEW plan \in Plans
      PROVE  /\ \A j \in Tasks : Holds(j, t)' =>
                   Owed(t, plan)' + One(Uses(tasks[j], plan)') <= Asked(t, plan)'
             /\ \A c \in CardsOn(t) : Open(c)' =>
                   Owed(t, plan)' + One(Waits(t, plan)') <= Asked(t, plan)' + One(c = PlanCard(t, plan))
             /\ Cardinality(Executors(t, plan))' <= Asked(t, plan)'
  <2>1. \A u, p : Stragglers(u, p)' = IF k \in 1..MaxClicks /\ Straggles(x, u, p)
                                      THEN Stragglers(u, p) \cup {k}
                                      ELSE Stragglers(u, p) \ {k}
    BY StragglersAfter
  <2>2. Stragglers(t, plan)' \subseteq Stragglers(t, plan)
    BY <2>1 DEF Straggles
  <2>3. Executors(t, plan)' = Executors(t, plan)
    BY DEF Executors
  <2>7. /\ Asked(t, plan)' = Asked(t, plan)
        /\ Owed(t, plan)' \in Nat /\ Owed(t, plan)' <= Owed(t, plan)
    BY <2>2, <2>3, FewerAreOwed
  <2>4. Owed(t, plan) \in Nat /\ Asked(t, plan) \in Nat
    BY CountsAreNumbers
  <2>5. Waits(t, plan)' <=> Waits(t, plan)
    BY DEF Waits
  <2>6. ASSUME NEW j \in Tasks, Holds(j, t)'
        PROVE  Holds(j, t) /\ (Uses(tasks[j], plan)' => Uses(tasks[j], plan))
    <3>1. Holding(j, tasks'[j]) /\ tasks'[j].thread = t
      BY <2>6 DEF Holds, Holding, Live, Summoned
    <3>2. Uses(tasks[j], plan)' <=> Uses(tasks'[j], plan)
      BY DEF Uses, Live, Bears, Waits
    <3>3. CASE j = k
      BY <1>1, <3>1, <3>2, <3>3 DEF Holds
    <3>4. CASE j # k
      BY <1>1, <3>1, <3>2, <3>4 DEF Holds
    <3> QED
      BY <3>3, <3>4
  <2> QED
    BY <1>2, <2>3, <2>4, <2>5, <2>6, <2>7 DEF Counts, PaidOn, One, CardsOn
<1>4. Single'
  BY DEF Counts, Single
<1>5. \A j \in 1..MaxClicks : Fresh(tasks[j])' => Untouched(j)'
  <2> TAKE j \in 1..MaxClicks
  <2>1. Fresh(tasks[j])' => Fresh(tasks[j])
    <3>1. Fresh(tasks[j])' <=> Fresh(tasks'[j])
      BY DEF Fresh, Summoned
    <3> QED
      BY <1>1, <3>1 DEF Tasks
  <2>2. Untouched(j)' <=> Untouched(j)
    BY DEF Untouched
  <2> QED
    BY <2>1, <2>2 DEF Counts
<1> QED
  BY <1>3, <1>4, <1>5 DEF Counts, PaidOn, CardsOn

LEMMA InitCounts == Init => Counts
<1> SUFFICES ASSUME Init PROVE Counts
  OBVIOUS
<1>1. Coroutines
  BY InitCoroutines
<1>2. \A k \in Tasks : tasks[k].phase = "idle"
  BY DEF Init, At
<1>3. \A t \in Threads : saved[t].node = END
  BY DEF Init, NoCheckpoint
<1>4. BagToSet(effects) = {}
  BY DEF Init, EmptyBag, SetToBag, BagToSet
<1>5. \A c \in Cards : ~Open(c)
  <2>1. \A c \in Cards : sent[c] = 0 /\ Cardinality(Clicked(c)) \in Nat
    BY <1>1, ClickedIsFinite DEF Init
  <2> QED
    BY <2>1 DEF Open
<1>6. ASSUME NEW t \in ChatThreads, NEW plan \in Plans
      PROVE  /\ \A k \in Tasks : Holds(k, t) =>
                   Owed(t, plan) + One(Uses(tasks[k], plan)) <= Asked(t, plan)
             /\ Cardinality(Executors(t, plan)) <= Asked(t, plan)
  <2>1. Executors(t, plan) = {}
    BY <1>4 DEF Executors
  <2>2. Stragglers(t, plan) = {}
    BY <1>2 DEF Stragglers, Straggles, Tasks
  <2>3. Cardinality({}) = 0
    BY FS_EmptySet
  <2>4. Asked(t, plan) \in Nat
    BY <1>1, CountsAreNumbers
  <2>5. \A k \in Tasks : Holds(k, t) => ~Uses(tasks[k], plan)
    BY <1>2, <1>3 DEF Uses, Live, Waits, Holds, END, ChatThreads
  <2> QED
    BY <2>1, <2>2, <2>3, <2>4, <2>5 DEF Owed, One
<1>7. \A k \in 1..MaxClicks : ~Fresh(tasks[k])
  BY <1>2 DEF Fresh, Summoned, Tasks
<1> QED
  BY <1>4, <1>5, <1>6, <1>7 DEF Counts, PaidOn, Single, CardsOn

\* A coroutine that ends without having carried anything out.
LEMMA FinishKeepsCounts ==
    ASSUME Coroutines, Counts, NEW k \in Tasks, Finish(k) \/ Lose(k), UNCHANGED <<saved, sent, clicks, effects>>
    PROVE  Counts'
<1>0. PICK phase \in {"done", "lost"} : tasks' = [tasks EXCEPT ![k] = At(tasks[k].thread, phase)]
  BY DEF Finish, Lose
<1> DEFINE x == At(tasks[k].thread, phase)
<1>1. tasks' = [tasks EXCEPT ![k] = x] /\ x.phase \in {"done", "lost"} /\ x.thread = tasks[k].thread
  BY <1>0 DEF At
<1> HIDE DEF x
<1>2. ~Holding(k, x) /\ ~Fresh(x)
  BY <1>1 DEF Holding, Live, Summoned, Fresh
<1> QED
  BY <1>1, <1>2, QuietMoveKeepsCounts

\* The threads a coroutine does not work on.
LEMMA PaidElsewhere ==
    ASSUME Coroutines, Counts, NEW k \in Tasks, NEW x, tasks' = [tasks EXCEPT ![k] = x],
           x.thread = tasks[k].thread, UNCHANGED clicks,
           NEW t \in ChatThreads, t # tasks[k].thread, saved'[t] = saved[t],
           \A c \in CardsOn(t) : sent'[c] = sent[c],
           \A plan \in Plans : Executors(t, plan)' = Executors(t, plan)
    PROVE  PaidOn(t)'
<1>1. tasks'[k] = x /\ \A j \in Tasks : j # k => tasks'[j] = tasks[j]
  BY DEF Coroutines
<1>2. \A c \in CardsOn(t) : Open(c)' <=> Open(c)
  BY DEF Open, Clicked
<1>3. \A u, p : Stragglers(u, p)' = IF k \in 1..MaxClicks /\ Straggles(x, u, p)
                                    THEN Stragglers(u, p) \cup {k}
                                    ELSE Stragglers(u, p) \ {k}
  BY StragglersAfter
<1>4. ASSUME NEW plan \in Plans
      PROVE  /\ \A j \in Tasks : Holds(j, t)' =>
                   Owed(t, plan)' + One(Uses(tasks[j], plan)') <= Asked(t, plan)'
             /\ \A c \in CardsOn(t) : Open(c)' =>
                   Owed(t, plan)' + One(Waits(t, plan)') <= Asked(t, plan)' + One(c = PlanCard(t, plan))
             /\ Cardinality(Executors(t, plan))' <= Asked(t, plan)'
  <2>1. Stragglers(t, plan)' \subseteq Stragglers(t, plan)
    BY <1>3 DEF Straggles
  <2>2. /\ Asked(t, plan)' = Asked(t, plan)
        /\ Owed(t, plan)' \in Nat /\ Owed(t, plan)' <= Owed(t, plan)
    BY <2>1, FewerAreOwed
  <2>3. Owed(t, plan) \in Nat /\ Asked(t, plan) \in Nat
    BY CountsAreNumbers
  <2>4. Waits(t, plan)' <=> Waits(t, plan)
    BY DEF Waits
  <2>5. ASSUME NEW j \in Tasks, Holds(j, t)'
        PROVE  Holds(j, t) /\ (Uses(tasks[j], plan)' <=> Uses(tasks[j], plan))
    <3>1. j # k /\ tasks'[j] = tasks[j]
      BY <1>1, <2>5 DEF Holds
    <3>2. Holds(j, t) /\ tasks[j].thread = t
      BY <2>5, <3>1 DEF Holds, Holding, Live, Summoned
    <3> QED
      BY <2>4, <3>1, <3>2 DEF Uses, Live, Bears
  <2> QED
    BY <1>2, <2>2, <2>3, <2>4, <2>5 DEF Counts, PaidOn, One, CardsOn
<1> QED
  BY <1>4 DEF PaidOn, CardsOn

\* A step of one coroutine, thread by thread.
LEMMA MoveKeepsCounts ==
    ASSUME Coroutines, Counts, NEW k \in Tasks, NEW x, tasks' = [tasks EXCEPT ![k] = x],
           \A t \in ChatThreads : PaidOn(t)', Single',
           \A e \in BagToSet(effects') : e \in BagToSet(effects) \/ e \in CarriedOut(k),
           Fresh(x) => Fresh(tasks[k]) /\ tasks[k].node # "execute"
    PROVE  Counts'
<1>1. tasks'[k] = x /\ \A j \in Tasks : j # k => tasks'[j] = tasks[j]
  BY DEF Coroutines
<1>2. ASSUME NEW j \in 1..MaxClicks, Fresh(tasks[j])' PROVE Untouched(j)'
  <2>1. Fresh(tasks'[j])
    BY <1>2 DEF Fresh, Summoned
  <2>2. Fresh(tasks[j]) /\ (j = k => CarriedOut(k) = {})
    BY <1>1, <2>1 DEF CarriedOut, Tasks
  <2>3. Untouched(j)
    BY <2>2 DEF Counts
  <2>4. \A e \in CarriedOut(k) : e.task = k
    BY DEF CarriedOut
  <2> QED
    BY <2>2, <2>3, <2>4 DEF Untouched
<1> QED
  BY <1>2 DEF Counts

\* What coroutines carry out is paid for: each holds its thread, bears the plan
\* and has carried out nothing before.
LEMMA ExecutionsArePaid ==
    ASSUME Coroutines, Waiting, OneToken, Places, Consent, Counts,
           NEW K \in SUBSET {k \in Tasks : Driven(k)},
           effects' = effects (+) SetToBag(UNION {CarriedOut(k) : k \in K})
    PROVE  /\ Single'
           /\ \A e \in BagToSet(effects') : e \in BagToSet(effects) \/ \E k \in K : e \in CarriedOut(k)
           /\ \A t \in ChatThreads, plan \in Plans :
                 /\ \/ Executors(t, plan)' = Executors(t, plan)
                    \/ \E k \in K : /\ Holds(k, t) /\ Live(tasks[k]) /\ tasks[k].node = "execute"
                                    /\ Bears(tasks[k], plan)
                                    /\ Executors(t, plan)' = Executors(t, plan) \cup {k}
                 /\ Cardinality(Executors(t, plan)') <= Asked(t, plan)
<1> DEFINE S == UNION {CarriedOut(k) : k \in K}
<1>1. /\ DOMAIN effects' = DOMAIN effects \cup S
      /\ \A e \in DOMAIN effects' :
            effects'[e] = (IF e \in DOMAIN effects THEN effects[e] ELSE 0) + (IF e \in S THEN 1 ELSE 0)
  BY DEF (+), SetToBag
<1>2. BagToSet(effects') = BagToSet(effects) \cup S /\ BagToSet(effects) = DOMAIN effects
  BY <1>1 DEF BagToSet
<1>3. ASSUME NEW k \in K, NEW e \in CarriedOut(k)
      PROVE  /\ k \in 1..MaxClicks /\ Live(tasks[k]) /\ tasks[k].node = "execute"
             /\ Holds(k, tasks[k].thread) /\ e.thread = tasks[k].thread /\ e.task = k
             /\ ~e.released => /\ Bears(tasks[k], e.plan) /\ e \notin DOMAIN effects
                               /\ e = Receipt(k, e.thread, e.plan)
  <2>1. /\ k \in 1..MaxClicks /\ tasks[k].phase = "running" /\ tasks[k].node = "execute"
        /\ Live(tasks[k])
        /\ e = [task |-> k, thread |-> tasks[k].thread, plan |-> tasks[k].st.proposals,
                released |-> AllAuto(tasks[k].st)]
    BY <1>3, CarriedOutIsWarranted
  <2>2. Holds(k, tasks[k].thread)
    BY <2>1 DEF Holds, Holding
  <2>3. ASSUME ~e.released
        PROVE  /\ Bears(tasks[k], e.plan) /\ e \notin DOMAIN effects
               /\ e = Receipt(k, e.thread, e.plan)
    <3>1. ~AllAuto(tasks[k].st) /\ e.plan = tasks[k].st.proposals
      BY <2>1, <2>3
    <3>2. Bears(tasks[k], e.plan)
      BY <2>1, <3>1 DEF Bears
    <3>3. Untouched(k)
      BY <2>1, <3>1 DEF Counts, Fresh
    <3>4. e \notin DOMAIN effects
      BY <1>2, <2>1, <2>3, <3>3 DEF Untouched
    <3>5. e = Receipt(k, e.thread, e.plan)
      <4>1. AllAuto(tasks[k].st) = FALSE
        BY <3>1 DEF AllAuto
      <4> QED
        BY <2>1, <4>1 DEF Receipt
    <3> QED
      BY <3>2, <3>4, <3>5
  <2> QED
    BY <2>1, <2>2, <2>3
<1> HIDE DEF S
<1>4. Single'
  <2> SUFFICES ASSUME NEW e \in DOMAIN effects', ~e.released PROVE effects'[e] = 1
    BY DEF Single, BagToSet
  <2>1. CASE e \in DOMAIN effects
    <3>1. effects[e] = 1
      BY <1>2, <2>1 DEF Counts, Single
    <3>2. e \notin S
      BY <1>3, <2>1 DEF S
    <3> QED
      BY <1>1, <2>1, <3>1, <3>2
  <2>2. CASE e \notin DOMAIN effects
    BY <1>1, <2>2
  <2> QED
    BY <2>1, <2>2
<1>5. ASSUME NEW t \in ChatThreads, NEW plan \in Plans
      PROVE  /\ \/ Executors(t, plan)' = Executors(t, plan)
                \/ \E k \in K : /\ Holds(k, t) /\ Live(tasks[k]) /\ tasks[k].node = "execute"
                                /\ Bears(tasks[k], plan)
                                /\ Executors(t, plan)' = Executors(t, plan) \cup {k}
             /\ Cardinality(Executors(t, plan)') <= Asked(t, plan)
  <2>1. Executors(t, plan)' = Executors(t, plan) \cup {k \in 1..MaxClicks : Receipt(k, t, plan) \in S}
    BY <1>2 DEF Executors, Receipt
  <2>2. ASSUME NEW k \in 1..MaxClicks, Receipt(k, t, plan) \in S
        PROVE  k \in K /\ Holds(k, t) /\ Live(tasks[k]) /\ tasks[k].node = "execute" /\ Bears(tasks[k], plan)
    <3>1. PICK j \in K : Receipt(k, t, plan) \in CarriedOut(j)
      BY <2>2 DEF S
    <3>2. /\ Receipt(k, t, plan).task = k /\ Receipt(k, t, plan).thread = t
          /\ Receipt(k, t, plan).plan = plan /\ ~Receipt(k, t, plan).released
      BY DEF Receipt
    <3> QED
      BY <1>3, <3>1, <3>2
  <2>3. /\ IsFiniteSet(Executors(t, plan)) /\ Cardinality(Executors(t, plan)) \in Nat
        /\ Cardinality(Stragglers(t, plan)) \in Nat /\ Asked(t, plan) \in Nat
    BY CountsAreNumbers
  <2>4. CASE \A k \in 1..MaxClicks : Receipt(k, t, plan) \notin S
    <3>1. Executors(t, plan)' = Executors(t, plan)
      BY <2>1, <2>4
    <3> QED
      BY <3>1 DEF Counts, PaidOn
  <2>5. ASSUME NEW k \in 1..MaxClicks, Receipt(k, t, plan) \in S
        PROVE  /\ Executors(t, plan)' = Executors(t, plan) \cup {k}
               /\ Cardinality(Executors(t, plan)') <= Asked(t, plan)
    <3>1. Holds(k, t) /\ k \in Tasks /\ Uses(tasks[k], plan)
      BY <2>2, <2>5 DEF Uses, SendNodes, Tasks
    <3>2. \A j \in 1..MaxClicks : Receipt(j, t, plan) \in S => j = k
      BY <2>2, <3>1 DEF OneToken, Tasks
    <3>3. Executors(t, plan)' = Executors(t, plan) \cup {k}
      BY <2>1, <2>5, <3>2
    <3>4. Owed(t, plan) + One(Uses(tasks[k], plan)) <= Asked(t, plan)
      BY <3>1 DEF Counts, PaidOn
    <3>5. Cardinality(Executors(t, plan)) + 1 <= Asked(t, plan)
      BY <2>3, <3>1, <3>4 DEF Owed, One
    <3>6. Cardinality(Executors(t, plan) \cup {k}) <= Cardinality(Executors(t, plan)) + 1
      <4>1. CASE k \in Executors(t, plan)
        <5>1. Executors(t, plan) \cup {k} = Executors(t, plan)
          BY <4>1
        <5>2. Cardinality(Executors(t, plan) \cup {k}) = Cardinality(Executors(t, plan))
          BY <5>1
        <5> QED
          BY <2>3, <5>2
      <4>2. CASE k \notin Executors(t, plan)
        BY <2>3, <4>2, CountOneMore
      <4> QED
        BY <4>1, <4>2
    <3>7. IsFiniteSet(Executors(t, plan) \cup {k}) /\ Cardinality(Executors(t, plan) \cup {k}) \in Nat
      BY <2>3, FS_AddElement, FS_CardinalityType
    <3> QED
      BY <2>3, <3>3, <3>5, <3>6, <3>7
  <2> QED
    BY <2>2, <2>4, <2>5
<1> QED
  BY <1>2, <1>4, <1>5 DEF S

\* A click is one more answer to its card, and takes the place of the open card.
LEMMA ClickKeepsCounts ==
    ASSUME Coroutines, Rest, ClickOnce, OneToken, Consent, Counts,
           NEW card \in Cards, NEW action \in Answers, Click(card, action)
    PROVE  Counts'
<1> DEFINE x == At(card.thread, "called")
<1>1. PICK n \in 1..MaxClicks :
         /\ n = Len(clicks) + 1 /\ n \in Tasks
         /\ tasks' = [tasks EXCEPT ![n] = x]
         /\ Len(clicks) \in Nat
  BY ClickAdds
<1>2. x.thread = card.thread /\ x.phase = "called"
  BY DEF At
<1> HIDE DEF x
<1>3. tasks'[n] = x /\ \A j \in Tasks : j # n => tasks'[j] = tasks[j]
  BY <1>1 DEF Coroutines
<1>4. Open(card) /\ OneToken' /\ UNCHANGED <<saved, sent, effects>>
  BY ClickKeepsOneToken DEF Click
<1>5. /\ Cardinality(Clicked(card)') = Cardinality(Clicked(card)) + 1
      /\ \A c : c # card => Clicked(c)' = Clicked(c)
  BY ClickIsCounted
<1>6. \A t, plan : Stragglers(t, plan)' = Stragglers(t, plan)
  <2>1. \A t, plan : Stragglers(t, plan)' = IF n \in 1..MaxClicks /\ Straggles(x, t, plan)
                                            THEN Stragglers(t, plan) \cup {n}
                                            ELSE Stragglers(t, plan) \ {n}
    BY <1>1, StragglersAfter
  <2>2. \A t, plan : n \notin Stragglers(t, plan)
    <3>1. tasks[n].phase = "idle"
      BY <1>1, NextClickIsIdle
    <3> QED
      BY <3>1 DEF Stragglers, Straggles
  <2> QED
    BY <1>2, <2>1, <2>2 DEF Straggles
<1>7. \A t, plan : Executors(t, plan)' = Executors(t, plan)
  BY <1>4 DEF Executors
<1>8. \A t, plan : Owed(t, plan)' = Owed(t, plan)
  BY <1>6, <1>7 DEF Owed
<1>9. \A t, plan : Waits(t, plan)' <=> Waits(t, plan)
  BY <1>4 DEF Waits
<1>10. ASSUME NEW t \in ChatThreads, NEW plan \in Plans
       PROVE  /\ \A j \in Tasks : Holds(j, t)' =>
                    Owed(t, plan)' + One(Uses(tasks[j], plan)') <= Asked(t, plan)'
              /\ \A c \in CardsOn(t) : Open(c)' =>
                    Owed(t, plan)' + One(Waits(t, plan)') <= Asked(t, plan)' + One(c = PlanCard(t, plan))
              /\ Cardinality(Executors(t, plan))' <= Asked(t, plan)'
  <2>1. Owed(t, plan) \in Nat /\ Asked(t, plan) \in Nat /\ Cardinality(Executors(t, plan)) \in Nat
    BY CountsAreNumbers
  <2>2. Asked(t, plan)' = Asked(t, plan) + One(card = PlanCard(t, plan))
    <3>1. CASE card = PlanCard(t, plan)
      BY <1>5, <3>1 DEF Asked, One
    <3>2. CASE card # PlanCard(t, plan)
      <4>1. Clicked(PlanCard(t, plan))' = Clicked(PlanCard(t, plan))
        BY <1>5, <3>2
      <4> QED
        BY <2>1, <3>2, <4>1 DEF Asked, One
    <3> QED
      BY <3>1, <3>2
  <2>3. Cardinality(Executors(t, plan))' <= Asked(t, plan)'
    <3>1. Cardinality(Executors(t, plan)) <= Asked(t, plan)
      BY DEF Counts, PaidOn
    <3> QED
      BY <1>7, <2>1, <2>2, <3>1 DEF One
  <2>4. Owed(t, plan)' = Owed(t, plan) /\ (Waits(t, plan)' <=> Waits(t, plan))
    BY <1>8, <1>9
  <2>5. CASE t = card.thread
    <3>1. Holds(n, t)'
      BY <1>1, <1>2, <1>3, <2>5 DEF Holds, Holding, Summoned
    <3>2. /\ \A c \in CardsOn(t) : ~Open(c)'
          /\ \A j \in Tasks : Holds(j, t)' => j = n
      BY <1>1, <1>4, <3>1 DEF OneToken, CardsOn
    <3>3. Owed(t, plan) + One(Waits(t, plan)) <= Asked(t, plan) + One(card = PlanCard(t, plan))
      BY <1>4, <2>5 DEF Counts, PaidOn, CardsOn
    <3>4. Uses(tasks[n], plan)' <=> Waits(t, plan)
      BY <1>2, <1>3, <1>4, <2>5 DEF Uses, Live, Waits
    <3> QED
      BY <2>2, <2>3, <2>4, <3>2, <3>3, <3>4 DEF One
  <2>6. CASE t # card.thread
    <3>1. \A c \in CardsOn(t) : Open(c)' <=> Open(c)
      BY <1>4, <1>5, <2>6 DEF Open, CardsOn
    <3>2. Asked(t, plan)' = Asked(t, plan)
      <4>1. PlanCard(t, plan) # card
        BY <2>6 DEF PlanCard
      <4> QED
        BY <2>1, <2>2, <4>1 DEF One
    <3>3. ASSUME NEW j \in Tasks, Holds(j, t)'
          PROVE  Holds(j, t) /\ (Uses(tasks[j], plan)' <=> Uses(tasks[j], plan))
      <4>1. j # n /\ tasks'[j] = tasks[j]
        BY <1>2, <1>3, <2>6, <3>3 DEF Holds
      <4>2. Holds(j, t) /\ tasks[j].thread = t
        BY <3>3, <4>1 DEF Holds, Holding, Live, Summoned
      <4> QED
        BY <2>4, <4>1, <4>2 DEF Uses, Live, Bears
    <3>4. \A j \in Tasks : Holds(j, t)' =>
             Owed(t, plan)' + One(Uses(tasks[j], plan)') <= Asked(t, plan)'
      BY <2>4, <3>2, <3>3 DEF Counts, PaidOn, One
    <3>5. \A c \in CardsOn(t) : Open(c)' =>
             Owed(t, plan)' + One(Waits(t, plan)') <= Asked(t, plan)' + One(c = PlanCard(t, plan))
      BY <2>4, <3>1, <3>2 DEF Counts, PaidOn, One
    <3> QED
      BY <2>3, <3>4, <3>5 DEF CardsOn
  <2> QED
    BY <2>5, <2>6
<1>11. Single'
  BY <1>4 DEF Counts, Single
<1>12. ASSUME NEW j \in 1..MaxClicks, Fresh(tasks[j])' PROVE Untouched(j)'
  <2>1. Untouched(j)
    <3>1. CASE j = n
      <4>1. n \notin DOMAIN clicks
        BY <1>1 DEF Coroutines
      <4> QED
        BY <3>1, <4>1 DEF Untouched, Consent, Warranted
    <3>2. CASE j # n
      <4>1. tasks'[j] = tasks[j]
        BY <1>3, <3>2 DEF Tasks
      <4> QED
        BY <1>12, <4>1 DEF Counts, Fresh, Summoned
    <3> QED
      BY <3>1, <3>2
  <2> QED
    BY <1>4, <2>1 DEF Untouched
<1> QED
  BY <1>10, <1>11, <1>12 DEF Counts, PaidOn, CardsOn

\* A node that posts the card of a plan owes an answer, and the card earns one.
LEMMA PostCardKeepsCounts ==
    ASSUME Coroutines, Rest, OneToken, Places, Counts, NEW k \in Tasks, PostCard(k)
    PROVE  Counts'
<1> DEFINE x == [tasks[k] EXCEPT !.phase = "posted"]
<1>1. tasks' = [tasks EXCEPT ![k] = x] /\ tasks[k] \in Task /\ tasks[k].phase = "running"
  BY DEF PostCard, Coroutines
<1>2. PICK u \in Threads : u = tasks[k].thread
  BY <1>1 DEF Task
<1>3. x.phase = "posted" /\ x.thread = u /\ x.node = tasks[k].node /\ x.st = tasks[k].st
  BY <1>1, <1>2 DEF Task
<1> HIDE DEF x
<1>4. tasks[k].node \in SendNodes
  BY SendersSendCards DEF PostCard
<1>5. UNCHANGED <<saved, clicks, effects>>
  BY DEF PostCard, history
<1>6. \A t, plan : Stragglers(t, plan)' = IF k \in 1..MaxClicks /\ Straggles(x, t, plan)
                                          THEN Stragglers(t, plan) \cup {k}
                                          ELSE Stragglers(t, plan) \ {k}
  BY <1>1, StragglersAfter
<1>7. \A t, plan : /\ Executors(t, plan)' = Executors(t, plan)
                   /\ Asked(t, plan)' = Asked(t, plan)
                   /\ Waits(t, plan)' <=> Waits(t, plan)
  BY <1>5 DEF Executors, Asked, Clicked, Waits
<1>8. ASSUME NEW t \in ChatThreads PROVE PaidOn(t)'
  <2>1. CASE t = u
    <3>1. /\ Holds(k, t)
          /\ \A j \in Tasks : ~Holds(j, t)'
          /\ \A c \in CardsOn(t) : Open(c)' => CardsOf(t, tasks[k].node, tasks[k].st) = {c}
      BY <1>2, <2>1, PostCardHands
    <3>2. ASSUME NEW plan \in Plans
          PROVE  /\ \A c \in CardsOn(t) : Open(c)' =>
                       Owed(t, plan)' + One(Waits(t, plan)') <= Asked(t, plan)' + One(c = PlanCard(t, plan))
                 /\ Cardinality(Executors(t, plan))' <= Asked(t, plan)'
      <4>1. /\ Executors(t, plan)' = Executors(t, plan)
            /\ Asked(t, plan)' = Asked(t, plan)
            /\ Waits(t, plan)' <=> Waits(t, plan)
        BY <1>7
      <4>2. /\ Cardinality(Executors(t, plan)) \in Nat /\ Asked(t, plan) \in Nat
            /\ IsFiniteSet(Stragglers(t, plan)) /\ Cardinality(Stragglers(t, plan)) \in Nat
        BY CountsAreNumbers
      <4>3. k \notin Stragglers(t, plan)
        BY <1>1 DEF Stragglers, Straggles
      <4>4. Cardinality(Stragglers(t, plan)') <= Cardinality(Stragglers(t, plan)) + One(Straggles(x, t, plan))
        <5>1. CASE k \in 1..MaxClicks /\ Straggles(x, t, plan)
          <6>1. Stragglers(t, plan)' = Stragglers(t, plan) \cup {k}
            BY <1>6, <5>1
          <6>2. Cardinality(Stragglers(t, plan) \cup {k}) = Cardinality(Stragglers(t, plan)) + 1
            BY <4>2, <4>3, CountOneMore
          <6> QED
            BY <4>2, <5>1, <6>1, <6>2 DEF One
        <5>2. CASE ~(k \in 1..MaxClicks /\ Straggles(x, t, plan))
          <6>1. Stragglers(t, plan)' = Stragglers(t, plan)
            BY <1>6, <4>3, <5>2
          <6> QED
            BY <4>2, <6>1 DEF One
        <5> QED
          BY <5>1, <5>2
      <4>5. Cardinality(Stragglers(t, plan)') \in Nat
        <5>1. Stragglers(t, plan)' \subseteq Stragglers(t, plan) \cup {k}
          BY <1>6
        <5>2. IsFiniteSet(Stragglers(t, plan) \cup {k})
          BY <4>2, FS_AddElement
        <5> QED
          BY <5>1, <5>2, FS_Subset, FS_CardinalityType
      <4>6. Owed(t, plan)' = Cardinality(Executors(t, plan)') + Cardinality(Stragglers(t, plan)')
        BY DEF Owed
      <4>7. Owed(t, plan) + One(Waits(t, plan)) <= Asked(t, plan)
        <5>1. Owed(t, plan) + One(Uses(tasks[k], plan)) <= Asked(t, plan)
          BY <3>1 DEF Counts, PaidOn
        <5>2. Uses(tasks[k], plan) <=> Waits(t, plan)
          BY <1>2, <1>4, <2>1 DEF Uses
        <5> QED
          BY <4>2, <5>1, <5>2 DEF One
      <4>8. ASSUME NEW c \in CardsOn(t), Open(c)', Straggles(x, t, plan) PROVE c = PlanCard(t, plan)
        <5>1. CardsOf(t, tasks[k].node, tasks[k].st) = {c}
          BY <3>1, <4>8
        <5>2. CardsOf(t, tasks[k].node, tasks[k].st) = {PlanCard(t, plan)}
          BY <1>3, <4>8, SendersSendCards DEF Straggles
        <5> QED
          BY <5>1, <5>2
      <4>9. Cardinality(Executors(t, plan)) <= Asked(t, plan)
        BY DEF Counts, PaidOn
      <4> QED
        BY <4>1, <4>2, <4>4, <4>5, <4>6, <4>7, <4>8, <4>9 DEF Owed, One
    <3> QED
      BY <3>1, <3>2 DEF PaidOn, CardsOn
  <2>2. CASE t # u
    <3>1. PICK posted \in {{}, CardsOf(u, tasks[k].node, tasks[k].st)} :
             sent' = [c \in Cards |-> IF c \in posted THEN sent[c] + 1 ELSE sent[c]]
      BY <1>2 DEF PostCard
    <3>2. \A c \in posted : c.thread = u
      BY DEF CardsOf
    <3>3. \A c \in CardsOn(t) : sent'[c] = sent[c]
      BY <2>2, <3>1, <3>2 DEF CardsOn
    <3> QED
      BY <1>1, <1>2, <1>3, <1>5, <1>7, <2>2, <3>3, PaidElsewhere
  <2> QED
    BY <2>1, <2>2
<1>9. ~Fresh(x)
  BY <1>3 DEF Fresh, Summoned
<1>10. Single' /\ \A e \in BagToSet(effects') : e \in BagToSet(effects)
  BY <1>5 DEF Counts, Single
<1> QED
  BY <1>1, <1>8, <1>9, <1>10, MoveKeepsCounts

\* A superstep spends what its coroutine bore, and a straggler that puts its
\* plan to the question straggles no more.
LEMMA RunNodeKeepsCounts ==
    ASSUME Coroutines, Waiting, OneToken, Places, Consent, Counts, NEW k \in Tasks, RunNode(k)
    PROVE  Counts'
<1>1. PICK u \in Threads, o \in Outcomes(tasks[k].node, tasks[k].st, ActionOf(k)), x \in Task :
              /\ u = tasks[k].thread /\ o \in Checkpoint
              /\ tasks[k].node \in Nodes /\ tasks[k].st \in GraphState
              /\ tasks[k].phase = IF tasks[k].node \in SendNodes THEN "posted" ELSE "running"
              /\ tasks[k].node \in SendNodes \/ Live(tasks[k])
              /\ tasks' = [tasks EXCEPT ![k] = x] /\ tasks'[k] = x
              /\ \A j \in Tasks : j # k => tasks'[j] = tasks[j]
              /\ x.thread = u /\ x.phase = "running" /\ x.node = o.node /\ x.st = o.st /\ ~x.answer
              /\ saved' = [saved EXCEPT ![u] = o] /\ saved'[u] = o
              /\ UNCHANGED <<sent, clicks>>
  BY RunNodeOnThread
<1> DEFINE n == tasks[k].node
           s == tasks[k].st
<1>2. /\ n = "send_diagnosis_card" => o = To("await_diagnosis_approval", s)
      /\ n = "send_proposal_card" => o = To("await_proposal_approval", s)
      /\ n \notin SendNodes => o.node \notin Interrupts
      /\ o.node = "execute" =>
            \/ n = "await_proposal_approval" /\ o.st.proposals = s.proposals
            \/ n = "policy_evaluate" /\ AllAuto(o.st)
  BY <1>1, Routes
<1> HIDE DEF n, s
<1>3. \A c : Open(c)' <=> Open(c)
  BY <1>1 DEF Open, Clicked
<1>4. \A t, plan : Stragglers(t, plan)' = Stragglers(t, plan) \ {k}
  <2>1. \A t, plan : Stragglers(t, plan)' = IF k \in 1..MaxClicks /\ Straggles(x, t, plan)
                                            THEN Stragglers(t, plan) \cup {k}
                                            ELSE Stragglers(t, plan) \ {k}
    BY <1>1, StragglersAfter
  <2> QED
    BY <1>1, <2>1 DEF Straggles
<1>5. /\ Single'
      /\ \A e \in BagToSet(effects') : e \in BagToSet(effects) \/ e \in CarriedOut(k)
      /\ \A t \in ChatThreads, plan \in Plans :
            /\ \/ Executors(t, plan)' = Executors(t, plan)
               \/ /\ Holds(k, t) /\ n = "execute" /\ Bears(tasks[k], plan)
                  /\ Executors(t, plan)' = Executors(t, plan) \cup {k}
            /\ Cardinality(Executors(t, plan)') <= Asked(t, plan)
  <2>1. PICK K \in SUBSET {j \in Tasks : Driven(j)} : K = {k}
    BY <1>1 DEF Driven
  <2>2. effects' = effects (+) SetToBag(UNION {CarriedOut(j) : j \in K})
    <3>1. UNION {CarriedOut(j) : j \in K} = CarriedOut(k)
      BY <2>1
    <3> QED
      BY <3>1 DEF RunNode
  <2>3. /\ Single'
        /\ \A e \in BagToSet(effects') : e \in BagToSet(effects) \/ \E j \in K : e \in CarriedOut(j)
        /\ \A t \in ChatThreads, plan \in Plans :
              /\ \/ Executors(t, plan)' = Executors(t, plan)
                 \/ \E j \in K : /\ Holds(j, t) /\ Live(tasks[j]) /\ tasks[j].node = "execute"
                                 /\ Bears(tasks[j], plan)
                                 /\ Executors(t, plan)' = Executors(t, plan) \cup {j}
              /\ Cardinality(Executors(t, plan)') <= Asked(t, plan)
    BY <2>2, ExecutionsArePaid
  <2> QED
    BY <2>1, <2>3 DEF n
<1>6. \A t, plan : Asked(t, plan)' = Asked(t, plan)
  BY <1>1 DEF Asked, Clicked
<1>7. ASSUME NEW t \in ChatThreads PROVE PaidOn(t)'
  <2>1. CASE t # u
    <3>1. saved'[t] = saved[t]
      BY <1>1, <2>1 DEF Coroutines, ChatThreads
    <3>2. \A plan \in Plans : Executors(t, plan)' = Executors(t, plan)
      BY <1>1, <1>5, <2>1 DEF Holds
    <3> QED
      BY <1>1, <2>1, <3>1, <3>2, PaidElsewhere
  <2>2. CASE t = u /\ n \in SendNodes
    <3>1. ASSUME NEW plan \in Plans
          PROVE  /\ \A j \in Tasks : Holds(j, t)' =>
                       Owed(t, plan)' + One(Uses(tasks[j], plan)') <= Asked(t, plan)'
                 /\ \A c \in CardsOn(t) : Open(c)' =>
                       Owed(t, plan)' + One(Waits(t, plan)') <= Asked(t, plan)' + One(c = PlanCard(t, plan))
                 /\ Cardinality(Executors(t, plan))' <= Asked(t, plan)'
      <4>1. Executors(t, plan)' = Executors(t, plan) /\ Asked(t, plan)' = Asked(t, plan)
        BY <1>5, <1>6, <2>2 DEF SendNodes
      <4>2. /\ Cardinality(Executors(t, plan)) \in Nat /\ Asked(t, plan) \in Nat /\ Owed(t, plan) \in Nat
            /\ IsFiniteSet(Stragglers(t, plan)) /\ Cardinality(Stragglers(t, plan)) \in Nat
        BY CountsAreNumbers
      <4>3. Stragglers(t, plan)' = Stragglers(t, plan) \ {k}
        BY <1>4
      <4>4. Owed(t, plan)' \in Nat /\ Owed(t, plan)' <= Owed(t, plan)
        BY <1>1, <4>1, <4>3, FewerAreOwed
      <4>5. Waits(t, plan)' => k \in Stragglers(t, plan)
        <5> SUFFICES ASSUME o.node = "await_proposal_approval", o.st.proposals = plan
                     PROVE  k \in Stragglers(t, plan)
          BY <1>1, <2>2 DEF Waits
        <5>1. n = "send_proposal_card" /\ s.proposals = plan
          BY <1>2, <2>2 DEF To, SendNodes
        <5>2. k \notin Threads
          BY <1>1, <5>1 DEF Places, Driven, Early, END, n
        <5> QED
          BY <1>1, <2>2, <5>1, <5>2 DEF Stragglers, Straggles, Tasks, SendNodes, n, s
      <4>6. Owed(t, plan)' + One(Waits(t, plan)') <= Owed(t, plan)
        <5>1. CASE Waits(t, plan)'
          <6>1. Cardinality(Stragglers(t, plan) \ {k}) = Cardinality(Stragglers(t, plan)) - 1
            BY <4>2, <4>5, <5>1, FS_RemoveElement
          <6>2. Owed(t, plan)' = Cardinality(Executors(t, plan)') + Cardinality(Stragglers(t, plan)')
            BY DEF Owed
          <6> QED
            BY <4>1, <4>2, <4>3, <5>1, <6>1, <6>2 DEF Owed, One
        <5>2. CASE ~Waits(t, plan)'
          BY <4>2, <4>4, <5>2 DEF One
        <5> QED
          BY <5>1, <5>2
      <4>7. ASSUME NEW j \in Tasks, Holds(j, t)'
            PROVE  Owed(t, plan)' + One(Uses(tasks[j], plan)') <= Asked(t, plan)'
        <5>1. j # k /\ tasks'[j] = tasks[j] /\ Holds(j, t)
          <6>1. o.node \in Interrupts
            BY <1>2, <2>2 DEF To, SendNodes, Interrupts
          <6>2. ~Live(x) /\ ~Summoned(x) /\ x.phase # "idle"
            BY <1>1, <6>1 DEF Live, Summoned
          <6>3. j # k
            BY <1>1, <4>7, <6>2 DEF Holds, Holding, Live, Summoned
          <6> QED
            BY <1>1, <4>7, <6>3 DEF Holds, Holding, Live, Summoned
        <5>2. Owed(t, plan) + One(Uses(tasks[j], plan)) <= Asked(t, plan)
          BY <5>1 DEF Counts, PaidOn
        <5>3. CASE Live(tasks[j]) /\ tasks[j].node \notin SendNodes
          <6>1. Uses(tasks[j], plan)' <=> Uses(tasks[j], plan)
            BY <5>1, <5>3 DEF Uses, Live, Bears
          <6> QED
            BY <4>1, <4>2, <4>4, <5>2, <6>1 DEF One
        <5>4. CASE ~(Live(tasks[j]) /\ tasks[j].node \notin SendNodes)
          <6>1. Uses(tasks[j], plan)' <=> Waits(t, plan)'
            BY <5>1, <5>4 DEF Uses, Live, Holds
          <6> QED
            BY <4>1, <4>2, <4>4, <4>6, <5>2, <6>1 DEF One
        <5> QED
          BY <5>3, <5>4
      <4>8. \A c \in CardsOn(t) : Open(c) => Owed(t, plan) <= Asked(t, plan) + One(c = PlanCard(t, plan))
        BY <4>2 DEF Counts, PaidOn, One
      <4>9. \A c \in CardsOn(t) : Open(c)' =>
               Owed(t, plan)' + One(Waits(t, plan)') <= Asked(t, plan)' + One(c = PlanCard(t, plan))
        BY <1>3, <4>1, <4>2, <4>4, <4>6, <4>8 DEF One
      <4>10. Cardinality(Executors(t, plan)) <= Asked(t, plan)
        BY DEF Counts, PaidOn
      <4> QED
        BY <4>1, <4>7, <4>9, <4>10 DEF CardsOn
    <3> QED
      BY <3>1 DEF PaidOn, CardsOn
  <2>3. CASE t = u /\ n \notin SendNodes
    <3>1. Live(tasks[k]) /\ Holds(k, t) /\ tasks[k].phase = "running"
      BY <1>1, <2>3 DEF Holds, Holding, n
    <3>2. \A c \in CardsOn(t) : ~Open(c)'
      BY <1>3, <3>1 DEF OneToken
    <3>3. ASSUME NEW j \in Tasks, Holds(j, t)' PROVE j = k /\ Live(x)
      <4>1. j = k
        BY <1>1, <3>1, <3>3 DEF OneToken, Holds, Holding, Live, Summoned
      <4> QED
        BY <1>1, <3>3, <4>1 DEF Holds, Holding, Live, Summoned
    <3>4. ASSUME NEW plan \in Plans
          PROVE  /\ \A j \in Tasks : Holds(j, t)' =>
                       Owed(t, plan)' + One(Uses(tasks[j], plan)') <= Asked(t, plan)'
                 /\ Cardinality(Executors(t, plan))' <= Asked(t, plan)'
      <4>1. /\ Cardinality(Executors(t, plan)) \in Nat /\ Asked(t, plan) \in Nat
            /\ IsFiniteSet(Executors(t, plan)) /\ Cardinality(Stragglers(t, plan)) \in Nat
        BY CountsAreNumbers
      <4>2. Stragglers(t, plan)' = Stragglers(t, plan) /\ Asked(t, plan)' = Asked(t, plan)
        <5>1. Stragglers(t, plan)' = Stragglers(t, plan) \ {k}
          BY <1>4
        <5>2. k \notin Stragglers(t, plan)
          BY <3>1 DEF Stragglers, Straggles
        <5> QED
          BY <1>6, <5>1, <5>2
      <4>3. Owed(t, plan) + One(Bears(tasks[k], plan)) <= Asked(t, plan)
        <5>1. Uses(tasks[k], plan) <=> Bears(tasks[k], plan)
          BY <2>3, <3>1 DEF Uses, n
        <5>2. Owed(t, plan) + One(Uses(tasks[k], plan)) <= Asked(t, plan)
          BY <3>1 DEF Counts, PaidOn
        <5> QED
          BY <5>1, <5>2 DEF One
      <4>4. Uses(tasks[k], plan)' /\ Live(x) =>
               Bears(tasks[k], plan) /\ n # "execute"
        <5> SUFFICES ASSUME Uses(tasks[k], plan)', Live(x)
                     PROVE  Bears(tasks[k], plan) /\ n # "execute"
          OBVIOUS
        <5>1. x.node \notin SendNodes
          <6> SUFFICES ASSUME x.node \in SendNodes PROVE FALSE
            OBVIOUS
          <6>1. Waits(t, plan)'
            BY <1>1, <2>3 DEF Uses, Live
          <6> QED
            BY <1>1, <2>3, <6>1 DEF Waits, SendNodes
        <5>2. Bears(x, plan)
          BY <1>1, <5>1 DEF Uses, Live, Bears
        <5>3. x.node = "execute" /\ ~AllAuto(x.st) /\ x.st.proposals = plan
          BY <1>1, <1>2, <2>3, <5>2 DEF Bears, Interrupts
        <5>4. n = "await_proposal_approval" /\ s.proposals = plan
          BY <1>1, <1>2, <5>3
        <5> QED
          BY <5>4 DEF Bears, n, s
      <4>5. /\ Cardinality(Executors(t, plan)') <= Cardinality(Executors(t, plan)) + One(Bears(tasks[k], plan))
            /\ Cardinality(Executors(t, plan)') \in Nat
            /\ n # "execute" => Executors(t, plan)' = Executors(t, plan)
        <5>1. CASE Executors(t, plan)' = Executors(t, plan)
          BY <4>1, <5>1 DEF One
        <5>2. CASE /\ n = "execute" /\ Bears(tasks[k], plan)
                   /\ Executors(t, plan)' = Executors(t, plan) \cup {k}
          <6>1. CASE k \in Executors(t, plan)
            <7>1. Executors(t, plan)' = Executors(t, plan)
              BY <5>2, <6>1
            <7> QED
              BY <5>1, <7>1
          <6>2. CASE k \notin Executors(t, plan)
            <7>1. Cardinality(Executors(t, plan) \cup {k}) = Cardinality(Executors(t, plan)) + 1
              BY <4>1, <6>2, CountOneMore
            <7> QED
              BY <4>1, <5>2, <7>1 DEF One
          <6> QED
            BY <6>1, <6>2
        <5> QED
          BY <1>5, <5>1, <5>2
      <4>6. Owed(t, plan)' = Cardinality(Executors(t, plan)') + Cardinality(Stragglers(t, plan)')
        BY DEF Owed
      <4>7. Live(x) => Owed(t, plan)' + One(Uses(tasks[k], plan)') <= Asked(t, plan)'
        <5> SUFFICES ASSUME Live(x)
                     PROVE  Owed(t, plan)' + One(Uses(tasks[k], plan)') <= Asked(t, plan)'
          OBVIOUS
        <5>1. CASE Uses(tasks[k], plan)'
          <6>1. Executors(t, plan)' = Executors(t, plan) /\ Bears(tasks[k], plan)
            BY <4>4, <4>5, <5>1
          <6> QED
            BY <4>1, <4>2, <4>3, <4>6, <5>1, <6>1 DEF Owed, One
        <5>2. CASE ~Uses(tasks[k], plan)'
          BY <4>1, <4>2, <4>3, <4>5, <4>6, <5>2 DEF Owed, One
        <5> QED
          BY <5>1, <5>2
      <4>8. Cardinality(Executors(t, plan)') <= Asked(t, plan)'
        BY <1>5, <4>2
      <4> QED
        BY <3>3, <4>7, <4>8
    <3> QED
      BY <3>2, <3>4 DEF PaidOn, CardsOn
  <2> QED
    BY <2>1, <2>2, <2>3
<1>8. ASSUME Fresh(x) PROVE Fresh(tasks[k]) /\ tasks[k].node # "execute"
  <2>1. x.node = "execute" /\ ~AllAuto(x.st)
    BY <1>1, <1>8 DEF Fresh, Summoned
  <2>2. n = "await_proposal_approval"
    BY <1>1, <1>2, <2>1
  <2>3. tasks[k].answer /\ tasks[k].phase = "running"
    BY <1>1, <2>2 DEF Live, SendNodes, Interrupts, n
  <2> QED
    BY <2>2, <2>3 DEF Fresh, n
<1> QED
  BY <1>1, <1>5, <1>7, <1>8, MoveKeepsCounts

\* A node that raises drops the token; what it carried out before was paid for.
LEMMA NodeRaisesKeepsCounts ==
    ASSUME Coroutines, Waiting, OneToken, Places, Consent, Counts, NEW k \in Tasks, NodeRaises(k)
    PROVE  Counts'
<1> DEFINE x == At(tasks[k].thread, "done")
<1>1. /\ tasks' = [tasks EXCEPT ![k] = x] /\ x.phase = "done" /\ x.thread = tasks[k].thread
      /\ tasks[k] \in Task /\ tasks[k].phase = "running"
      /\ UNCHANGED <<saved, sent, clicks>>
  BY DEF NodeRaises, Finish, At, Coroutines
<1> HIDE DEF x
<1>2. ~Holding(k, x) /\ ~Fresh(x)
  BY <1>1 DEF Holding, Live, Summoned, Fresh
<1>3. tasks'[k] = x /\ \A j \in Tasks : j # k => tasks'[j] = tasks[j]
  BY <1>1 DEF Coroutines
<1>4. PICK u \in Threads : u = tasks[k].thread
  BY <1>1 DEF Task
<1>5. Live(tasks[k])
  BY <1>1 DEF NodeRaises, Raises, Live, Interrupts, END
<1>6. /\ Single'
      /\ \A e \in BagToSet(effects') : e \in BagToSet(effects) \/ e \in CarriedOut(k)
      /\ \A t \in ChatThreads, plan \in Plans :
            /\ Executors(t, plan)' = Executors(t, plan) \/ Holds(k, t)
            /\ Cardinality(Executors(t, plan)') <= Asked(t, plan)
  <2>1. PICK K \in SUBSET {j \in Tasks : Driven(j)} : K = {k}
    BY <1>1 DEF Driven
  <2>2. effects' = effects (+) SetToBag(UNION {CarriedOut(j) : j \in K})
    <3>1. UNION {CarriedOut(j) : j \in K} = CarriedOut(k)
      BY <2>1
    <3> QED
      BY <3>1 DEF NodeRaises
  <2>3. /\ Single'
        /\ \A e \in BagToSet(effects') : e \in BagToSet(effects) \/ \E j \in K : e \in CarriedOut(j)
        /\ \A t \in ChatThreads, plan \in Plans :
              /\ \/ Executors(t, plan)' = Executors(t, plan)
                 \/ \E j \in K : /\ Holds(j, t) /\ Live(tasks[j]) /\ tasks[j].node = "execute"
                                 /\ Bears(tasks[j], plan)
                                 /\ Executors(t, plan)' = Executors(t, plan) \cup {j}
              /\ Cardinality(Executors(t, plan)') <= Asked(t, plan)
    BY <2>2, ExecutionsArePaid
  <2> QED
    BY <2>1, <2>3
<1>7. \A t, plan : Asked(t, plan)' = Asked(t, plan)
  BY <1>1 DEF Asked, Clicked
<1>8. ASSUME NEW t \in ChatThreads PROVE PaidOn(t)'
  <2>1. CASE t # u
    <3>1. \A plan \in Plans : Executors(t, plan)' = Executors(t, plan)
      BY <1>4, <1>6, <2>1 DEF Holds
    <3> QED
      BY <1>1, <1>4, <2>1, <3>1, PaidElsewhere
  <2>2. CASE t = u
    <3>1. Holds(k, t)
      BY <1>4, <1>5, <2>2 DEF Holds, Holding
    <3>2. \A c \in CardsOn(t) : ~Open(c)'
      <4>1. \A c : Open(c)' <=> Open(c)
        BY <1>1 DEF Open, Clicked
      <4> QED
        BY <3>1, <4>1 DEF OneToken
    <3>3. \A j \in Tasks : ~Holds(j, t)'
      <4> SUFFICES ASSUME NEW j \in Tasks, Holds(j, t)' PROVE FALSE
        OBVIOUS
      <4>1. Holding(j, tasks'[j]) /\ tasks'[j].thread = t
        BY DEF Holds, Holding, Live, Summoned
      <4>2. j # k /\ Holds(j, t)
        BY <1>2, <1>3, <4>1 DEF Holds
      <4> QED
        BY <3>1, <4>2 DEF OneToken
    <3>4. \A plan \in Plans : Cardinality(Executors(t, plan)') <= Asked(t, plan)'
      BY <1>6, <1>7
    <3> QED
      BY <3>2, <3>3, <3>4 DEF PaidOn, CardsOn
  <2> QED
    BY <2>1, <2>2
<1> QED
  BY <1>1, <1>2, <1>6, <1>8, MoveKeepsCounts

LEMMA WorkKeepsCounts ==
    ASSUME Coroutines, Waiting, Rest, OneToken, Places, Consent, Counts, NEW k \in Tasks, Work(k)
    PROVE  Counts'
<1> DEFINE t == tasks[k].thread
<1>1. CASE Resume(k)
  <2>1. PICK how \in {"memory", "persisted"} :
           Moves(k, [tasks[k] EXCEPT !.phase = IF how = "memory" THEN "loading" ELSE "peeking",
                                     !.how = how])
    BY <1>1, ResumeMoves
  <2> DEFINE x == [tasks[k] EXCEPT !.phase = IF how = "memory" THEN "loading" ELSE "peeking",
                                   !.how = how]
  <2>2. tasks[k].phase = "called" /\ tasks[k] \in Task /\ UNCHANGED <<saved, sent, clicks, effects>>
    BY <1>1 DEF Resume, history, Coroutines
  <2>3. /\ x.thread = t /\ x.phase \in {"loading", "peeking"}
        /\ tasks' = [tasks EXCEPT ![k] = x]
    BY <2>1, <2>2 DEF Moves, Task
  <2> HIDE DEF x
  <2>4. /\ Holding(k, tasks[k]) /\ Fresh(tasks[k])
        /\ \A plan : Uses(x, plan) => Uses(tasks[k], plan)
    BY <2>2, <2>3 DEF Holding, Summoned, Fresh, Uses, Live
  <2> QED
    BY <2>2, <2>3, <2>4, QuietMoveKeepsCounts
<1>2. CASE Peek(k) /\ ~Lose(k)
  <2>1. tasks[k].phase = "peeking" /\ tasks[k] \in Task /\ UNCHANGED <<saved, sent, clicks, effects>>
    BY <1>2 DEF Peek, history, Coroutines
  <2>2. CASE Finish(k)
    BY <2>1, <2>2, FinishKeepsCounts
  <2>3. CASE tasks' = [tasks EXCEPT ![k].phase = "loading"]
    <3> DEFINE x == [tasks[k] EXCEPT !.phase = "loading"]
    <3>1. tasks' = [tasks EXCEPT ![k] = x] /\ x.phase = "loading" /\ x.thread = t
      BY <2>1, <2>3 DEF Task
    <3> HIDE DEF x
    <3>2. /\ Holding(k, tasks[k]) /\ Fresh(tasks[k])
          /\ \A plan : Uses(x, plan) => Uses(tasks[k], plan)
      BY <2>1, <3>1 DEF Holding, Summoned, Fresh, Uses, Live
    <3> QED
      BY <2>1, <3>1, <3>2, QuietMoveKeepsCounts
  <2> QED
    BY <1>2, <2>2, <2>3 DEF Peek
<1>3. CASE Load(k) /\ ~Lose(k)
  <2> DEFINE c == saved[t]
             x == AtNode(tasks[k], c, TRUE)
  <2>1. /\ k \in 1..MaxClicks /\ tasks[k].phase = "loading"
        /\ tasks[k] \in Task /\ c \in Checkpoint /\ tasks' = [tasks EXCEPT ![k] = x]
        /\ UNCHANGED <<saved, sent, clicks, effects>>
    BY <1>3, LoadMoves DEF Moves, Load, history
  <2>2. /\ x.thread = t /\ x.phase = "running" /\ x.node = c.node /\ x.st = c.st /\ x.answer
    BY <2>1, AtNodeIsTask
  <2>3. t \in ChatThreads
    BY <2>1 DEF Waiting, ClicksDriveTheChat, ChatThreads, Task
  <2>4. Summoned(tasks[k]) /\ Holds(k, t) /\ ~Live(tasks[k])
    BY <2>1 DEF Holds, Holding, Summoned, Live
  <2> HIDE DEF x
  <2>5. c.node \in Asking
    BY <2>3, <2>4 DEF Places, PlacedOn, Placed
  <2>6. \A plan : Uses(x, plan) => Waits(t, plan)
    BY <2>2, <2>5 DEF Uses, Bears, Waits, Asking, SendNodes, Interrupts
  <2>7. /\ Holding(k, tasks[k]) /\ Fresh(tasks[k])
        /\ \A plan : Uses(x, plan) => Uses(tasks[k], plan)
    BY <2>4, <2>6 DEF Holding, Fresh, Uses
  <2> QED
    BY <2>1, <2>2, <2>7, QuietMoveKeepsCounts
<1>4. CASE ReturnPaused(k) \/ ReturnEnded(k)
  BY <1>4, FinishKeepsCounts DEF ReturnPaused, ReturnEnded, history
<1>9. CASE (Peek(k) \/ Load(k)) /\ Lose(k)
  BY <1>9, FinishKeepsCounts DEF Peek, Load, history
<1> QED
  BY <1>1, <1>2, <1>3, <1>4, <1>9, PostCardKeepsCounts, RunNodeKeepsCounts, NodeRaisesKeepsCounts DEF Work

\* A restart leaves nobody on the way; what was being carried out was paid for.
LEMMA RestartKeepsCounts ==
    ASSUME Coroutines, Waiting, OneToken, Places, Consent, Counts, Restart
    PROVE  Counts'
<1>1. \A k \in Tasks :
         \/ tasks'[k] = tasks[k] /\ tasks[k].phase \in {"idle", "done", "lost", "killed"}
         \/ tasks[k].phase # "idle" /\ tasks'[k] = At(tasks[k].thread, "killed")
  BY RestartKills
<1>2. \A k \in Tasks : \/ tasks'[k].phase = "killed"
                       \/ tasks'[k].phase \in {"idle", "done", "lost", "killed"} /\ tasks'[k] = tasks[k]
  <2>1. \A t : At(t, "killed").phase = "killed"
    BY DEF At
  <2> QED
    BY <1>1, <2>1
<1>3. sent' = sent /\ clicks' = clicks
  BY DEF Restart
<1>4. \A t \in ChatThreads : saved'[t] = saved[t]
  BY DEF Restart, ChatThreads
<1>5. \A c : Open(c)' <=> Open(c)
  BY <1>3 DEF Open, Clicked
<1>6. PICK K \in SUBSET {k \in Tasks : Driven(k)} :
         effects' = effects (+) SetToBag(UNION {CarriedOut(k) : k \in K})
  BY DEF Restart
<1>7. /\ Single'
      /\ \A t \in ChatThreads, plan \in Plans :
            /\ \/ Executors(t, plan)' = Executors(t, plan)
               \/ \E k \in K : /\ Holds(k, t) /\ Live(tasks[k]) /\ tasks[k].node = "execute"
                               /\ Bears(tasks[k], plan)
                               /\ Executors(t, plan)' = Executors(t, plan) \cup {k}
            /\ Cardinality(Executors(t, plan)') <= Asked(t, plan)
  BY <1>6, ExecutionsArePaid
<1>8. \A t, plan : Stragglers(t, plan)' = {} /\ Asked(t, plan)' = Asked(t, plan)
  BY <1>2, <1>3 DEF Stragglers, Straggles, Tasks, Asked, Clicked
<1>9. ASSUME NEW t \in ChatThreads, NEW plan \in Plans
      PROVE  /\ \A j \in Tasks : Holds(j, t)' =>
                   Owed(t, plan)' + One(Uses(tasks[j], plan)') <= Asked(t, plan)'
             /\ \A c \in CardsOn(t) : Open(c)' =>
                   Owed(t, plan)' + One(Waits(t, plan)') <= Asked(t, plan)' + One(c = PlanCard(t, plan))
             /\ Cardinality(Executors(t, plan))' <= Asked(t, plan)'
  <2>1. Stragglers(t, plan)' \subseteq Stragglers(t, plan) /\ Asked(t, plan)' = Asked(t, plan)
    BY <1>8
  <2>2. Owed(t, plan) \in Nat /\ Asked(t, plan) \in Nat
    BY CountsAreNumbers
  <2>3. Waits(t, plan)' <=> Waits(t, plan)
    BY <1>4 DEF Waits
  <2>4. ASSUME Executors(t, plan)' = Executors(t, plan)
        PROVE  Owed(t, plan)' \in Nat /\ Owed(t, plan)' <= Owed(t, plan)
    BY <1>3, <2>1, <2>4, FewerAreOwed
  <2>5. ASSUME NEW j \in Tasks, Holds(j, t)'
        PROVE  Owed(t, plan)' + One(Uses(tasks[j], plan)') <= Asked(t, plan)'
    <3>1. tasks'[j] = tasks[j] /\ Holds(j, t) /\ ~Live(tasks[j])
      BY <1>2, <2>5 DEF Holds, Holding, Live, Summoned
    <3>2. Executors(t, plan)' = Executors(t, plan)
      BY <1>7, <3>1 DEF OneToken
    <3>3. Uses(tasks[j], plan)' <=> Uses(tasks[j], plan)
      BY <2>3, <3>1 DEF Uses, Live, Holds
    <3>4. Owed(t, plan) + One(Uses(tasks[j], plan)) <= Asked(t, plan)
      BY <3>1 DEF Counts, PaidOn
    <3> QED
      BY <2>1, <2>2, <2>4, <3>2, <3>3, <3>4 DEF One
  <2>6. ASSUME NEW c \in CardsOn(t), Open(c)'
        PROVE  Owed(t, plan)' + One(Waits(t, plan)') <= Asked(t, plan)' + One(c = PlanCard(t, plan))
    <3>1. Open(c)
      BY <1>5, <2>6
    <3>2. Executors(t, plan)' = Executors(t, plan)
      BY <1>7, <3>1 DEF OneToken
    <3>3. Owed(t, plan) + One(Waits(t, plan)) <= Asked(t, plan) + One(c = PlanCard(t, plan))
      BY <3>1 DEF Counts, PaidOn
    <3> QED
      BY <2>1, <2>2, <2>3, <2>4, <3>2, <3>3 DEF One
  <2>7. Cardinality(Executors(t, plan)') <= Asked(t, plan)'
    BY <1>7, <2>1
  <2> QED
    BY <2>5, <2>6, <2>7 DEF CardsOn
<1>10. \A k \in 1..MaxClicks : ~Fresh(tasks[k])'
  BY <1>2 DEF Fresh, Summoned, Tasks
<1> QED
  BY <1>7, <1>9, <1>10 DEF Counts, PaidOn, CardsOn

LEMMA StepKeepsCounts ==
    Coroutines /\ Waiting /\ Rest /\ ClickOnce /\ OneToken /\ Places /\ Consent /\ Counts /\ [Next]_vars
       => Counts'
<1> SUFFICES ASSUME Coroutines, Waiting, Rest, ClickOnce, OneToken, Places, Consent, Counts, [Next]_vars
             PROVE  Counts'
  OBVIOUS
<1>1. ASSUME NEW t \in Threads, _trigger_workflow(t) \/ receive_alert(t) PROVE Counts'
  <2> DEFINE x == At(t, "running")
  <2>1. Begin(t) /\ t \in Tasks
    BY <1>1 DEF _trigger_workflow, receive_alert, Tasks
  <2>2. /\ tasks' = [tasks EXCEPT ![t] = x] /\ tasks[t] = At(t, "idle")
        /\ UNCHANGED <<saved, sent, clicks, effects>>
    BY <2>1, BeginMoves DEF Begin, Moves, history
  <2>3. /\ x.thread = t /\ x.phase = "running" /\ x.node = "ingest" /\ ~x.answer
        /\ tasks[t].thread = t /\ tasks[t].phase = "idle"
    BY <2>2 DEF At
  <2> HIDE DEF x
  <2>4. /\ Holding(t, tasks[t]) /\ ~Fresh(x)
        /\ \A plan : ~Uses(x, plan)
    BY <2>3 DEF Holding, Fresh, Summoned, Uses, Live, Bears, SendNodes, Interrupts, END
  <2> QED
    BY <2>1, <2>2, <2>3, <2>4, QuietMoveKeepsCounts
<1>2. ASSUME NEW t \in Threads, TimeOut(t) PROVE Counts'
  BY <1>2, FinishKeepsCounts DEF TimeOut, Tasks, history
<1>3. CASE UNCHANGED <<saved, tasks, sent, clicks, effects>>
  <2>1. \A c : Open(c)' <=> Open(c)
    BY <1>3 DEF Open, Clicked
  <2>2. \A t, plan : /\ Executors(t, plan)' = Executors(t, plan)
                     /\ Owed(t, plan)' = Owed(t, plan)
                     /\ Asked(t, plan)' = Asked(t, plan)
                     /\ Waits(t, plan)' <=> Waits(t, plan)
    BY <1>3 DEF Executors, Owed, Stragglers, Straggles, Asked, Clicked, Waits
  <2>3. \A t, plan : \A k \in Tasks : /\ Uses(tasks[k], plan)' <=> Uses(tasks[k], plan)
                                      /\ Holds(k, t)' <=> Holds(k, t)
    BY <1>3 DEF Uses, Live, Bears, Waits, Holds, Holding, Summoned
  <2>4. \A t \in ChatThreads : PaidOn(t)'
    BY <2>1, <2>2, <2>3 DEF Counts, PaidOn, One, CardsOn
  <2>5. Single' /\ \A k \in 1..MaxClicks : Fresh(tasks[k])' => Untouched(k)'
    BY <1>3 DEF Counts, Single, Fresh, Summoned, Untouched
  <2> QED
    BY <2>4, <2>5 DEF Counts
<1>4. ASSUME NEW t \in Threads, GrowOld(t) PROVE Counts'
  BY <1>3, <1>4 DEF GrowOld, history
<1>5. CASE CleanupStarts \/ CleanupGoesOn
  BY <1>3, <1>5 DEF CleanupStarts, CleanupGoesOn, history
<1>6. CASE UNCHANGED vars
  BY <1>3, <1>6 DEF vars
<1> QED
  BY <1>1, <1>2, <1>4, <1>5, <1>6, ClickKeepsCounts, RestartKeepsCounts, WorkKeepsCounts DEF Next

\* In a chat whose cards are clicked once the layers hold together.
LEMMA CarefulInvariant ==
    ASSUME ClickOnce
    PROVE  Spec => [](Coroutines /\ Waiting /\ Rest /\ OneToken /\ Places /\ Consent /\ Counts)
<1>1. Init => Coroutines /\ Waiting /\ Rest /\ OneToken /\ Places /\ Consent /\ Counts
  BY InitCoroutines, InitWaiting, InitRest, InitOneToken, InitPlaces, InitConsent, InitCounts
<1>2. (Coroutines /\ Waiting /\ Rest /\ OneToken /\ Places /\ Consent /\ Counts) /\ [Next]_vars
         => (Coroutines /\ Waiting /\ Rest /\ OneToken /\ Places /\ Consent /\ Counts)'
  BY StepKeepsCoroutines, StepKeepsWaiting, StepKeepsRest, StepKeepsOneToken, StepKeepsPlaces,
     StepKeepsConsent, StepKeepsCounts
<1> QED
  BY <1>1, <1>2, PTL DEF Spec

\* What execute_node of the chat's coroutines carries out is a plan whose own
\* card was approved, or one that policy_check released: a checkpoint that a
\* late node set back to the question of a plan lets nothing else through.
THEOREM OnlyApprovedPlans ==
    ASSUME ClickOnce
    PROVE  Spec => []OnlyApprovedPlansRun
<1>1. Consent => OnlyApprovedPlansRun
  <2> SUFFICES ASSUME Consent, NEW e \in BagToSet(effects), ~e.released
               PROVE  PlanApprovals(e) # {}
    BY DEF OnlyApprovedPlansRun
  <2>1. PICK i \in DOMAIN clicks :
           clicks[i] = [card |-> PlanCard(e.thread, e.plan), action |-> "approve"]
    BY DEF Consent, Warranted, Approved
  <2>2. i \in PlanApprovals(e)
    BY <2>1 DEF PlanApprovals, Approvals, PlanCard
  <2> QED
    BY <2>2
<1> QED
  BY <1>1, CarefulInvariant, PTL

\* The coroutine of a rejection carries nothing out: whatever checkpoint it
\* loads, one that a late node has set back included, it comes to an interrupt
\* that uses the rejection up, and from there to escalate.
THEOREM RejectionsCarryOutNothing ==
    ASSUME ClickOnce
    PROVE  Spec => []RejectionCarriesOutNothing
<1>1. Consent => RejectionCarriesOutNothing
  BY DEF Consent, Warranted, RejectionCarriesOutNothing
<1> QED
  BY <1>1, CarefulInvariant, PTL

\* The unreleased effects of one plan have an executor each.
LEMMA EffectsAreCounted ==
    ASSUME Coroutines, Rest, Consent, NEW t, NEW plan,
           NEW same, same = {x \in BagToSet(effects) : ~x.released /\ x.thread = t /\ x.plan = plan}
    PROVE  IsFiniteSet(same) /\ Cardinality(same) <= Cardinality(Executors(t, plan))
<1>1. \A x \in same : x \in Effects /\ Warranted(x)
  BY DEF Rest, Consent
<1>2. \A x \in same : x = Receipt(x.task, t, plan)
  BY <1>1 DEF Receipt, Effects
<1>3. \A x \in same : x.task \in 1..MaxClicks
  BY <1>1, WorkflowRunsAssumption DEF Warranted, Coroutines
<1>4. \A x \in same : x.task \in Executors(t, plan)
  BY <1>2, <1>3 DEF Executors
<1> DEFINE f == [x \in same |-> x.task]
<1>5. f \in Injection(same, Executors(t, plan))
  <2>1. f \in [same -> Executors(t, plan)]
    BY <1>4
  <2>2. \A x, y \in same : f[x] = f[y] => x = y
    BY <1>2
  <2> QED
    BY <2>1, <2>2 DEF Injection, IsInjective
<1>6. IsFiniteSet(Executors(t, plan))
  BY CountsAreNumbers
<1> QED
  BY <1>5, <1>6, FS_Injection

\* Each answer to the card of a plan pays for at most one execution of it,
\* even when a node that was late has put the same plan to the question again,
\* and no coroutine carries out twice what needs an answer.
THEOREM OncePerAnswerHolds ==
    ASSUME ClickOnce
    PROVE  Spec => []OncePerAnswer
<1>1. Coroutines /\ Rest /\ Consent /\ Counts => OncePerAnswer
  <2> SUFFICES ASSUME Coroutines, Rest, Consent, Counts PROVE OncePerAnswer
    OBVIOUS
  <2> SUFFICES ASSUME NEW e \in BagToSet(effects), ~e.released,
                      NEW same, same = {x \in BagToSet(effects) :
                                          ~x.released /\ x.thread = e.thread /\ x.plan = e.plan}
               PROVE  effects[e] = 1 /\ Cardinality(same) <= Asked(e.thread, e.plan)
    BY DEF OncePerAnswer, Asked, PlanCard
  <2>1. effects[e] = 1
    BY DEF Counts, Single
  <2>2. e.thread \in ChatThreads /\ e.plan \in Plans
    BY DEF Consent, Warranted, Rest, Effects
  <2>3. Cardinality(Executors(e.thread, e.plan)) <= Asked(e.thread, e.plan)
    BY <2>2 DEF Counts, PaidOn
  <2>4. IsFiniteSet(same) /\ Cardinality(same) <= Cardinality(Executors(e.thread, e.plan))
    BY EffectsAreCounted
  <2>5. /\ Cardinality(same) \in Nat /\ Asked(e.thread, e.plan) \in Nat
        /\ Cardinality(Executors(e.thread, e.plan)) \in Nat
    BY <2>4, CountsAreNumbers, FS_CardinalityType
  <2> QED
    BY <2>1, <2>3, <2>4, <2>5
<1> QED
  BY <1>1, CarefulInvariant, PTL

=============================================================================
