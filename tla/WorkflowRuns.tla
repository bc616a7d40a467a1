---------------------------- MODULE WorkflowRuns ----------------------------
(***************************************************************************)
(* The runs of one process: the coroutines that drive the incident graph   *)
(* of several threads, the checkpoints they read and write, the manager of *)
(* the runs that wait, the cards in the chat and the clicks on them, the   *)
(* hourly cleanup and the restart of the process.                          *)
(*                                                                         *)
(* A coroutine runs alone from one await to the next, and that is an       *)
(* action here. LangGraph (external) runs one node per superstep on the    *)
(* state it loaded and then writes the checkpoint; the last write counts.  *)
(* A resume value answers an interrupt of the first superstep only.        *)
(***************************************************************************)
EXTENDS Graph, Manager, Bags

CONSTANTS
    Registered,   \* the names in the plugin registry
    ApiThreads,   \* the threads started by POST /api/alert
    MaxClicks,    \* bound: clicks on cards
    MaxRestarts,  \* bound: restarts of the process
    Answers,      \* bound: the buttons that are clicked
    ClickOnce     \* every delivered card is clicked at most once

ASSUME WorkflowRunsAssumption ==
    /\ Registered \subseteq Names
    /\ ApiThreads \subseteq Threads /\ Threads # {}
    /\ Threads \cap 1..MaxClicks = {}
    /\ MaxClicks \in Nat /\ MaxRestarts \in Nat
    /\ Answers \subseteq {"approve", "reject"}
    /\ ClickOnce \in BOOLEAN

VARIABLES
    saved,        \* the latest checkpoint of every thread
    tasks,        \* the coroutine of every alert and of every click
    manager,      \* workflow_manager
    overdue,      \* the expired runs a cleanup under way still has to remove
    sent,         \* how often a card was delivered
    clicks,       \* history: the clicks, in order
    effects,      \* history: which coroutine carried out which plan, a bag
    given_up,     \* history: the threads whose chat was told that they timed out
    restarts

vars == <<saved, tasks, manager, overdue, sent, clicks, effects, given_up, restarts>>

Cards == [thread : Threads, kind : {"diagnosis", "plan"}, plan : Plans]

\* The alert of a thread has the thread's own coroutine, click i has coroutine i.
Tasks == Threads \cup 1..MaxClicks

Hows   == {"trigger", "memory", "persisted"}
Phases == {"idle", "called", "peeking", "loading", "running", "posted", "done", "lost", "killed"}

\* A coroutine: the thread it works on, its place in the code, and inside
\* ainvoke the node it has reached, its copy of the state and whether the
\* resume value has not been used up yet.
Task == [thread : Threads, phase : Phases, how : Hows, node : Nodes \cup {END},
         st : GraphState, answer : BOOLEAN]

At(t, phase) ==
    [thread |-> t, phase |-> phase, how |-> "trigger", node |-> "ingest",
     st |-> build_initial_state, answer |-> FALSE]

Checkpoint == [node : Nodes \cup {END}, st : GraphState]

\* That a coroutine carried out a plan, and whether the policy had released it.
Effects == [task : Tasks, thread : Threads, plan : Plans, released : BOOLEAN]

\* What aget_state finds for a thread nobody saved anything for.
NoCheckpoint == [node |-> END, st |-> build_initial_state]

TypeOK ==
    /\ saved \in [Threads -> Checkpoint]
    /\ tasks \in [Tasks -> Task]
    /\ DOMAIN manager.pending \subseteq Threads
    /\ \A t \in DOMAIN manager.pending : manager.pending[t] \in PendingRun
    /\ overdue \subseteq Threads
    /\ sent \in [Cards -> Nat]
    /\ clicks \in UNION {[1..n -> [card : Cards, action : {"approve", "reject"}]] : n \in 0..MaxClicks}
    /\ IsABag(effects) /\ BagToSet(effects) \subseteq Effects
    /\ given_up \subseteq Threads
    /\ restarts \in 0..MaxRestarts

Init ==
    /\ saved = [t \in Threads |-> NoCheckpoint]
    /\ tasks = [k \in Tasks |-> At(IF k \in Threads THEN k ELSE CHOOSE t \in Threads : TRUE, "idle")]
    /\ manager = NoRuns
    /\ overdue = {}
    /\ sent = [c \in Cards |-> 0]
    /\ clicks = <<>>
    /\ effects = EmptyBag
    /\ given_up = {}
    /\ restarts = 0

history == <<clicks, effects, given_up>>

Active(k) == tasks[k].phase \notin {"idle", "done", "lost", "killed"}

Finish(k) == tasks' = [tasks EXCEPT ![k] = At(tasks[k].thread, "done")]

\* The thread's checkpoint cannot be read: its caller logs the exception, and the
\* answer it was to give is lost.
Lose(k) == tasks' = [tasks EXCEPT ![k] = At(tasks[k].thread, "lost")]

\* What the action of a click answers; an alert's own coroutine answers nothing.
ActionOf(k) == IF k \in Threads THEN "none" ELSE clicks[k].action

-----------------------------------------------------------------------------
(* The supersteps of LangGraph. *)

To(n, s) == [node |-> n, st |-> s]

\* The checkpoints node n may lead to from state s; action is the answer an
\* interrupt gets. The plugins' results and the LLM's answers are any.
Outcomes(n, s, action) ==
    CASE n = "ingest" ->
           {To(should_continue_after_ingest(x), x) : x \in {ingest_node(s, d) : d \in BOOLEAN}}
      [] n = "triage" -> {To("diagnose", s)}
      [] n = "diagnose" ->
           {To("send_diagnosis_card", diagnose_node(s, c)) : c \in {"low", "enough"}}
      [] n = "send_diagnosis_card" -> {To("await_diagnosis_approval", s)}
      [] n = "await_diagnosis_approval" ->
           LET x == await_diagnosis_approval_node(s, action)
           IN  {To(should_continue_after_diagnosis_approval(x), x)}
      [] n = "propose" ->
           {To(should_continue_after_propose(x), x) : x \in {propose_node(s, p) : p \in Plans}}
      [] n = "policy_evaluate" ->
           {To(should_continue_after_policy(x), x) :
              x \in {policy_evaluate_node(s, c, Registered) : c \in 0..Fences.max_auto_fixes_per_hour}}
      [] n = "send_proposal_card" -> {To("await_proposal_approval", s)}
      [] n = "await_proposal_approval" ->
           LET x == await_proposal_approval_node(s, action)
           IN  {To(should_continue_after_proposal_approval(x), x)}
      [] n = "execute" ->
           {To(should_continue_after_execute(x), x) :
              x \in {execute_node(s, r) : r \in [ToRun(s) -> Status]}}
      [] n = "verify" -> LET x == verify_node(s) IN {To(should_continue_after_verify(x), x)}
      [] n = "resolve" -> {To(END, resolve_node(s))}
      [] n = "escalate" -> {To(END, escalate_node(s))}

\* A coroutine inside ainvoke that goes on from checkpoint c.
AtNode(task, c, answer) ==
    [task EXCEPT !.phase = "running", !.node = c.node, !.st = c.st, !.answer = answer]

\* The card a node delivers to the chat, if it is one of the two that do.
CardsOf(t, n, s) ==
    IF n = "send_diagnosis_card" THEN {[thread |-> t, kind |-> "diagnosis", plan |-> <<>>]}
    ELSE IF n = "send_proposal_card" THEN {[thread |-> t, kind |-> "plan", plan |-> s.proposals]}
    ELSE {}

Raises(n, s) ==
    \/ n \in {"ingest", "diagnose", "policy_evaluate"}
    \/ n = "execute" /\ Unknown(s, Registered) # {}

\* The plans coroutine k carries out by executing what its state holds.
CarriedOut(k) ==
    IF tasks[k].node = "execute" /\ Ran(tasks[k].st, Registered) # {}
    THEN {[task |-> k, thread |-> tasks[k].thread, plan |-> tasks[k].st.proposals,
           released |-> AllAuto(tasks[k].st)]}
    ELSE {}

\* ainvoke has come to an interrupt it has no answer for.
Paused(k) == tasks[k].node \in Interrupts /\ ~tasks[k].answer

\* Inside ainvoke.
Driven(k) == tasks[k].phase \in {"running", "posted"}

\* The body of the two nodes that send a card: the chat has it before the
\* checkpoint says so. A card that cannot be sent is logged and forgotten.
PostCard(k) ==
    LET cards == CardsOf(tasks[k].thread, tasks[k].node, tasks[k].st)
    IN  /\ tasks[k].phase = "running"
        /\ cards # {}
        /\ tasks' = [tasks EXCEPT ![k].phase = "posted"]
        /\ \E posted \in {{}, cards} :
             sent' = [c \in Cards |-> IF c \in posted THEN sent[c] + 1 ELSE sent[c]]
        /\ UNCHANGED <<saved, manager, overdue, history, restarts>>

\* A node ends and its checkpoint is written.
RunNode(k) ==
    LET task == tasks[k]
    IN  /\ task.phase = IF CardsOf(task.thread, task.node, task.st) = {} THEN "running" ELSE "posted"
        /\ task.node # END
        /\ ~Paused(k)
        /\ ~(task.node = "execute" /\ Raises(task.node, task.st))
        /\ \E o \in Outcomes(task.node, task.st, ActionOf(k)) :
             /\ tasks' = [tasks EXCEPT ![k] = AtNode(@, o, FALSE)]
             /\ saved' = [saved EXCEPT ![task.thread] = o]
        /\ effects' = effects (+) SetToBag(CarriedOut(k))
        /\ UNCHANGED <<manager, overdue, sent, clicks, given_up, restarts>>

\* A node raises out of ainvoke. Every caller catches it and gives up: the
\* thread keeps the checkpoint before the node, and no run is registered.
NodeRaises(k) ==
    /\ tasks[k].phase = "running"
    /\ Raises(tasks[k].node, tasks[k].st)
    /\ effects' = effects (+) SetToBag(CarriedOut(k))
    /\ Finish(k)
    /\ UNCHANGED <<saved, manager, overdue, sent, clicks, given_up, restarts>>

-----------------------------------------------------------------------------
(* The coroutines. *)

Begin(t) ==
    /\ tasks[t].phase = "idle"
    /\ tasks' = [tasks EXCEPT ![t] = At(t, "running")]
    /\ UNCHANGED <<saved, manager, overdue, sent, history, restarts>>

\* An alert of the chat: a thread of its own, in the global checkpointer.
_trigger_workflow(t) == t \notin ApiThreads /\ Begin(t)

\* An alert of the API: a graph with a MemorySaver of its own.
receive_alert(t) == t \in ApiThreads /\ Begin(t)

\* lark_card_action: the kind of the card is read and then ignored; a task is
\* created for the answer. The buttons of a card stay.
Click(card, action) ==
    /\ Len(clicks) < MaxClicks
    /\ sent[card] > 0
    /\ ClickOnce => Cardinality({i \in DOMAIN clicks : clicks[i].card = card}) < sent[card]
    /\ clicks' = Append(clicks, [card |-> card, action |-> action])
    /\ tasks' = [tasks EXCEPT ![Len(clicks) + 1] = At(card.thread, "called")]
    /\ UNCHANGED <<saved, manager, overdue, sent, effects, given_up, restarts>>

\* resume_by_thread up to its first await: the run leaves the manager before it
\* is resumed, so that a second answer does not find it there.
resume_by_thread(k) ==
    /\ tasks' = [tasks EXCEPT ![k].phase = "loading", ![k].how = "memory"]
    /\ manager' = remove(manager, tasks[k].thread)

\* _resume_workflow up to its first await: a run the manager does not hold is
\* looked for in the database.
Resume(k) ==
    LET found == get_by_incident(manager, DbId(tasks[k].thread))
    IN  /\ tasks[k].phase = "called"
        /\ \/ /\ found # {}
              /\ resume_by_thread(k)
           \/ /\ found = {}
              /\ tasks' = [tasks EXCEPT ![k].phase = "peeking", ![k].how = "persisted"]
              /\ UNCHANGED manager
        /\ UNCHANGED <<saved, overdue, sent, history, restarts>>

\* Defect the runs must notice: runs the manager has lost are not looked for.
Peek_never(k) ==
    /\ tasks[k].phase = "peeking"
    /\ Finish(k)
    /\ UNCHANGED <<saved, manager, overdue, sent, history, restarts>>

\* aget_state of the global checkpointer: it does not know the threads of the
\* API, which have a MemorySaver of their own, and a thread that ended has no
\* next node. In both cases the click is dropped. Without the database it raises.
Peek(k) ==
    LET t == tasks[k].thread
    IN  /\ tasks[k].phase = "peeking"
        /\ \/ /\ t \in ApiThreads \/ saved[t].node = END
              /\ Finish(k)
           \/ /\ t \notin ApiThreads /\ saved[t].node # END
              /\ tasks' = [tasks EXCEPT ![k].phase = "loading"]
           \/ Lose(k)
        /\ UNCHANGED <<saved, manager, overdue, sent, history, restarts>>

\* ainvoke(Command(resume)) loads the latest checkpoint, or raises: a run that was
\* taken from the manager for this answer is not put back.
Load(k) ==
    LET t == tasks[k].thread
    IN  /\ tasks[k].phase = "loading"
        /\ \/ tasks' = [tasks EXCEPT ![k] = AtNode(@, saved[t], TRUE)]
           \/ Lose(k)
        /\ UNCHANGED <<saved, manager, overdue, sent, history, restarts>>

\* Defect the runs must notice: a paused run is registered as one of the API is.
TriggerPaused_drawn(k) ==
    /\ k \in Threads \ ApiThreads
    /\ manager' = register_pending(manager, k, DrawnId(k))

\* A paused run of the chat is registered under the incident that ingest found
\* or created, one of the API under the id that was drawn before ingest.
TriggerPaused(k) ==
    /\ k \in Threads \ ApiThreads
    /\ manager' = register_pending(manager, k, DbId(k))

ApiPaused(k) ==
    /\ k \in ApiThreads
    /\ manager' = register_pending(manager, k, DrawnId(k))

\* A run that pauses again is registered as it was before.
ResumePaused(k) ==
    /\ tasks[k].how = "memory"
    /\ manager' = register_pending(manager, tasks[k].thread, DbId(tasks[k].thread))

\* The path from the database does not look for __interrupt__ and takes the run
\* for a finished one (Incidents!Report).
PersistedPaused(k) ==
    /\ tasks[k].how = "persisted"
    /\ UNCHANGED manager

\* ainvoke returns paused.
ReturnPaused(k) ==
    /\ tasks[k].phase = "running"
    /\ Paused(k)
    /\ TriggerPaused(k) \/ ApiPaused(k) \/ ResumePaused(k) \/ PersistedPaused(k)
    /\ Finish(k)
    /\ UNCHANGED <<saved, overdue, sent, history, restarts>>

\* ainvoke returns at the end of the graph; what is saved then is in Incidents.
ReturnEnded(k) ==
    /\ tasks[k].phase = "running"
    /\ tasks[k].node = END
    /\ Finish(k)
    /\ UNCHANGED <<saved, manager, overdue, sent, history, restarts>>

\* receive_alert gives up on ainvoke after 300 seconds.
TimeOut(t) ==
    /\ t \in ApiThreads
    /\ Driven(t)
    /\ Finish(t)
    /\ UNCHANGED <<saved, manager, overdue, sent, history, restarts>>

-----------------------------------------------------------------------------
(* The clock, the cleanup and the process. *)

GrowOld(t) ==
    /\ IsPending(manager, t)
    /\ ~manager.pending[t].old
    /\ manager' = Age(manager, t)
    /\ UNCHANGED <<saved, tasks, overdue, sent, history, restarts>>

\* _cleanup_expired up to its first await: it lists the expired runs, removes
\* the first and sends a message.
CleanupStarts ==
    /\ overdue = {}
    /\ \E t \in Expired(manager) :
         /\ overdue' = Expired(manager) \ {t}
         /\ manager' = remove(manager, t)
         /\ given_up' = given_up \cup {t}
    /\ UNCHANGED <<saved, tasks, sent, clicks, effects, restarts>>

\* The message is sent: the next run of the list is removed, by its thread.
CleanupGoesOn ==
    /\ \E t \in overdue :
         /\ overdue' = overdue \ {t}
         /\ manager' = remove(manager, t)
         /\ given_up' = given_up \cup {t}
    /\ UNCHANGED <<saved, tasks, sent, clicks, effects, restarts>>

\* The process dies and comes up again: the coroutines, the manager and the
\* MemorySavers are gone, the database's checkpoints stay. A plan that was
\* being carried out may have been, without a checkpoint that says so.
Restart ==
    /\ restarts < MaxRestarts
    /\ restarts' = restarts + 1
    /\ \E K \in SUBSET {k \in Tasks : Driven(k) /\ CarriedOut(k) # {}} :
         effects' = effects (+) SetToBag(UNION {CarriedOut(k) : k \in K})
    /\ tasks' = [k \in Tasks |-> IF Active(k) THEN At(tasks[k].thread, "killed") ELSE tasks[k]]
    /\ saved' = [t \in Threads |-> IF t \in ApiThreads THEN NoCheckpoint ELSE saved[t]]
    /\ manager' = NoRuns
    /\ overdue' = {}
    /\ UNCHANGED <<sent, clicks, given_up>>

-----------------------------------------------------------------------------

Work(k) ==
    \/ Resume(k) \/ Peek(k) \/ Load(k)
    \/ PostCard(k) \/ RunNode(k) \/ NodeRaises(k) \/ ReturnPaused(k) \/ ReturnEnded(k)

Next ==
    \/ \E t \in Threads : _trigger_workflow(t) \/ receive_alert(t) \/ TimeOut(t) \/ GrowOld(t)
    \/ \E card \in Cards, action \in Answers : Click(card, action)
    \/ \E k \in Tasks : Work(k)
    \/ CleanupStarts \/ CleanupGoesOn
    \/ Restart

Spec == Init /\ [][Next]_vars

\* The event loop resumes every coroutine whose await is over; nobody has to
\* click, and the process may live for ever. Only the coroutines of the clicks are
\* assumed to go on: an alert's own may hang in a tool or in the LLM.
FairSpec == Spec /\ \A k \in 1..MaxClicks : WF_vars(Work(k))

-----------------------------------------------------------------------------
(* Properties. *)

\* The coroutines that will register the thread when it pauses.
Owners(t) ==
    {k \in Tasks : /\ tasks[k].thread = t
                   /\ tasks[k].how \in {"trigger", "memory"}
                   /\ tasks[k].phase \in {"loading", "running", "posted"}}

\* A thread is either registered as waiting or driven by one coroutine that
\* may register it, never both and never by two: resume_by_thread removes the
\* run before it awaits, so that however often a card is clicked the manager
\* starts one resumption for each registration.
OneOwner ==
    \A t \in Threads :
        /\ IsPending(manager, t) => Owners(t) = {}
        /\ Cardinality(Owners(t)) <= 1

\* The two dicts of the manager agree about every waiting run, across
\* resumptions, cleanups under way and restarts: a run that waits is found by
\* its incident, and no incident leads to a run that does not wait.
IncidentsLeadToRuns ==
    /\ \A t \in DOMAIN manager.pending :
          get_by_incident(manager, manager.pending[t].incident_id) = {t}
    /\ \A i \in DOMAIN manager.incident_to_thread :
          manager.incident_to_thread[i] \in DOMAIN manager.pending

Approvals(t) ==
    {i \in DOMAIN clicks : clicks[i].action = "approve" /\ clicks[i].card.thread = t}

\* However the clicks race each other, the cleanup and the restarts, nothing
\* is carried out on a thread before two clicks approved something on it: one
\* answer never passes both interrupts.
TwoApprovals == \A e \in BagToSet(effects) : Cardinality(Approvals(e.thread)) >= 2

PlanApprovals(e) ==
    {i \in Approvals(e.thread) : clicks[i].card.kind = "plan" /\ clicks[i].card.plan = e.plan}

\* What is carried out is a plan whose own card a human approved, or one that
\* the policy released.
OnlyApprovedPlansRun ==
    \A e \in BagToSet(effects) : e.released \/ PlanApprovals(e) # {}

Clicked(card) == {i \in DOMAIN clicks : clicks[i].card = card}

\* A plan the policy did not release is carried out at most once for every
\* answer its card got, and never twice by one coroutine. An answer may be used
\* up by sending the card again, so "for every approval" would be too much.
OncePerAnswer ==
    \A e \in {x \in BagToSet(effects) : ~x.released} :
        LET same == {x \in BagToSet(effects) :
                       ~x.released /\ x.thread = e.thread /\ x.plan = e.plan}
        IN  /\ effects[e] = 1
            /\ Cardinality(same) <=
                  Cardinality(Clicked([thread |-> e.thread, kind |-> "plan", plan |-> e.plan]))

\* The coroutine of a rejection carries nothing out.
RejectionCarriesOutNothing ==
    \A e \in BagToSet(effects) : e.task \notin Threads => clicks[e.task].action = "approve"

\* An answer to a run of the chat that waits is heard: the coroutine of the click
\* takes the thread past the interrupt, whether the manager knows the run, does not
\* know it yet or has lost it in a restart, unless its checkpoint cannot be read or
\* the process dies first. Nothing is claimed of a run the manager has given up:
\* its chat was told to start again.
AnswersAreHeard ==
    \A t \in Threads \ ApiThreads : \A k \in 1..MaxClicks :
        (/\ saved[t].node \in Interrupts
         /\ tasks[k].phase = "called" /\ tasks[k].thread = t
         /\ t \notin given_up \/ IsPending(manager, t))
            ~> (saved[t].node \notin Interrupts \/ tasks[k].phase \in {"lost", "killed"})

\* A run of the chat that waits is found by the incident its cards name, so that a
\* click on them resumes it, after any resumption it came back from.
ChatCardsFindTheirRuns ==
    \A t \in DOMAIN manager.pending \ ApiThreads : get_by_incident(manager, DbId(t)) = {t}

=============================================================================
