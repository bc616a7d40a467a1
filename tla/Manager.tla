------------------------------- MODULE Manager -------------------------------
(***************************************************************************)
(* WorkflowRunManager (app/lark/workflow_manager.py): the table of the     *)
(* runs that wait for a human, and its two indexes. The methods are pure   *)
(* operators on the manager's state m; WorkflowRuns calls them from the    *)
(* coroutines that do.                                                     *)
(*                                                                         *)
(* A dict is a function on the keys it holds. Of a PendingRun only what is *)
(* read again is kept: who it belongs to, and whether it is older than     *)
(* PENDING_TIMEOUT_SECONDS.                                                *)
(***************************************************************************)
EXTENDS Functions

CONSTANTS
    Threads,      \* the LangGraph threads, one per alert
    ChatOf        \* the chat an alert came from

\* ingest_node replaces the incident id drawn before the graph starts by the
\* one of the database row, and the cards carry the latter.
DbId(t)    == <<t, "row">>
DrawnId(t) == <<t, "drawn">>
Ids        == Threads \X {"row", "drawn"}

PendingRun == [incident_id : Ids, old : BOOLEAN]

Empty == [x \in {} |-> x]

NoRuns == [pending |-> Empty, incident_to_thread |-> Empty, chat_to_thread |-> Empty]

\* d[x] = v, and the removal of a key.
Put(d, x, v) == [y \in DOMAIN d \cup {x} |-> IF y = x THEN v ELSE d[y]]

Without(d, x) == Restrict(d, DOMAIN d \ {x})

IsPending(m, t) == t \in DOMAIN m.pending

\* Defect the runs must notice: the thread passed where the incident belongs.
register_pending_swapped(m, t, incident_id) ==
    [pending            |-> Put(m.pending, t, [incident_id |-> t, old |-> FALSE]),
     incident_to_thread |-> Put(m.incident_to_thread, incident_id, t),
     chat_to_thread     |-> Put(m.chat_to_thread, ChatOf[t], t)]

register_pending(m, t, incident_id) ==
    [pending            |-> Put(m.pending, t, [incident_id |-> incident_id, old |-> FALSE]),
     incident_to_thread |-> Put(m.incident_to_thread, incident_id, t),
     chat_to_thread     |-> Put(m.chat_to_thread, ChatOf[t], t)]

\* Defects the runs must notice: a run that stays registered while it resumes,
\* and an index that is not cleared.
remove_nothing(m, t) == m

remove_run(m, t) == [m EXCEPT !.pending = Without(m.pending, t)]

\* The chat's index goes even when it already names a newer run.
remove(m, t) ==
    IF ~IsPending(m, t) THEN m
    ELSE [pending            |-> Without(m.pending, t),
          incident_to_thread |-> Without(m.incident_to_thread, m.pending[t].incident_id),
          chat_to_thread     |-> Without(m.chat_to_thread, ChatOf[t])]

\* The threads a lookup finds: one, or none.
get_by_incident(m, incident_id) ==
    {t \in DOMAIN m.pending :
        incident_id \in DOMAIN m.incident_to_thread /\ m.incident_to_thread[incident_id] = t}

\* The hour of a pending run passes.
Age(m, t) == [m EXCEPT !.pending[t].old = TRUE]

Expired(m) == {t \in DOMAIN m.pending : m.pending[t].old}

=============================================================================
