# ai-fixer in TLA+

ai-fixer watches a chat for alerts, lets a language model diagnose them, asks a
human twice (is the diagnosis right? may the plan run?) and then carries the
plan out on the cluster. This directory models the part of it that decides
*what may run, when, and on whose word*: the incident graph, the execution
policy, the manager of the runs that wait for a human, and the coroutines,
clicks, timeouts and restarts that drive them, the conversation in which the
model calls tools to reach its diagnosis, what the chat is told about an alert and
by which message, the store in which alerts of one kind become one incident, the
configuration and the plugins that decide what is allowed at all, and the knowledge
base that people edit together. TLC checks the models on small instances; TLAPS
proves all their safety properties for every instance, three of them on the condition
that people click each card once.

Paths below are relative to `src/`.

## 1. The system

| part | state it keeps | operations | neighbours |
|---|---|---|---|
| incident graph, `app/graph` | `GraphState`, one checkpoint per LangGraph thread | 13 nodes, 7 conditional edges, two `interrupt()`s | policy, registry, LLM, cards |
| execution policy, `app/engine/policy.py` | `_hourly_counts`: per incident, the times of recent automatic fixes; the fences it was built with | `evaluate` | called by node `policy_evaluate` |
| run manager, `app/lark/workflow_manager.py` | `_pending`, `_incident_to_thread`, `_chat_to_thread` | `register_pending`, `get_by_*`, `remove`, `resume_by_thread`, the cleanup task | webhook, WebSocket handler, alert API |
| webhook, `app/lark/webhook.py` | the asyncio tasks under way | message event, card action, `_resume_workflow`, `_trigger_workflow` | manager, checkpointer, chat |
| workflow runner, `app/lark/workflow_runner.py` | the global checkpointer (PostgreSQL, or memory when it cannot be reached) | `get_checkpointer`, `save_workflow_result`, `send_workflow_result` | webhook, handler |
| tool loop, `app/graph/nodes/diagnose.py`, `app/llm` | the conversation, the results of the tools, the evidence, a preliminary diagnosis | `run_diagnose_loop`: a first analysis, then turns of answer, `asyncio.gather` over the tools, their messages | LLM, registry, node `diagnose` |
| cards, `app/lark/card_sender.py`, `cards.py` | `_tenant_access_token`, fetched once per process | cards of the two questions, result cards, texts, reactions | Lark |
| alert API, `app/api/alert.py` | a `MemorySaver` per request | `receive_alert` with a limit of 300 s | graph, manager |
| WebSocket bot, `app/lark/handler.py`, `detector.py`, `commands.py` | none of its own | the webhook's trigger again, except that it saves and shows duplicates; `/` commands that nothing calls | graph, manager, cards |
| incident store, `graph/nodes/ingest.py`, `db` | rows Incident, IncidentEvent | `create_incident`: find an open one of the last 30 minutes, or insert | graph |
| dynamic configuration, `app/config/dynamic.py`, `api/config.py` | cache in memory, rows in the database, the Settings object | `load`, `get`, `update`, `apply_to_settings` | everything that reads settings; the policy, once |
| plugin registry, `app/plugins/registry.py`, `api/plugins.py` | plugins, the disabled set (memory and database) | register, get, enable, disable, reload, upload, delete | policy, execute, diagnose |
| knowledge base, `app/knowledge`, `api/knowledge.py` | entries, revisions, usage counters | create, update, rollback, delete, stale check | diagnose |
| knowledge search and incident memory, `app/knowledge/search.py`, `app/memory/store.py` | rows | store, search; inert as configured (section 5) | resolve, diagnose |
| event stream, `app/api/events.py` | a queue of 100 per subscriber | `broadcast_event` (nothing calls it), subscribe | browser |
| console APIs, `api/incidents.py`, `api/status.py`, `api/environment_context.py` | none of their own | what an incident's page and the status page show | incident store |
| the rest | – | Kubernetes client, built-in plugins, telemetry, `main.py`, migrations, frontend, charts | – |

How they interact. A message event or `POST /alert` starts a coroutine that
drives the graph with `ainvoke`. At an interrupt `ainvoke` returns; the
coroutine registers the run with the manager and ends. A click on a card is an
HTTP request: it creates a task for the answer, which takes the run from the
manager (or, if the manager does not know it, finds the thread's checkpoint in
the database) and drives the graph on. Everything is one event loop: a coroutine
runs alone between two awaits, and anything can happen at an await.

What is hard here:

* *interleavings of coroutines*: a double click, a click served before the run
  it answers is registered, a cleanup that awaits a message in the middle of its
  list, two coroutines driving one thread;
* *results that come together*: the tools of one answer run at once, end in any order
  and some with an exception, while the registry changes under the loop;
* *stale data*: a card of an earlier question, approvals of an earlier round,
  an incident id that has been replaced, fences captured by a singleton, a token
  whose expiry is not looked at;
* *crashes*: effects without a checkpoint, a manager that is empty after a start;
* *partial failure*: a node that raises in the middle, a message Lark does not take,
  a card that is spoiled by a quote, a tool that never returns;
* *a loop* from execute back to propose that nothing in the graph bounds.

`PROJECT.json` lists these hazards at their lines with the property that covers
each, or the reason why none does.

What makes each part correct:

| part | correct when |
|---|---|
| graph | nothing runs without consent; critical never runs; a rejection ends the plan; "resolved" after an approval means all of it ran; a run that never comes back to a human nor to its end is one the quota comes back for, hour after hour |
| policy | the quota is never exceeded within an hour, and it is all that bounds the autonomous loop |
| manager | its two dicts agree; a thread has one owner |
| webhook and runner | what runs is what was approved, once per answer; an answer to a waiting run is heard, also after a restart, unless its checkpoint cannot be read; only finished runs are reported (not so on the path through the database) |
| tool loop | each use of a tool has its result before the model is asked again; an investigation ends with the answer that concludes it, or with the first analysis when its turns are used up; the evidence is what the tools returned |
| cards | whatever ends a run is told to the chat; a run that waits has asked; no result is shown while a question is open; an alert is answered |
| alert API | its runs are never mixed up with the chat's (that its cards lead nowhere is what the code does, not what it should: section 3) |
| incident store | no alert is lost or misfiled, two open incidents of one fingerprint only after a race, a decision about an incident stays, the console shows what the run is at |
| configuration | every row can be loaded; cache, Settings and rows agree unless requests clashed or failed; new fences reach the next evaluation (violated: `fences`) |
| registry | what is disabled stays disabled across a reload and a restart, as long as nobody sets the list through `PUT /config`; no plugin outlives its file |
| knowledge base | the history is complete, no edit undoes another, and what is confirmed is done |

## 2. The modules

```
Policy ---- Graph ---- Workflow ---- MCWorkflow          (workflow, released_plan)
              |           |  \------ Workflow_proofs
              |           +--------- ApprovalGate        (abstract specification)
              +--- Graph_proofs                          (lemmas both proofs use)
              |
Manager ------+--- WorkflowRuns ---- MCWorkflowRuns      (the runs_* and two violated ones)
                          \--------- WorkflowRuns_proofs
Diagnose ----------- Chat ---------- MCChat              (chat, unevaluated_tools)
   \                  \------------ Chat_proofs
    \------------------------------ Diagnose_proofs     (extended by Chat_proofs)
Incidents --------------+----------- MCIncidents         (incidents)
                         \---------- Incidents_proofs
DynamicConfig --- Plugins +--------- MCPlugins           (config, fences)
                           \-------- Plugins_proofs
Knowledge --------------+----------- MCKnowledge         (knowledge)
                         \---------- Knowledge_proofs
```

**Policy** is `ExecutionPolicy` as operators: `WithinFences`, `Decide`, and
`Evaluate` for all proposals of one answer in order. `_check_quota` appends to a
list; the model keeps its length, and says in closed form how many units the
first `n` proposals take (`Demand`, `CountAfter`), which is also what makes it
provable without recursion. An optional argument is a set of at most one value.

**Graph** has one operator per node (`execute_node(s, results)`) and per edge
(`should_continue_after_policy(s)`) with the code's names, over a record
`GraphState` that leaves out the texts. Confidence is "none", "low" (below 0.3)
or "enough".

**Workflow** is one run on one thread. An action per node applies the node's
operator and its edge's; the environment's choices (the LLM's plan, duplicate or
not, the plugins' results, the click) are `\E`. A node that raises is an action
of its own that sets `aborted`. `count` is the incident's quota; `HourPasses` lets any
number of its entries expire, at any time and without end, as they do in the code.
Three history variables say what the human approved, what really ran since the plan was
drawn up, and whether the last answer was a rejection.

**ApprovalGate** is what the two-step confirmation promises, with no graph in
it: investigating, a question, planning, a question or the policy's release,
carrying out, closing. `Workflow!ImplementsGate` is the refinement.

**Manager** is `WorkflowRunManager` as operators on a record of its dicts (a
dict is a function on its keys; `Put` is an assignment, `Without` a removal).

**WorkflowRuns** composes the graph and the manager with the coroutines. Every alert and
every click has a coroutine; an action is what it does from one await to the next:

| action | code |
|---|---|
| `_trigger_workflow`, `receive_alert` | the two ways an alert arrives, up to `ainvoke` |
| `Click` | `lark_card_action`: creates the task, ignores the card's kind |
| `Resume` | `_resume_workflow` up to its first await: `get_by_incident`, and `remove` in `resume_by_thread` |
| `Peek` | `aget_state` on the path through the database: the thread is there, or unknown, or the checkpointer raises |
| `Load` | `ainvoke` loads the latest checkpoint, or raises: the answer is lost (phase `"lost"`), and a run that was taken from the manager for it is not put back |
| `RunNode`, `NodeRaises` | inside `ainvoke`: run a node and write its checkpoint, or raise |
| `PostCard` | the two card nodes deliver before their checkpoint is written; the card may get lost |
| `TriggerPaused`, `ApiPaused`, `ResumePaused`, `PersistedPaused`, `ReturnEnded` | what each caller does with the result: register it, or not |
| `TimeOut` | `asyncio.wait_for(..., 300)` of the API |
| `GrowOld`, `CleanupStarts`, `CleanupGoesOn` | a run passes its hour; `_cleanup_expired` before and after the await of its message |
| `Restart` | the process dies: coroutines, manager and MemorySavers are gone, the plan under way may have run |

The history variable `given_up` holds the threads whose chat was told that their hour is
over. Everybody may go on clicking on their cards, and a late answer is carried on
through the database; the properties claim nothing of it.

LangGraph is external. It is modelled as the code uses it (version 1.1 or
later, `pyproject.toml`): one node per superstep, a checkpoint after each, the
last write counts, a resume value answers only an interrupt of the first
superstep after loading, a new interrupt is *returned* in `__interrupt__` and
not raised (so the `except GraphInterrupt` branches of the code do not occur),
and a conditional edge gets a copy of the state (so what it assigns is lost).

**Diagnose** is `run_diagnose_loop` step by step, between two of its awaits. `Analyse`
is phase 1; when its confidence stays below the threshold, `Answer` is one answer of
the model in phase 2, `ToolEnds` the end of one of the tools it asked for, in any
order and with a result or an exception, and `Gather` what follows `asyncio.gather`.
`CompleteRaises` is a refused or timed out request. The registry can change while
the model is asked (`Toggle`), so a name the model was offered may be gone when it
uses it, and then `registry.get` raises out of the node (`get_raises`). Of a text the
model keeps what the code reads in it: a number after the confidence label, the
wish to investigate, the word 确定, a double quote. The messages are sequences, since
their order is what the providers insist on.

**Chat** is one alert from its message to what the chat is told. It extends
`Diagnose`: the node `diagnose` is that module's steps (`Diagnosing`), while the
other nodes are one action each, with the choices that `Graph` makes precise left
open. What Chat is about is every message on the way: each has an outcome `"sent"`,
`"refused"` (logged only) or `"raised"`; the access token is fetched once and
expires unnoticed; a card is JSON with texts in it, and a text with a quote in it that
is not escaped makes `json.loads` raise, so that the card is lost and the graph goes
on to wait. Each end of a run (`Pause`, `TellMerged`, `TellResult`, `TellFailed`)
says what its coroutine says: the trigger through the webhook or the socket, the
resumption through the manager, or the one through the database. The history
variable `trouble` records that Lark did not take a message or that the process died
with a coroutine, which is what silence is allowed to mean.

**Incidents** is the table of incidents and their events. `create_incident` is
one session, but two steps: `Search` is the query, `Insert` or `AppendEvent` the
commit, and between them other sessions run (READ COMMITTED, which is what
PostgreSQL gives; no lock, no unique index). `RollBack` is a session that fails or
dies before its commit. `Report` is `save_workflow_result`, called at the end of a
run, also while the run is paused (the path through the database does not look for
`__interrupt__`) and once more by a second click; `ReportDuplicate` is what becomes of a merged alert, where the
webhook differs from the socket and the API (`SavesAlways`). A report also writes the
cost and adds a Diagnosis row, which is what `get_incident_raises` and `Active`, the
incident's page and the status page, read back. `GrowOld` is the
cutoff of 30 minutes. An incident is named by the alert that created it. The
module abstracts `Graph!ingest_node` and the end of a run from the other side:
there "duplicate or not" is a choice, here it is the answer of the query.

**DynamicConfig** is `DynamicConfig` of `app/config/dynamic.py`: rows, cache and
Settings, and the coroutine of `update`. `Begin` enters it, `Select` is one turn of
its loop (query, cast, cache; after the last key the cache goes into Settings),
`Flush` and `Commit` are the end of the request's session, `RollBack` is an
exception anywhere. The keys of a request are read in any order, which is every
order a client can send them in. `Flush` waits for the row locks of a session that has
flushed and fails if a row it would INSERT has appeared. `Restart` is `load` and
`apply_to_settings` at a start, or the start without them that `main.py` goes on
with. Two history variables make the promises precise: `clashed` are the keys of a
request that another one had in hand meanwhile, `suspect` those that a clash or a
failure may have split. A later update that is alone heals a key.

**Plugins** adds the registry: files, registered and disabled plugins, the handlers
of `api/plugins.py`, the start, and the policy singleton's fences. A handler is an
action up to the await of `update`; from there it is the request of
`DynamicConfig`, and `Flushed` is where `delete_custom_plugin` goes on, with the list
it took before it waited. Two of the keys play a part: `DisabledKey` holds the
list of disabled plugins and is no attribute of Settings, `FenceKey` is one of the
fences. `PUT /config` takes any managed key, `DisabledKey` too: such a list reaches the row
and the cache, not the registry, until a start reads it or a lone toggle writes the
registry's own over it. The history variable `overrides` records those lists.

**Knowledge** is one entry and its revisions (entries do not depend on each other).
A request is `Ask` or `AskRollback`, then `Load` (or `LeaveAsIs`), then `Write` or
`Fail`; the ORM writes the columns that differ from what was read, and nothing
reads the number of the revision again. What stands between two edits is the unique
index on the entry and the revision number (`NumberIsFree`). Entries grow stale with
time, a choice of `CheckStale`. `fields` of a revision is history.

## 3. The runs

| run | instance | shows |
|---|---|---|
| `workflow` | six drafts, one for each way policy and registry can treat a proposal; plans of 0 to 2; quota 2, whose entries expire at any time | `TypeOK`, `ConsentBeforeExecution`, `CriticalNeverRuns`, `RejectedNeverRuns`, `ApprovedPlanRuns`, `QuotaBoundsTheLoop`, `ImplementsGate` |
| `runs_careful` | one thread, plans of 0 to 2 proposals, 4 clicks of either kind, each card clicked once | `OnlyApprovedPlansRun`, `OncePerAnswer`, `RejectionCarriesOutNothing` |
| `runs_two` | two threads of one chat, one of them the API's, an unregistered plugin, 2 approving clicks, checkpoints that cannot be read, a cleanup, one restart | `TypeOK`, `IncidentsLeadToRuns`, `ChatCardsFindTheirRuns`, `TwoApprovals`, `OneOwner`, `AnswersAreHeard` |
| `incidents` | three alerts with one text, two reports per run | `TypeOK`, `EveryAlertIsRecorded`, `OnlyRacesDuplicate`, `DecisionsLast`, `SearchRecovers`, `ConsoleShowsTheRun` |
| `config` | 3 requests, a built-in and a custom plugin, two keys besides the list, a value that fits only one of them, a list sent to `PUT /config` | `TypeOK`, `RowsLoad`, `CleanKeysAgree`, `DisabledIsKept`, `GhostsAreDeleted` |
| `chat` | one alert through either channel; two diagnostic plugins and a remediation; 2 answers after the first, 2 tools each; a plugin switched once; a token that expires, quoted texts, refused and failed messages; 2 clicks; one restart | `TypeOK`, `EveryUseIsAnswered`, `InvestigationConcludes`, `EvidenceIsWhatReturned`, `EveryEndIsTold`, `WaitingIsAskedFor`, `ResultsAreFinal`, `AlertIsAnswered` |
| `knowledge` | 3 sessions, a column that may be empty and one that may not, two texts, two statuses, 3 revisions | `TypeOK`, `EntryIsItsRevision`, `EditsBuildOnTheLast`, `EditsTakeEffect` |
| `released_plan` | as `workflow` | **violated** `ReleasedPlanRuns` |
| `stale_card` | one thread, 3 approving clicks | **violated** `OnlyApprovedPlansRun` |
| `rejection_after_restart` | one thread, 3 clicks, one restart | **violated** `RejectionCarriesOutNothing` |
| `unevaluated_tools` | as `chat` | **violated** `OnlyDiagnosticsRun` |
| `fences` | as `config`, one request | **violated** `NewFencesApply` |

*Bounds.* `MaxProposals` 2: a plan of two is the smallest in which two decisions
differ, quota is taken twice and one proposal raises after another ran.
`max_auto_fixes_per_hour` 2 in `workflow`, so that it runs out in a second round;
0 in the other runs, where every plan is to be asked about (the policy is not
their subject). Two threads are the smallest number for a cleanup with an await
between two removals and for a shared chat. Two clicks answer the two questions, or
one is lost and the next must be heard; three, in the violated runs, leave one that is in
the way. One restart can fall into any step.
In `runs_careful` plans of two proposals can be done in part, so that the graph goes
back to propose and a thread gets a second plan and its card; four clicks are the
smallest number with which a plan can be carried out twice (see below). It has no
restart, for the sake of its size; the theorems about its properties have any number.
`AnswersAreHeard` is checked in `runs_two`, with the restart after which only the
database knows the run, and with approvals only: whether an answer is heard does not
depend on what it says.
`Answers` and `ClickOnce` narrow what people do, and are part of what a run claims. Both
passing runs of `WorkflowRuns` have each card clicked once for each time it was delivered,
and a card may be sent again; `stale_card` and `rejection_after_restart` have any clicking
at all, and show that two properties need it. `OneOwner`, `TwoApprovals` and
`IncidentsLeadToRuns` do not: their theorems assume nothing of `ClickOnce`. For them a
double click on one card as delivered is the theorems' affair: with it `runs_two` has
1 082 162 states, on which the three hold as well, but which are too many for
`AnswersAreHeard`. The bounds on clicks and restarts are guards of `Click` and
`Restart` and restrict nothing else.
In `incidents` three alerts are the smallest number in which a race of two stops a
third, and one text lets all of them meet; several texts are the theorems'
affair. `MaxReports` 2 allows a report of the paused run or of a second click.

In `chat` `MaxTurns` 4 leaves the loop two answers (`max_turns` is 16 in the code and
nothing else depends on it): the second is the smallest that follows a `Gather`, and
the one at which the turns run out. Two tools per answer are two that end in either order.
The two texts are a confident one and one that wants an investigation and holds a
quote; the three messages are an alert, a recovery, and a card whose alert stands in
the `fields` of an element, which `_extract_card_text` does not read. `Threshold` 70 is
the code's. Two clicks answer both questions, or one question twice; a restart can
fall into any step. `MaxUses`, `MaxToggles`, `MaxClicks` and `MaxRestarts` are guards
(and the length of what the model asks for) and restrict nothing else.

In `config` three requests are two that clash and a third that heals, or two
toggles and a deletion; in `knowledge` three sessions and three revisions let a third
edit build on what two racing ones left. Requests and texts differ in their names
only, and both runs check invariants and one action property that treat them alike,
so symmetry is sound. `MaxRevision` is a guard of `Write` and restricts nothing else.

`CHECK_DEADLOCK FALSE` everywhere: a run that ended or waits for a click that
never comes really stops.

*Fairness.* `Workflow!FairSpec` is weak fairness of the nodes together: the event
loop goes on with a run that is not paused, requests have time limits or raise, and
plugins are taken to return (nothing limits their time; what a tool that hangs
does to an alert is the subject of `AlertIsAnswered`). No fairness for clicks, nor for
the clock.
`WorkflowRuns!FairSpec` is weak fairness of the coroutine of each click (`Work(k)`): an
asyncio task whose await is over is resumed. None for the coroutines of the alerts, which
may hang in a tool, nor for triggers, clicks, the cleanup or the restart.
`Incidents!FairSpec` is weak fairness of `GrowOld` only: time passes, but no alert has to
arrive and no session has to commit. `Chat!FairSpec` is weak fairness of `RunStep`, the steps the run takes by itself: requests to the model, to
Lark and to the database have time limits or raise. Not among them are the tools
of the diagnosis, which nothing limits, and `AlertIsAnswered` says that just these
can keep an alert from an answer. Plugins and Knowledge have safety properties only
and no fairness.

*What the violated runs show*, each against a sentence of the repository quoted
in `PROJECT.json`:

1. `released_plan`: a plan the policy releases as a whole is closed as resolved
   with nothing carried out, because an edge's assignments are lost.
2. `stale_card`: the kind of a clicked card is ignored, so a second click on the
   diagnosis card can answer the question about the plan.
3. `rejection_after_restart`: after a crash inside execute a click on reject
   carries the plan out again.
4. `unevaluated_tools`: the tool loop executes whatever name the model says, of any
   category, before the policy and before any human.
5. `fences`: fences that were changed and committed do not reach the next evaluation of
   the policy, which keeps those of its first until the process starts again.

*Where the repository says otherwise and no run shows it.* Two more sentences do not
agree with the models.

* The comment at `app/api/alert.py:151` says that a run of the API is registered so that
  the callback of a card can resume it. It is registered under an id that ingest has
  replaced, and its checkpoints are in a MemorySaver of the request, so the card leads
  nowhere: `Manager!DrawnId`, `WorkflowRuns!ApiPaused` and the first disjunct of `Peek`.
  `ChatCardsFindTheirRuns` and `AnswersAreHeard` are therefore stated for runs of the chat.
* `README.md:114-116`, `docs/guide/concepts.md:66` and `:177`, `docs/guide/alerts.md:290`
  and the message at `app/lark/workflow_manager.py:317-321` say that a run nobody answers
  for an hour is cleaned up and has to be triggered again. The manager forgets it, but its
  checkpoint stays, and a late click finds it there and carries it on (`Peek`).
  `AnswersAreHeard` promises nothing about such an answer.

*The loop has no bound of its own.* A plan that is done in part leads back to propose
without anybody being asked. Only the quota stops that, and its entries are forgotten after an
hour. `QuotaBoundsTheLoop` says just this: a run pauses or stops again and again, or else
entries of its quota expire again and again. That the run always comes back to a
human would be false.

*A plan may run twice on one approval.* `OncePerAnswer` is weaker than what one would
like to say, that a plan is carried out once per *approval* of its card. That is false
in the code even when each card is clicked once. A click on reject that is served before
the card's node has written its checkpoint loads the checkpoint before the node, so it
delivers the card again and the rejection is lost. Now two coroutines have a checkpoint
to write that asks about this plan. After the first has, the second card is approved, the
plan carried out in part, a new plan drawn up and its card sent; then the other one writes
its checkpoint, and the approval of the new plan carries the old one out again. What is
true, and proved, is that each such repetition has used up an answer to the old plan's
card, here the rejection.

*What was met on the way* and stands in the models: "不确定" contains "确定", so
an uncertain first analysis counts as 90 % confident and skips the tools
(`_extract_confidence`); the confidence stays that of the first guess whatever the
tools find. The access token is
never fetched again, so about two hours after the first message the bot falls
silent until it is restarted. The texts of a plan, and category and service of a
diagnosis, are put on their cards unescaped. An incident that was escalated is not
active on the status page but goes on absorbing alerts. An uploaded file that
cannot be imported is not registered.

## 4. What is proved

### A run

`Workflow_proofs` proves for every set of names, drafts and fences, every plan
length and quota, with the assumptions `PolicyAssumption`,
`MaxProposalsAssumption` and `WorkflowAssumption` (drafts name known plugins and a
known risk, bounds are naturals) and nothing else:

| theorem | property |
|---|---|
| `TypeCorrect` | `TypeOK`, with the quota bound |
| `ConsentIsGiven` | `ConsentBeforeExecution` |
| `CriticalIsRefused` | `CriticalNeverRuns` |
| `RejectionIsFinal` | `RejectedNeverRuns` |
| `ApprovalIsCarriedOut` | `ApprovedPlanRuns` |
| `GateIsImplemented` | `ImplementsGate`: `Workflow` implements `ApprovalGate` |

*The argument.* None of the safety properties is inductive. `Inductive` adds what
the graph knows at each node, in named parts:

* `Fresh`: while the plan is being drawn up or judged nothing has run under it and
  no human has approved it yet;
* `ExecuteIsApproved`: at execute, either the human approved exactly this plan (and
  then the approvals name all of it), or the policy released all of it;
* `NothingCritical`: past the policy, no proposal of the plan is critical, because
  the escalate test comes first;
* `Undecided`, `RejectionEscalates`: the last answer and where the run may be after it.

The part that carries the stale-approval hazard is `ExecuteIsApproved`: execute
may well find `approval_decisions` of an earlier round, and the theorem holds only
because it then runs a plan that was released. Each step lemma (`ProposeStep`,
`PolicyStep`, `ApprovalStep`, `ExecuteStep`, ...) treats one group of actions;
`StepIsInductive` combines them. `Demand` is a cardinality, so `DemandIsNatural`
and `QuotaKept` rest on the library's finite-set theorems. The refinement uses the
same invariant.

### The composition of runs

`WorkflowRuns_proofs` proves for every set of threads, every mapping to chats, every
policy and set of plans, and any number of clicks and restarts (assumption
`WorkflowRunsAssumption`: bounds are naturals, a click is not a thread):

| theorem | property |
|---|---|
| `EveryThreadHasOneOwner` | `OneOwner` |
| `DictsAgree` | `IncidentsLeadToRuns` |
| `ChatRunsAreFound` | `ChatCardsFindTheirRuns` |
| `TwoApprovalsFirst` | `TwoApprovals` |
| `TypeCorrect` | `TypeOK` |

None of them depends on `ClickOnce`: they hold for any clicking.

*Their argument* has four layers, each proved invariant with the ones before it.

* `Coroutines`: the coroutine of an alert works on its own thread and reached it as the
  trigger; the coroutine of a click works on the thread of a card that was delivered.
* `Waiting`: the manager's dicts agree (`Agree`), a thread is pending or has one owner
  (`OneDriver`), and clicks drive the threads of the chat only. `resume_by_thread`
  removes the run in the step that makes its coroutine an owner, and only an owner
  registers; that a cleanup removes a run that was registered again in between takes
  a registration away, which leaves the dicts in step and nobody in charge.
* `Answered`: a checkpoint that is past the first question has used up an approval
  (the coroutine of that click has no answer left to give), and one past both has seen
  two. The same is said of the state a
  coroutine carries, since the last writer wins: what a slow coroutine writes over a
  faster one's checkpoint is backed by approvals too.
* `Rest`: the types of what the other layers do not mention.

Three more are theorems under the hypothesis `ClickOnce`, again for any number of clicks
and restarts. `stale_card` and `rejection_after_restart` refute two of them without it,
so they need it:

| theorem | property |
|---|---|
| `OnlyApprovedPlans` | `OnlyApprovedPlansRun` |
| `OncePerAnswerHolds` | `OncePerAnswer` |
| `RejectionsCarryOutNothing` | `RejectionCarriesOutNothing` |

*Their argument.* A node that has posted its card may write its checkpoint much later,
over those of the coroutines that answered the card meanwhile, so nothing can be said
about a checkpoint alone. Four layers on top of the first ones (`CarefulInvariant`) say
what does not depend on these late writes:

* `OneToken`: a thread of the chat has one token at a time. It is the alert not taken up
  yet, or one card that can still be clicked, or one coroutine on its way in `ainvoke`;
  a click turns a card into a coroutine, `PostCard` turns a coroutine into a card. A
  coroutine that has posted its card holds no token: it has nothing left to do but to
  write its checkpoint.
* `Places`: where the token is with respect to the checkpoint. A card that can be clicked
  belongs to a checkpoint that asks; the coroutine that goes on is where the checkpoint
  says, or at an interrupt that a late node has put back; a click's coroutine that goes on
  without its answer was approved, or is on its way to escalate. The last gives
  `RejectionCarriesOutNothing`.
* `Consent`: a plan that a checkpoint asks about, or a late node is going to, was approved
  before, or the token is about this plan (its card, a click on it, the node that sends
  it) or on its way to escalate. So the answer that takes the thread past the question
  about a plan is one to its own card, or the plan was approved already.
* `Counts`: for each plan, those who carried it out, the late nodes that can put it to the
  question again, and the token if it is about to carry it out, are together no more than
  the clicks on its card. Each late node is paid for by the click that overtook it.

The lemmas about the policy and the nodes that this and `Workflow_proofs` both rest on
are in `Graph_proofs`.

### The diagnosis and the chat

`Diagnose_proofs` proves `DiagnosesAreSound` for the loop alone (`DiagnoseSpec`), any
plugins, texts, limits and numbers of tools; `Chat_proofs` uses its lemmas for the whole
run, with clicks, crashes and restarts (`DiagnoseAssumption`, `ChatAssumption`):

| theorem | property |
|---|---|
| `TypeCorrect` | `TypeOK` |
| `UsesAreAnswered` | `EveryUseIsAnswered` |
| `InvestigationsConclude` | `InvestigationConcludes` |
| `EvidenceIsReturned` | `EvidenceIsWhatReturned` |
| `EndsReachTheChat` | `EveryEndIsTold` |
| `WaitingRunsAsked` | `WaitingIsAskedFor` |
| `ResultsComeLast` | `ResultsAreFinal` |

*The argument.* `LoopInductive` is the loop's invariant. `EveryUseIsAnswered` speaks of
the moments the model is asked only; while tools run, `AnsweredSoFar` says it of all
answers but the last, and `AskedLast` that the last message is the answer whose tools
are running, with one entry of `results` for each of its uses. `Fresh` says that nothing has
been found before the first turn, which starts the equality of evidence and results.
`GuessWhileAsking` and `ConclusionKept` are why a diagnosis that tools led to carries the low
confidence of the first analysis and is the last message of the conversation. Of the
first analysis `InvestigationConcludes` says only when it is the diagnosis, not that it is
whole: its `stop_reason` is never read, so one that was cut off is taken as it is. Chat's
`Inductive` adds what holds while the run is still driven: `AskedFor` (a run comes to a
question with its card delivered, or for one of the reasons why not), `Excepting` (a
node that asks does not raise, so an exception never ends at a question) and
`ShownEarly` (a result shown before the end is the one of the path through the
database).

### The incident store

`Incidents_proofs` proves for every set of alerts, every fingerprinting of them,
every `SavesAlways` and every natural `MaxReports` (`IncidentsAssumption`):

| theorem | property |
|---|---|
| `AlertsAreRecorded` | `EveryAlertIsRecorded` |
| `DuplicatesAreRaces` | `OnlyRacesDuplicate` |
| `DecisionsStand` | `DecisionsLast` |
| `ConsoleIsRight` | `ConsoleShowsTheRun` |
| `TypeCorrect` | `TypeOK` |

*The argument.* `OnlyRacesDuplicate` speaks of incidents only; it is inductive with
what a session knows between its query and its commit: a session that is about to
insert passed over no incident that is still open (`PassedOver`), one that is about
to append found an incident that is there (`FoundStays`), and an incident is
created by nobody but the session of its own alert (`OwnWork`). The set `reopened`
is needed: a run driven twice may report "escalated" after "resolved", and then an
incident that a session rightly passed over is open again.

### Configuration and registry

`Plugins_proofs` proves for every set of requests, keys and values, every cast
(`Fits`), every set of plugins and bodies (`DynamicConfigAssumption`,
`PluginsAssumption`):

| theorem | property |
|---|---|
| `TypeCorrect` | `TypeOK` |
| `EveryRowLoads` | `RowsLoad` |
| `CleanKeysStayInStep` | `CleanKeysAgree` |
| `DisabledSurvivesStarts` | `DisabledIsKept` |
| `GhostsComeFromDeletions` | `GhostsAreDeleted` |

*The argument.* The properties speak of keys that nobody has in hand; to reach such a
state the invariant must say what a request does to a key on its way. `Clashes`: two
requests with one key in hand know of each other, and the key is suspect. `Alone`: of
a key that a request has to itself and whose row it has read, the cache holds the
value of the request and the row is still the one it read, so the commit makes them
equal. `CastKept` carries the cast to the commit. For the registry, `ListInHand` says
that a list on its way to the database which nobody else has in hand is the
registry's own, unless it went past the registry, and `Deleting` what a deletion has in
hand. `DisabledIsKept` is conditional on `overrides`: once a list was sent to `PUT /config`
it promises nothing until a toggle or a deletion that is alone has committed the
registry's own list, or the process has started again.

### The knowledge base

`Knowledge_proofs` proves for every set of sessions, columns, texts and statuses, and
every bound (`KnowledgeAssumption`):

| theorem | property |
|---|---|
| `TypeCorrect` | `TypeOK` |
| `HistoryIsComplete` | `EntryIsItsRevision` |
| `NoLostUpdate` | `EditsBuildOnTheLast` |
| `ConfirmedIsDone` | `EditsTakeEffect` |

*The argument.* `LoadedIsCommitted`: what a session has read was committed, and while
the current number is the one it read, the entry is what it read. The numbers of the
history are `1..current`, so a number that is free is not among them, so it is the
next one, so the session read the entry as it is (`WriteFollowsTheLast`). The index
works as an optimistic lock, and everything else follows.

### Only model-checked

The liveness properties `QuotaBoundsTheLoop`, `AnswersAreHeard`, `SearchRecovers` and
`AlertIsAnswered`: fairness is out of the prover's reach. Every other property of a
passing run is a theorem.

## 5. What is left out, and why

* `POST /alert` without a `chat_id`: it sends no card and registers nothing.
* The fallback to an in-memory checkpointer: a restart then loses every thread, as
  it does the API's in the model.
* LangGraph's background writing of checkpoints: the model writes them at the end
  of the superstep.
* The order of the runs in one cleanup: any.
* A checkpoint that cannot be written. That it cannot be read is in `Peek` and `Load`; in
  either case the exception ends up where `NodeRaises` has it.
* A value of `disabled_plugins` whose text is JSON but no list of names (`PUT /config` takes
  it): `set()` raises in `registry.reload` and the process does not start (`main.py:31-36`,
  `:84`). A text that is no JSON counts as the empty list, which the model has.
* The text a configuration value is stored as, and `get`, which only reads; unknown
  keys, which `update` skips.
* Plugin packages in the custom directory, and files that register a name that is not
  their own.
* The relations between knowledge entries, lists, statistics and `record_usage`, which
  nothing calls.
* Knowledge search and incident memory. As configured they do nothing: both hand
  `settings.database_url` to `asyncpg.connect`, whose documented form
  (`postgresql+asyncpg://`) asyncpg refuses; `workflow_runner.py:50` strips the suffix,
  `memory/store.py:80`, `:111` and `knowledge/search.py:56` do not. Besides,
  `IncidentMemoryStore.setup` is never called and nothing writes the column
  `embedding`. The callers log the exception and go on, which is what the models do.
* The event stream: nothing calls `broadcast_event`, so no event ever flows.
* How messages are written for each provider. (The tools' messages go out without the
  `tool_calls` of the answer they belong to, which a strict provider refuses: one of the
  causes of `CompleteRaises`.)
* `WorkflowRunManager.resume` (the body of `resume_by_thread` without its look at
  `__interrupt__`), `get_by_chat`, `record_auto_fix`, `EventDedup` and
  `DistributedLock`: the application does not call them.
* The rows a report adds for proposals and LLM turns and the descriptive columns of an
  incident: nothing a run does depends on them. (The `turn_index` of the phases
  overlap, so an incident's page shows their turns interleaved.)
* SQLite, the test and single-user database: it serialises writers, so its
  behaviours are among those of READ COMMITTED.
* A `Registered` that changes while a run waits for an answer about its plan (it does
  change under the tool loop). Disabling a plugin of the plan makes `execute` raise,
  which `Workflow!ExecuteRaises` and `WorkflowRuns!NodeRaises` have for a name that was
  never registered.
* Decryption and signatures of the webhook, the connection of the socket, which belongs
  to the SDK.
* Card layout, prompts, the insides of plugins and of the
  Kubernetes client: data, not control.

## 6. Plan

Done: every part above that decides or tells something has a module, a run and proofs:
Policy, Graph, Workflow and ApprovalGate; Manager and WorkflowRuns; Diagnose and Chat;
Incidents; DynamicConfig with Plugins; Knowledge. What would add most next:

1. A registry that changes while a run waits: `Registered` as a variable between
   `PolicyEvaluate` and `Execute`.
2. `Diagnose` as a refinement of the one step `Workflow!Diagnose`, by an instance that
   hides the loop.
3. The event queues, once something broadcasts events; the memory, once it connects;
   the in-memory checkpointer.

## 7. Running

```
tlc -workers 2 -config MCWorkflow.cfg MCWorkflow
for m in Graph Workflow WorkflowRuns Diagnose Chat Incidents Plugins Knowledge; do
  tlapm ${m}_proofs.tla
done
```

The largest run is `runs_careful`, with some 913 000 states; the largest proof module is
`WorkflowRuns_proofs`.

Each run of section 3 names its module and cfg in `PROJECT.json`, which also maps
every definition to the lines it models and gives, for every property, a plausible
bug in the code that breaks it.
