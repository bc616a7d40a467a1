--------------------------------- MODULE Chat ---------------------------------
(***************************************************************************)
(* One alert as the chat sees it: the message that reports it              *)
(* (app/lark/webhook.py, handler.py, detector.py), the run it starts, the  *)
(* cards that ask people (await_*_approval.py, cards.py), what is said at  *)
(* each of the run's ends, and the access token that every message needs   *)
(* (card_sender.py).                                                       *)
(*                                                                         *)
(* The run is the graph of module Graph, of which only the places are kept *)
(* where it speaks to the chat or may raise; the diagnosis in it is module *)
(* Diagnose step by step. Coroutines that drive one thread at once are in  *)
(* WorkflowRuns; here there is one at a time. Lark (external) takes a      *)
(* message, refuses it or cannot be reached; its tokens run out.           *)
(***************************************************************************)
EXTENDS Diagnose

CONSTANTS
    Messages,      \* the messages that may arrive
    MaxClicks,     \* bound: clicks on cards
    MaxRestarts    \* bound: restarts of the process

ASSUME ChatAssumption == MaxClicks \in Nat /\ MaxRestarts \in Nat

VARIABLES
    channel,       \* how the message came
    node,          \* where the run stands
    how,           \* the coroutine that drives it, or did so last
    busy,          \* whether one does
    known,         \* whether the manager knows the run as waiting
    final,         \* final_status, or "duplicate"
    quoted,        \* what has a double quote in it, beside the diagnosis
    asked,         \* the questions whose cards were delivered
    notice,        \* the last notice about the alert that was delivered
    token,         \* _tenant_access_token
    trouble,       \* history: a message was not delivered, or a coroutine killed
    clicks,
    restarts

runVars  == <<channel, node, how, busy, known, final, quoted>>
chatVars == <<runVars, asked, notice, token, trouble, clicks, restarts>>
vars == <<diagnoseVars, chatVars>>

Interrupts == {"await_diagnosis_approval", "await_proposal_approval"}

ChatNodes == Interrupts \cup {"none", "ingest", "diagnose", "send_diagnosis_card", "propose",
                              "send_proposal_card", "execute", "END"}

Hows == {"none", "trigger", "memory", "persisted", "excepting"}

Notices == {"none", "merged", "failed", "analysed", "resolved", "escalated", "expired"}

Question(n) == IF n = "await_diagnosis_approval" THEN "diagnosis" ELSE "plan"

Waiting == node \in Interrupts /\ ~busy

TypeOK ==
    /\ DiagnoseTypeOK
    /\ channel \in {"none", "webhook", "socket"}
    /\ node \in ChatNodes
    /\ how \in Hows
    /\ busy \in BOOLEAN
    /\ known \in BOOLEAN
    /\ known => Waiting
    /\ final \in {"none", "duplicate", "resolved", "escalated"}
    /\ quoted \subseteq {"labels", "plan"}
    /\ asked \subseteq {"diagnosis", "plan"}
    /\ notice \in Notices
    /\ token \in {"none", "fresh", "expired"}
    /\ trouble \in BOOLEAN
    /\ clicks \in 0..MaxClicks
    /\ restarts \in 0..MaxRestarts

Init ==
    /\ DiagnoseInit
    /\ channel = "none"
    /\ node = "none"
    /\ how = "none"
    /\ busy = FALSE
    /\ known = FALSE
    /\ final = "none"
    /\ quoted = {}
    /\ asked = {}
    /\ notice = "none"
    /\ token = "none"
    /\ trouble = FALSE
    /\ clicks = 0
    /\ restarts = 0

-----------------------------------------------------------------------------
(* Sending. *)

Outcomes == {"sent", "refused", "raised"}

\* The token is fetched once; no answer to the request leaves it empty, and
\* then the next message asks again. Its expiry is not looked at.
_get_tenant_access_token(fetched) ==
    token' = IF token = "none" THEN fetched ELSE token

\* _send_to_chat, _reply_to_message and add_reaction: only a token that is
\* still good gets a message through, and a refusal is logged and returned.
Request(outcome) ==
    /\ \E fetched \in {"none", "fresh"} : _get_tenant_access_token(fetched)
    /\ outcome = "sent" => token' = "fresh"

Send(outcome) ==
    /\ Request(outcome)
    /\ trouble' = (trouble \/ outcome # "sent")

\* A notice about the alert: a text, a result card, or the sign on its message.
Tell(what, outcome) ==
    /\ Send(outcome)
    /\ notice' = IF outcome = "sent" THEN what ELSE notice

\* A card is a JSON text with the texts of the state in it; json.loads refuses
\* it if one of them has a quote in it that is not escaped.
Loads(texts) == texts = {}

OnCard == (IF summary.text.quoted THEN {"diagnosis"} ELSE {}) \cup quoted

\* Defect the runs must notice: the diagnosis is put on its card as it is.
DiagnosisCard_raw == Loads(OnCard \ {"plan"})

\* _sanitize escapes the diagnosis and the evidence; the labels that triage
\* found, category and service, are put on the card as they are.
DiagnosisCard == Loads(OnCard \ {"diagnosis", "plan"})

\* All texts are put on the card as they are.
PlanCard == Loads(OnCard)

\* The body of the nodes that send a card: whatever goes wrong is logged only,
\* and the graph goes on to the interrupt.
PostCard(question, loads) ==
    \/ /\ loads
       /\ \E outcome \in Outcomes :
            /\ Send(outcome)
            /\ asked' = IF outcome = "sent" THEN asked \cup {question} ELSE asked
    \/ /\ ~loads
       /\ UNCHANGED <<token, trouble, asked>>

-----------------------------------------------------------------------------
(* The message. *)

\* A passage of a card is found when only these keys lead to it: what stands in
\* the fields of an element, as on this program's own cards, is passed over.
_extract_card_text(passage) ==
    passage.keys \subseteq {"text", "content", "value", "elements", "columns"}

\* The passages that are read of a message, of a post those of its text elements
\* in any language; a content that is no JSON is the text.
_extract_text_from_content(m) ==
    {passage \in m.passages :
        \/ ~m.loads
        \/ m.msg_type = "text" /\ passage.keys = {"text"}
        \/ m.msg_type = "interactive" /\ passage.keys \in {{"title"}, {"title", "content"}}
        \/ m.msg_type = "interactive" /\ _extract_card_text(passage)
        \/ m.msg_type = "post" /\ passage.keys = {"content", "text"}}

\* AlertDetector: a list of senders narrows it, a recovery is no alert.
is_alert(passages, sender_listed) ==
    /\ sender_listed
    /\ \A passage \in passages : ~passage.recovers
    /\ \E passage \in passages : passage.fires

\* A message of another kind is not looked at.
Accepted(m) ==
    /\ m.msg_type \in {"text", "post", "interactive"}
    /\ is_alert(_extract_text_from_content(m), m.sender_listed)

\* A message that is no alert only gets a sign, and that through the webhook.
Ignore(ch, m) ==
    /\ node = "none"
    /\ ~Accepted(m)
    /\ ch = "webhook"
    /\ \E outcome \in Outcomes : Request(outcome)
    /\ UNCHANGED <<diagnoseVars, runVars, asked, notice, trouble, clicks, restarts>>

\* An alert gets the sign and starts a run. What becomes of the sign stops nothing.
Receive(ch, m) ==
    /\ node = "none"
    /\ Accepted(m)
    /\ \E outcome \in Outcomes : Request(outcome)
    /\ channel' = ch
    /\ node' = "ingest"
    /\ how' = "trigger"
    /\ busy' = TRUE
    /\ UNCHANGED <<diagnoseVars, known, final, quoted, asked, notice, trouble, clicks, restarts>>

-----------------------------------------------------------------------------
(* The run. *)

At(n) == busy /\ how \in {"trigger", "memory", "persisted"} /\ node = n

To(n) == node' = n /\ UNCHANGED <<channel, how, busy, known>>

\* A node raises out of ainvoke; the thread stays where it is.
Raise == how' = "excepting" /\ UNCHANGED <<channel, node, busy, known, final, quoted>>

silent == <<asked, notice, token, trouble, clicks, restarts>>

\* ingest and triage.
Ingest ==
    /\ At("ingest")
    /\ \/ To("diagnose") /\ quoted' \in {{}, {"labels"}} /\ UNCHANGED final
       \/ To("END") /\ final' = "duplicate" /\ UNCHANGED quoted
       \/ Raise
    /\ UNCHANGED <<diagnoseVars, silent>>

\* The node diagnose at work.
Diagnosing == At("diagnose") /\ DiagnoseNext /\ UNCHANGED chatVars

Diagnosed ==
    /\ At("diagnose")
    /\ \/ /\ phase = "returned"
          /\ To("send_diagnosis_card")
          /\ UNCHANGED <<diagnoseVars, final, quoted>>
       \/ phase = "failed" /\ Raise /\ Lost
    /\ UNCHANGED silent

send_diagnosis_card_node ==
    /\ At("send_diagnosis_card")
    /\ PostCard("diagnosis", DiagnosisCard)
    /\ To("await_diagnosis_approval")
    /\ UNCHANGED <<diagnoseVars, final, quoted, notice, clicks, restarts>>

\* propose and policy_evaluate: a failed draft is an empty plan, which is closed;
\* a plan may be refused, released or asked about.
Propose ==
    /\ At("propose")
    /\ \/ /\ \E n \in {"send_proposal_card", "execute"} : To(n)
          /\ quoted' \in {quoted \ {"plan"}, quoted \cup {"plan"}}
          /\ UNCHANGED final
       \/ To("END") /\ final' \in {"resolved", "escalated"} /\ UNCHANGED quoted
       \/ Raise
    /\ UNCHANGED <<diagnoseVars, silent>>

send_proposal_card_node ==
    /\ At("send_proposal_card")
    /\ PostCard("plan", PlanCard)
    /\ To("await_proposal_approval")
    /\ UNCHANGED <<diagnoseVars, final, quoted, notice, clicks, restarts>>

Execute ==
    /\ At("execute")
    /\ \/ To("propose") /\ UNCHANGED <<final, quoted>>
       \/ To("END") /\ final' \in {"resolved", "escalated"} /\ UNCHANGED quoted
       \/ Raise
    /\ UNCHANGED <<diagnoseVars, silent>>

-----------------------------------------------------------------------------
(* What is said at the ends of a run. *)

Rest == busy' = FALSE /\ UNCHANGED <<channel, node, how, final, quoted>>

\* Defect the runs must notice: resume does not look for __interrupt__.
Pause_resume ==
    /\ busy /\ node \in Interrupts
    /\ Rest
    /\ \/ how = "trigger" /\ known' = TRUE /\ UNCHANGED <<notice, token, trouble>>
       \/ how # "trigger" /\ UNCHANGED known /\ \E outcome \in Outcomes : Tell("analysed", outcome)
    /\ UNCHANGED <<diagnoseVars, asked, clicks, restarts>>

\* A run that pauses is registered and says nothing more. The path through the
\* database takes it for a finished one and shows a result.
Pause ==
    /\ busy /\ node \in Interrupts
    /\ Rest
    /\ \/ how \in {"trigger", "memory"} /\ known' = TRUE /\ UNCHANGED <<notice, token, trouble>>
       \/ how = "persisted" /\ UNCHANGED known /\ \E outcome \in Outcomes : Tell("analysed", outcome)
    /\ UNCHANGED <<diagnoseVars, asked, clicks, restarts>>

\* A merged alert: a text through the webhook, whose failure is taken for one of
\* the run; the result card of any run through the socket.
TellMerged ==
    /\ At("END") /\ final = "duplicate"
    /\ \/ /\ channel = "webhook"
          /\ \E outcome \in Outcomes :
               /\ Tell("merged", outcome)
               /\ IF outcome = "raised" THEN Raise ELSE Rest /\ UNCHANGED known
       \/ /\ channel = "socket"
          /\ \E outcome \in Outcomes : Tell("analysed", outcome)
          /\ Rest /\ UNCHANGED known
    /\ UNCHANGED <<diagnoseVars, asked, clicks, restarts>>

\* A run that was resumed ends: the result card, and a sign if it is not resolved.
TellResult ==
    /\ At("END") /\ final # "duplicate"
    /\ \E outcome \in Outcomes : Tell(final, outcome)
    /\ Rest
    /\ UNCHANGED <<diagnoseVars, known, asked, clicks, restarts>>

\* Defect the runs must notice: the error is logged and nothing else.
TellFailed_log ==
    /\ busy /\ how = "excepting"
    /\ Rest
    /\ UNCHANGED <<diagnoseVars, known, asked, notice, token, trouble, clicks, restarts>>

\* The except clauses of the triggers, of resume_by_thread and of the path
\* through the database: a sign on the message, a text, or both.
TellFailed ==
    /\ busy /\ how = "excepting"
    /\ \E outcome \in Outcomes : Tell("failed", outcome)
    /\ Rest
    /\ UNCHANGED <<diagnoseVars, known, asked, clicks, restarts>>

-----------------------------------------------------------------------------
(* People, time and the process. *)

\* A click on a card that is there, of whichever question, answers the question
\* the thread is at. A run the manager does not know is found in the database.
Click(action) ==
    /\ clicks < MaxClicks
    /\ clicks' = clicks + 1
    /\ asked # {} /\ ~busy /\ node # "END"
    /\ node' = CASE node \notin Interrupts -> node
                 [] node \in Interrupts /\ action = "reject" -> "END"
                 [] node = "await_diagnosis_approval" /\ action = "approve" -> "propose"
                 [] node = "await_proposal_approval" /\ action = "approve" -> "execute"
    /\ final' = IF node \in Interrupts /\ action = "reject" THEN "escalated" ELSE final
    /\ how' = IF known THEN "memory" ELSE "persisted"
    /\ busy' = TRUE
    /\ known' = FALSE
    /\ UNCHANGED <<diagnoseVars, channel, quoted, asked, notice, token, trouble, restarts>>

\* _cleanup_expired: after an hour the manager forgets the run and says so. The
\* thread goes on waiting.
Expire ==
    /\ known
    /\ known' = FALSE
    /\ \E outcome \in Outcomes : Tell("expired", outcome)
    /\ UNCHANGED <<diagnoseVars, channel, node, how, busy, final, quoted, asked, clicks, restarts>>

\* Of the messages before the end of the diagnosis none can stop the run: a token
\* that expires earlier is no other than one that expires then.
TokenExpires ==
    /\ token = "fresh" /\ node \notin {"none", "ingest", "diagnose"}
    /\ token' = "expired"
    /\ UNCHANGED <<diagnoseVars, runVars, asked, notice, trouble, clicks, restarts>>

\* What was driving the run is gone; the thread stays where its checkpoint is.
Restart ==
    /\ restarts < MaxRestarts
    /\ node # "none"
    /\ restarts' = restarts + 1
    /\ trouble' = (trouble \/ busy)
    /\ busy' = FALSE
    /\ known' = FALSE
    /\ token' = "none"
    /\ IF At("diagnose") THEN Lost ELSE UNCHANGED diagnoseVars
    /\ UNCHANGED <<channel, node, how, final, quoted, asked, notice, clicks>>

Next ==
    \/ \E ch \in {"webhook", "socket"}, m \in Messages : Ignore(ch, m) \/ Receive(ch, m)
    \/ Ingest \/ Diagnosing \/ Diagnosed \/ send_diagnosis_card_node
    \/ Propose \/ send_proposal_card_node \/ Execute
    \/ Pause \/ TellMerged \/ TellResult \/ TellFailed
    \/ \E action \in {"approve", "reject"} : Click(action)
    \/ Expire \/ TokenExpires \/ Restart

Spec == Init /\ [][Next]_vars

\* The run goes on by itself: every request it waits for has a time limit, but
\* for the tools of the diagnosis.
RunStep ==
    \/ Ingest \/ Diagnosed \/ send_diagnosis_card_node
    \/ Propose \/ send_proposal_card_node \/ Execute
    \/ Pause \/ TellMerged \/ TellResult \/ TellFailed
    \/ At("diagnose") /\ (Start \/ LoopStep) /\ UNCHANGED chatVars

FairSpec == Spec /\ WF_vars(RunStep)

-----------------------------------------------------------------------------
(* Properties. *)

\* Whatever ends a run, or stops it at a node that raised, is told to the chat:
\* silence means that Lark did not take a message or the process died.
EveryEndIsTold ==
    node # "none" /\ ~busy /\ ~Waiting /\ ~trouble =>
        notice = CASE node # "END" -> "failed"
                   [] node = "END" /\ final # "duplicate" -> final
                   [] node = "END" /\ final = "duplicate" ->
                        IF channel = "webhook" THEN "merged" ELSE "analysed"

\* A run waits for an answer nobody was asked for only if Lark did not take the
\* card, or one of the texts that are put on it as they are has a quote in it.
WaitingIsAskedFor ==
    Waiting /\ Question(node) \notin asked =>
        \/ trouble
        \/ "labels" \in quoted
        \/ Question(node) = "plan" /\ (summary.text.quoted \/ "plan" \in quoted)

\* While a run waits the chat holds no result of it, but for the one that the
\* path through the database shows when it takes the pause for an end.
ResultsAreFinal ==
    Waiting => \/ notice \in {"none", "failed", "expired"}
               \/ notice = "analysed" /\ how = "persisted"

\* An alert leads to a question or a notice, whatever the model answers and
\* Lark refuses; only a tool that never returns can keep it from that.
AlertIsAnswered == <>[]Hanging \/ (busy /\ how = "trigger" ~> ~busy)

=============================================================================
