------------------------------ MODULE Chat_proofs ------------------------------
(***************************************************************************)
(* Proofs about Chat, for any messages, plugins, texts and bounds. Every   *)
(* step of a run is a step of its diagnosis, the loss of its coroutine, or *)
(* leaves the diagnosis alone, so that what Diagnose_proofs shows of a     *)
(* diagnosis holds in a run as well.                                       *)
(*                                                                         *)
(* Inductive adds to the invariants what holds between two of the places   *)
(* where the chat is told something: that a run which waited without       *)
(* being registered is driven from the database from then on, and that a   *)
(* run which failed after its end has met trouble.                         *)
(***************************************************************************)
EXTENDS Chat, Diagnose_proofs

\* The two halves of the type invariant: the run, and the talk about it.
RunTyped ==
    /\ channel \in {"none", "webhook", "socket"}
    /\ node \in ChatNodes
    /\ how \in Hows
    /\ busy \in BOOLEAN
    /\ known \in BOOLEAN
    /\ known => Waiting
    /\ final \in {"none", "duplicate", "resolved", "escalated"}
    /\ quoted \subseteq {"labels", "plan"}

TalkTyped ==
    /\ asked \subseteq {"diagnosis", "plan"}
    /\ notice \in Notices
    /\ token \in {"none", "fresh", "expired"}
    /\ trouble \in BOOLEAN
    /\ clicks \in 0..MaxClicks
    /\ restarts \in 0..MaxRestarts

\* A run comes to a question with its card delivered, or for one of the reasons why not.
AskedFor ==
    node \in Interrupts /\ Question(node) \notin asked =>
        \/ trouble
        \/ "labels" \in quoted
        \/ Question(node) = "plan" /\ (summary.text.quoted \/ "plan" \in quoted)

\* A node that asks does not raise; a run that raises at the end met trouble.
Excepting ==
    how = "excepting" => node \notin Interrupts /\ (busy /\ node = "END" => trouble)

\* Before the end, a result is one that the path through the database showed, and
\* then the manager does not know the run any more. Nothing runs before the message.
ShownEarly ==
    /\ node = "none" => notice = "none" /\ asked = {} /\ ~busy
    /\ node # "END" =>
         \/ notice \in {"none", "failed", "expired"}
         \/ notice = "analysed" /\ how \in {"persisted", "excepting"} /\ ~known

\* The inductive invariant.
Inductive ==
    /\ LoopInductive
    /\ TypeOK
    /\ AskedFor
    /\ Excepting
    /\ ShownEarly
    /\ EveryEndIsTold

-----------------------------------------------------------------------------
(* The steps. *)

\* What a step of a run does to its diagnosis.
LEMMA RunsDiagnose ==
    ASSUME [Next]_vars
    PROVE  DiagnoseStep
<1>1. CASE Diagnosing
  BY <1>1 DEF Diagnosing, DiagnoseStep
<1>2. CASE Diagnosed
  BY <1>2 DEF Diagnosed, DiagnoseStep
<1>3. CASE Restart
  BY <1>3 DEF Restart, DiagnoseStep
<1>4. CASE UNCHANGED diagnoseVars
  BY <1>4 DEF DiagnoseStep
<1> QED
  BY <1>1, <1>2, <1>3, <1>4
     DEF Next, vars, Ignore, Receive, Ingest, send_diagnosis_card_node, Propose,
         send_proposal_card_node, Execute, Pause, TellMerged, TellResult, TellFailed, Click, Expire,
         TokenExpires

\* A message needs the token, and may meet trouble.
LEMMA Sending ==
    ASSUME TalkTyped, NEW outcome \in Outcomes, Send(outcome)
    PROVE  /\ token' \in {"none", "fresh", "expired"}
           /\ trouble' \in BOOLEAN
           /\ trouble => trouble'
           /\ outcome # "sent" => trouble'
BY DEF TalkTyped, Send, Request, _get_tenant_access_token

\* A notice is delivered, or trouble is met.
LEMMA Telling ==
    ASSUME TalkTyped, NEW outcome \in Outcomes, NEW what \in Notices, Tell(what, outcome)
    PROVE  /\ token' \in {"none", "fresh", "expired"}
           /\ trouble' \in BOOLEAN
           /\ notice' \in Notices
           /\ trouble => trouble'
           /\ notice' = what \/ (notice' = notice /\ trouble')
           /\ outcome # "sent" => trouble'
BY Sending DEF TalkTyped, Tell

-----------------------------------------------------------------------------
(* The induction. *)

\* The type invariant is its three parts.
LEMMA TypeParts == TypeOK <=> DiagnoseTypeOK /\ RunTyped /\ TalkTyped
BY DEF TypeOK, RunTyped, TalkTyped

\* The types of the run.
LEMMA RunIsTyped ==
    ASSUME RunTyped, TalkTyped, [Next]_vars
    PROVE  RunTyped'
<1> USE DEF RunTyped, ChatNodes, Interrupts, Hows, Waiting
<1>1. ASSUME NEW ch \in {"webhook", "socket"}, NEW m \in Messages, Ignore(ch, m)
      PROVE  RunTyped'
  BY <1>1 DEF Ignore, Request, _get_tenant_access_token, runVars
<1>2. ASSUME NEW ch \in {"webhook", "socket"}, NEW m \in Messages, Receive(ch, m)
      PROVE  RunTyped'
  BY <1>2 DEF Receive, Request, _get_tenant_access_token
<1>3. CASE Ingest
  <2>1. node' \in ChatNodes /\ how' \in Hows
    BY <1>3 DEF Ingest, At, To, Raise
  <2>2. UNCHANGED <<channel, busy, known>> /\ busy
    BY <1>3 DEF Ingest, At, To, Raise
  <2>3. quoted' \subseteq {"labels", "plan"} /\ final' \in {"none", "duplicate", "resolved", "escalated"}
    BY <1>3 DEF Ingest, At, To, Raise
  <2> QED
    BY <2>1, <2>2, <2>3
<1>4. CASE Diagnosing
  BY <1>4 DEF Diagnosing, At, chatVars, runVars
<1>5. CASE Diagnosed
  <2>1. node' \in ChatNodes /\ how' \in Hows
    BY <1>5 DEF Diagnosed, At, To, Raise
  <2>2. UNCHANGED <<channel, busy, known>> /\ busy
    BY <1>5 DEF Diagnosed, At, To, Raise
  <2>3. quoted' \subseteq {"labels", "plan"} /\ final' \in {"none", "duplicate", "resolved", "escalated"}
    BY <1>5 DEF Diagnosed, At, To, Raise
  <2> QED
    BY <2>1, <2>2, <2>3
<1>6. CASE send_diagnosis_card_node
  BY <1>6 DEF send_diagnosis_card_node, PostCard, At, To
<1>7. CASE Propose
  <2>1. node' \in ChatNodes /\ how' \in Hows
    BY <1>7 DEF Propose, At, To, Raise
  <2>2. UNCHANGED <<channel, busy, known>> /\ busy
    BY <1>7 DEF Propose, At, To, Raise
  <2>3. quoted' \subseteq {"labels", "plan"} /\ final' \in {"none", "duplicate", "resolved", "escalated"}
    BY <1>7 DEF Propose, At, To, Raise
  <2> QED
    BY <2>1, <2>2, <2>3
<1>8. CASE send_proposal_card_node
  BY <1>8 DEF send_proposal_card_node, PostCard, At, To
<1>9. CASE Execute
  <2>1. node' \in ChatNodes /\ how' \in Hows
    BY <1>9 DEF Execute, At, To, Raise
  <2>2. UNCHANGED <<channel, busy, known>> /\ busy
    BY <1>9 DEF Execute, At, To, Raise
  <2>3. quoted' \subseteq {"labels", "plan"} /\ final' \in {"none", "duplicate", "resolved", "escalated"}
    BY <1>9 DEF Execute, At, To, Raise
  <2> QED
    BY <2>1, <2>2, <2>3
<1>10. CASE Pause
  BY <1>10 DEF Pause, Rest
<1>11. CASE TellMerged
  <2>1. UNCHANGED <<channel, node, known, final, quoted>> /\ busy
    BY <1>11 DEF TellMerged, At, Rest, Raise
  <2>2. how' \in Hows /\ busy' \in BOOLEAN
    BY <1>11 DEF TellMerged, At, Rest, Raise
  <2> QED
    BY <2>1, <2>2
<1>12. CASE TellResult
  BY <1>12 DEF TellResult, At, Rest
<1>13. CASE TellFailed
  BY <1>13 DEF TellFailed, Rest
<1>14. ASSUME NEW action \in {"approve", "reject"}, Click(action)
      PROVE  RunTyped'
  BY <1>14 DEF Click
<1>15. CASE Expire
  BY <1>15 DEF Expire
<1>16. CASE TokenExpires
  BY <1>16 DEF TokenExpires, runVars
<1>17. CASE Restart
  BY <1>17 DEF Restart
<1>18. CASE UNCHANGED vars
  BY <1>18 DEF vars, chatVars, runVars
<1> QED
  BY <1>1, <1>2, <1>3, <1>4, <1>5, <1>6, <1>7, <1>8, <1>9,
     <1>10, <1>11, <1>12, <1>13, <1>14, <1>15, <1>16, <1>17, <1>18
     DEF Next

\* The types of the talk.
LEMMA TalkIsTyped ==
    ASSUME RunTyped, TalkTyped, [Next]_vars
    PROVE  TalkTyped'
<1> USE DEF TalkTyped, RunTyped, Notices
<1>1. ASSUME NEW ch \in {"webhook", "socket"}, NEW m \in Messages, Ignore(ch, m)
      PROVE  TalkTyped'
  BY <1>1 DEF Ignore, Request, _get_tenant_access_token, runVars
<1>2. ASSUME NEW ch \in {"webhook", "socket"}, NEW m \in Messages, Receive(ch, m)
      PROVE  TalkTyped'
  BY <1>2 DEF Receive, Request, _get_tenant_access_token
<1>3. CASE Ingest
  BY <1>3 DEF Ingest, At, To, Raise, silent
<1>4. CASE Diagnosing
  BY <1>4 DEF Diagnosing, At, chatVars, runVars
<1>5. CASE Diagnosed
  BY <1>5 DEF Diagnosed, At, To, Raise, silent
<1>6. CASE send_diagnosis_card_node
  BY <1>6, Sending DEF send_diagnosis_card_node, PostCard, At, To
<1>7. CASE Propose
  BY <1>7 DEF Propose, At, To, Raise, silent
<1>8. CASE send_proposal_card_node
  BY <1>8, Sending DEF send_proposal_card_node, PostCard, At, To
<1>9. CASE Execute
  BY <1>9 DEF Execute, At, To, Raise, silent
<1>10. CASE Pause
  BY <1>10, Telling DEF Pause, Rest
<1>11. CASE TellMerged
  BY <1>11, Telling DEF TellMerged, At, Rest, Raise
<1>12. CASE TellResult
  BY <1>12, Telling DEF TellResult, At, Rest
<1>13. CASE TellFailed
  BY <1>13, Telling DEF TellFailed, Rest
<1>14. ASSUME NEW action \in {"approve", "reject"}, Click(action)
      PROVE  TalkTyped'
  BY <1>14, ChatAssumption DEF Click
<1>15. CASE Expire
  BY <1>15, Telling DEF Expire
<1>16. CASE TokenExpires
  BY <1>16 DEF TokenExpires, runVars
<1>17. CASE Restart
  BY <1>17, ChatAssumption DEF Restart
<1>18. CASE UNCHANGED vars
  BY <1>18 DEF vars, chatVars, runVars
<1> QED
  BY <1>1, <1>2, <1>3, <1>4, <1>5, <1>6, <1>7, <1>8, <1>9,
     <1>10, <1>11, <1>12, <1>13, <1>14, <1>15, <1>16, <1>17, <1>18
     DEF Next

\* Who waits was asked, or could not be.
LEMMA CardsKept ==
    ASSUME RunTyped, TalkTyped, AskedFor, [Next]_vars
    PROVE  AskedFor'
<1> USE DEF AskedFor, Interrupts, Question, diagnoseVars, loopVars, Notices
<1>1. ASSUME NEW ch \in {"webhook", "socket"}, NEW m \in Messages, Ignore(ch, m)
      PROVE  AskedFor'
  BY <1>1 DEF Ignore, Request, _get_tenant_access_token, runVars
<1>2. ASSUME NEW ch \in {"webhook", "socket"}, NEW m \in Messages, Receive(ch, m)
      PROVE  AskedFor'
  BY <1>2 DEF Receive, Request, _get_tenant_access_token
<1>3. CASE Ingest
  BY <1>3 DEF Ingest, At, To, Raise, silent
<1>4. CASE Diagnosing
  BY <1>4 DEF Diagnosing, At, chatVars, runVars
<1>5. CASE Diagnosed
  BY <1>5 DEF Diagnosed, At, To, Raise, silent
<1>6. CASE send_diagnosis_card_node
  <2>1. trouble => trouble'
    BY <1>6, Sending DEF send_diagnosis_card_node, PostCard
  <2>2. asked \subseteq asked' /\ quoted' = quoted /\ summary' = summary
        /\ node' = "await_diagnosis_approval"
    BY <1>6 DEF send_diagnosis_card_node, PostCard, At, To
  <2>3. DiagnosisCard => "diagnosis" \in asked' \/ trouble'
    BY <1>6, Sending DEF send_diagnosis_card_node, PostCard, Outcomes
  <2>4. ~DiagnosisCard => "labels" \in quoted
    BY DEF DiagnosisCard, Loads, OnCard, RunTyped
  <2> QED
    BY <2>2, <2>3, <2>4
<1>7. CASE Propose
  BY <1>7 DEF Propose, At, To, Raise, silent
<1>8. CASE send_proposal_card_node
  <2>1. trouble => trouble'
    BY <1>8, Sending DEF send_proposal_card_node, PostCard
  <2>2. asked \subseteq asked' /\ quoted' = quoted /\ summary' = summary
        /\ node' = "await_proposal_approval"
    BY <1>8 DEF send_proposal_card_node, PostCard, At, To
  <2>3. PlanCard => "plan" \in asked' \/ trouble'
    BY <1>8, Sending DEF send_proposal_card_node, PostCard, Outcomes
  <2>4. ~PlanCard => "labels" \in quoted \/ "plan" \in quoted \/ summary.text.quoted
    BY DEF PlanCard, Loads, OnCard, RunTyped
  <2> QED
    BY <2>2, <2>3, <2>4
<1>9. CASE Execute
  BY <1>9 DEF Execute, At, To, Raise, silent
<1>10. CASE Pause
  BY <1>10, Telling DEF Pause, Rest
<1>11. CASE TellMerged
  BY <1>11, Telling DEF TellMerged, At, Rest, Raise
<1>12. CASE TellResult
  BY <1>12, Telling DEF TellResult, At, Rest
<1>13. CASE TellFailed
  BY <1>13, Telling DEF TellFailed, Rest
<1>14. ASSUME NEW action \in {"approve", "reject"}, Click(action)
      PROVE  AskedFor'
  BY <1>14 DEF Click
<1>15. CASE Expire
  BY <1>15, Telling DEF Expire
<1>16. CASE TokenExpires
  BY <1>16 DEF TokenExpires, runVars
<1>17. CASE Restart
  BY <1>17 DEF Restart, At
<1>18. CASE UNCHANGED vars
  BY <1>18 DEF vars, chatVars, runVars
<1> QED
  BY <1>1, <1>2, <1>3, <1>4, <1>5, <1>6, <1>7, <1>8, <1>9,
     <1>10, <1>11, <1>12, <1>13, <1>14, <1>15, <1>16, <1>17, <1>18
     DEF Next

\* Where a run has raised.
LEMMA PlacesOfErrors ==
    ASSUME RunTyped, TalkTyped, Excepting, [Next]_vars
    PROVE  Excepting'
<1> USE DEF Excepting, Interrupts, Notices
<1>1. ASSUME NEW ch \in {"webhook", "socket"}, NEW m \in Messages, Ignore(ch, m)
      PROVE  Excepting'
  BY <1>1 DEF Ignore, Request, _get_tenant_access_token, runVars
<1>2. ASSUME NEW ch \in {"webhook", "socket"}, NEW m \in Messages, Receive(ch, m)
      PROVE  Excepting'
  BY <1>2 DEF Receive, Request, _get_tenant_access_token
<1>3. CASE Ingest
  BY <1>3 DEF Ingest, At, To, Raise, silent
<1>4. CASE Diagnosing
  BY <1>4 DEF Diagnosing, At, chatVars, runVars
<1>5. CASE Diagnosed
  BY <1>5 DEF Diagnosed, At, To, Raise, silent
<1>6. CASE send_diagnosis_card_node
  BY <1>6, Sending DEF send_diagnosis_card_node, PostCard, At, To
<1>7. CASE Propose
  BY <1>7 DEF Propose, At, To, Raise, silent
<1>8. CASE send_proposal_card_node
  BY <1>8, Sending DEF send_proposal_card_node, PostCard, At, To
<1>9. CASE Execute
  BY <1>9 DEF Execute, At, To, Raise, silent
<1>10. CASE Pause
  BY <1>10, Telling DEF Pause, Rest
<1>11. CASE TellMerged
  BY <1>11, Telling DEF TellMerged, At, Rest, Raise
<1>12. CASE TellResult
  BY <1>12, Telling DEF TellResult, At, Rest
<1>13. CASE TellFailed
  BY <1>13, Telling DEF TellFailed, Rest
<1>14. ASSUME NEW action \in {"approve", "reject"}, Click(action)
      PROVE  Excepting'
  BY <1>14 DEF Click
<1>15. CASE Expire
  BY <1>15, Telling DEF Expire
<1>16. CASE TokenExpires
  BY <1>16 DEF TokenExpires, runVars
<1>17. CASE Restart
  BY <1>17 DEF Restart
<1>18. CASE UNCHANGED vars
  BY <1>18 DEF vars, chatVars, runVars
<1> QED
  BY <1>1, <1>2, <1>3, <1>4, <1>5, <1>6, <1>7, <1>8, <1>9,
     <1>10, <1>11, <1>12, <1>13, <1>14, <1>15, <1>16, <1>17, <1>18
     DEF Next

\* What is shown before the end.
LEMMA ShownKept ==
    ASSUME RunTyped, TalkTyped, ShownEarly, [Next]_vars
    PROVE  ShownEarly'
<1> USE DEF ShownEarly, Interrupts, RunTyped, Waiting, Notices
<1>1. ASSUME NEW ch \in {"webhook", "socket"}, NEW m \in Messages, Ignore(ch, m)
      PROVE  ShownEarly'
  BY <1>1 DEF Ignore, Request, _get_tenant_access_token, runVars
<1>2. ASSUME NEW ch \in {"webhook", "socket"}, NEW m \in Messages, Receive(ch, m)
      PROVE  ShownEarly'
  BY <1>2 DEF Receive, Request, _get_tenant_access_token
<1>3. CASE Ingest
  <2>1. UNCHANGED <<notice, known, busy>> /\ node # "none" /\ node # "END"
    BY <1>3 DEF Ingest, At, To, Raise, silent
  <2>2. how' \in {how, "excepting"} /\ node' # "none"
    BY <1>3 DEF Ingest, At, To, Raise, silent
  <2> QED
    BY <2>1, <2>2
<1>4. CASE Diagnosing
  BY <1>4 DEF Diagnosing, At, chatVars, runVars
<1>5. CASE Diagnosed
  <2>1. UNCHANGED <<notice, known, busy>> /\ node # "none" /\ node # "END"
    BY <1>5 DEF Diagnosed, At, To, Raise, silent
  <2>2. how' \in {how, "excepting"} /\ node' # "none"
    BY <1>5 DEF Diagnosed, At, To, Raise, silent
  <2> QED
    BY <2>1, <2>2
<1>6. CASE send_diagnosis_card_node
  BY <1>6, Sending DEF send_diagnosis_card_node, PostCard, At, To
<1>7. CASE Propose
  <2>1. UNCHANGED <<notice, known, busy>> /\ node # "none" /\ node # "END"
    BY <1>7 DEF Propose, At, To, Raise, silent
  <2>2. how' \in {how, "excepting"} /\ node' # "none"
    BY <1>7 DEF Propose, At, To, Raise, silent
  <2> QED
    BY <2>1, <2>2
<1>8. CASE send_proposal_card_node
  BY <1>8, Sending DEF send_proposal_card_node, PostCard, At, To
<1>9. CASE Execute
  <2>1. UNCHANGED <<notice, known, busy>> /\ node # "none" /\ node # "END"
    BY <1>9 DEF Execute, At, To, Raise, silent
  <2>2. how' \in {how, "excepting"} /\ node' # "none"
    BY <1>9 DEF Execute, At, To, Raise, silent
  <2> QED
    BY <2>1, <2>2
<1>10. CASE Pause
  BY <1>10, Telling DEF Pause, Rest
<1>11. CASE TellMerged
  BY <1>11, Telling DEF TellMerged, At, Rest, Raise
<1>12. CASE TellResult
  BY <1>12, Telling DEF TellResult, At, Rest
<1>13. CASE TellFailed
  BY <1>13, Telling DEF TellFailed, Rest
<1>14. ASSUME NEW action \in {"approve", "reject"}, Click(action)
      PROVE  ShownEarly'
  BY <1>14 DEF Click
<1>15. CASE Expire
  BY <1>15, Telling DEF Expire
<1>16. CASE TokenExpires
  BY <1>16 DEF TokenExpires, runVars
<1>17. CASE Restart
  BY <1>17 DEF Restart
<1>18. CASE UNCHANGED vars
  BY <1>18 DEF vars, chatVars, runVars
<1> QED
  BY <1>1, <1>2, <1>3, <1>4, <1>5, <1>6, <1>7, <1>8, <1>9,
     <1>10, <1>11, <1>12, <1>13, <1>14, <1>15, <1>16, <1>17, <1>18
     DEF Next

\* Every end is told, or could not be.
LEMMA EndsAreTold ==
    ASSUME RunTyped, TalkTyped, Excepting, EveryEndIsTold, [Next]_vars
    PROVE  EveryEndIsTold'
<1> USE DEF EveryEndIsTold, Interrupts, RunTyped, Waiting, Notices, Excepting
<1>1. ASSUME NEW ch \in {"webhook", "socket"}, NEW m \in Messages, Ignore(ch, m)
      PROVE  EveryEndIsTold'
  BY <1>1 DEF Ignore, Request, _get_tenant_access_token, runVars
<1>2. ASSUME NEW ch \in {"webhook", "socket"}, NEW m \in Messages, Receive(ch, m)
      PROVE  EveryEndIsTold'
  BY <1>2 DEF Receive, Request, _get_tenant_access_token
<1>3. CASE Ingest
  BY <1>3 DEF Ingest, At, To, Raise, silent
<1>4. CASE Diagnosing
  BY <1>4 DEF Diagnosing, At, chatVars, runVars
<1>5. CASE Diagnosed
  BY <1>5 DEF Diagnosed, At, To, Raise, silent
<1>6. CASE send_diagnosis_card_node
  BY <1>6, Sending DEF send_diagnosis_card_node, PostCard, At, To
<1>7. CASE Propose
  BY <1>7 DEF Propose, At, To, Raise, silent
<1>8. CASE send_proposal_card_node
  BY <1>8, Sending DEF send_proposal_card_node, PostCard, At, To
<1>9. CASE Execute
  BY <1>9 DEF Execute, At, To, Raise, silent
<1>10. CASE Pause
  BY <1>10, Telling DEF Pause, Rest
<1>11. CASE TellMerged
  BY <1>11, Telling DEF TellMerged, At, Rest, Raise
<1>12. CASE TellResult
  BY <1>12, Telling DEF TellResult, At, Rest
<1>13. CASE TellFailed
  BY <1>13, Telling DEF TellFailed, Rest
<1>14. ASSUME NEW action \in {"approve", "reject"}, Click(action)
      PROVE  EveryEndIsTold'
  BY <1>14 DEF Click
<1>15. CASE Expire
  BY <1>15, Telling DEF Expire
<1>16. CASE TokenExpires
  BY <1>16 DEF TokenExpires, runVars
<1>17. CASE Restart
  BY <1>17 DEF Restart
<1>18. CASE UNCHANGED vars
  BY <1>18 DEF vars, chatVars, runVars
<1> QED
  BY <1>1, <1>2, <1>3, <1>4, <1>5, <1>6, <1>7, <1>8, <1>9,
     <1>10, <1>11, <1>12, <1>13, <1>14, <1>15, <1>16, <1>17, <1>18
     DEF Next

LEMMA Initially == Init => Inductive
<1> SUFFICES ASSUME Init PROVE Inductive
  OBVIOUS
<1>1. LoopInductive
  BY LoopInitially DEF Init
<1>2. TypeOK
  <2>1. RunTyped
    BY DEF Init, RunTyped, ChatNodes, Hows
  <2>2. TalkTyped
    <3>1. clicks \in 0..MaxClicks /\ restarts \in 0..MaxRestarts
      BY ChatAssumption DEF Init
    <3>2. /\ asked \subseteq {"diagnosis", "plan"}
          /\ notice \in Notices
          /\ token \in {"none", "fresh", "expired"}
          /\ trouble \in BOOLEAN
      BY DEF Init, Notices
    <3> QED
      BY <3>1, <3>2 DEF TalkTyped
  <2> QED
    BY <1>1, <2>1, <2>2, TypeParts DEF LoopInductive
<1>3. AskedFor /\ Excepting /\ ShownEarly /\ EveryEndIsTold
  BY DEF Init, AskedFor, Excepting, ShownEarly, EveryEndIsTold, Interrupts
<1> QED
  BY <1>1, <1>2, <1>3 DEF Inductive

\* The inductive invariant holds in every behaviour.
LEMMA InductiveInvariant == Spec => []Inductive
<1>1. ASSUME Inductive, [Next]_vars PROVE Inductive'
  <2>1. LoopInductive /\ RunTyped /\ TalkTyped /\ AskedFor /\ Excepting /\ ShownEarly /\ EveryEndIsTold
    BY <1>1, TypeParts DEF Inductive
  <2>2. LoopInductive'
    BY <1>1, <2>1, RunsDiagnose, LoopIsInductive
  <2>3. RunTyped' /\ TalkTyped'
    BY <1>1, <2>1, RunIsTyped, TalkIsTyped
  <2>4. TypeOK'
    BY <2>2, <2>3 DEF LoopInductive, TypeOK, RunTyped, TalkTyped
  <2>5. AskedFor' /\ Excepting' /\ ShownEarly' /\ EveryEndIsTold'
    BY <1>1, <2>1, CardsKept, PlacesOfErrors, ShownKept, EndsAreTold
  <2> QED
    BY <2>2, <2>4, <2>5 DEF Inductive
<1> QED
  BY Initially, <1>1, PTL DEF Spec

-----------------------------------------------------------------------------
(* The theorems. *)

\* Every variable keeps its type, for any messages, plugins and bounds.
THEOREM TypeCorrect == Spec => []TypeOK
<1>1. Inductive => TypeOK
  BY DEF Inductive
<1> QED
  BY InductiveInvariant, <1>1, PTL

\* In a run: when the model is asked again every use of a tool is answered, in
\* order, in whatever order the tools ended (asyncio.gather in run_diagnose_loop).
THEOREM UsesAreAnswered == Spec => []EveryUseIsAnswered
<1>1. Inductive => EveryUseIsAnswered
  BY AnsweredMeansAnswered DEF Inductive
<1> QED
  BY InductiveInvariant, <1>1, PTL

\* In a run: an investigation ends with the finished answer that concludes it, or
\* with the first analysis once all its turns are used up; the first analysis itself
\* may be cut off (run_diagnose_loop).
THEOREM InvestigationsConclude == Spec => []InvestigationConcludes
<1>1. Inductive => InvestigationConcludes
  BY DEF Inductive, LoopInductive
<1> QED
  BY InductiveInvariant, <1>1, PTL

\* In a run: the evidence on the card is what the tools returned to the model
\* (run_diagnose_loop).
THEOREM EvidenceIsReturned == Spec => []EvidenceIsWhatReturned
<1>1. Inductive => EvidenceIsWhatReturned
  BY DEF Inductive, LoopInductive
<1> QED
  BY InductiveInvariant, <1>1, PTL

\* Whatever ends a run is told to the chat, unless Lark did not take a message or
\* the process died (the except clauses and the result cards of app/lark).
THEOREM EndsReachTheChat == Spec => []EveryEndIsTold
<1>1. Inductive => EveryEndIsTold
  BY DEF Inductive
<1> QED
  BY InductiveInvariant, <1>1, PTL

\* A run that waits has asked, unless a message was not delivered or a text with a
\* quote in it spoilt the card (await_*_approval.py, cards.py).
THEOREM WaitingRunsAsked == Spec => []WaitingIsAskedFor
<1>1. Inductive => WaitingIsAskedFor
  BY DEF Inductive, AskedFor, WaitingIsAskedFor, Waiting
<1> QED
  BY InductiveInvariant, <1>1, PTL

\* While a run waits the chat holds no result of it but the one that the path
\* through the database shows (_resume_workflow).
THEOREM ResultsComeLast == Spec => []ResultsAreFinal
<1>1. Inductive => ResultsAreFinal
  BY DEF Inductive, ShownEarly, Excepting, ResultsAreFinal, Waiting, Interrupts
<1> QED
  BY InductiveInvariant, <1>1, PTL

=============================================================================
