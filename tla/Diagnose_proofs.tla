---------------------------- MODULE Diagnose_proofs ----------------------------
(***************************************************************************)
(* Proofs about Diagnose, for any plugins, texts, thresholds and bounds.   *)
(*                                                                         *)
(* LoopInductive adds to the invariants where the loop stands between two  *)
(* awaits: the answer whose tools are running is the last message, its     *)
(* uses are plugins of the registry, and what came before it is answered.  *)
(* A step of the diagnosis is one of the loop, or the loss of the          *)
(* coroutine, which the runs of module Chat add.                           *)
(***************************************************************************)
EXTENDS Diagnose, SequenceTheorems, TLAPS

DiagnoseStep == DiagnoseNext \/ Lost \/ UNCHANGED diagnoseVars

\* A turn that has begun is one of range(max_turns - 2).
Within ==
    phase \in {"idle", "analysing", "asking", "gathering"} => turn \in Nat /\ turn < MaxTurns - 2

\* Tools are only used after a doubtful analysis.
GuessWhileAsking ==
    phase \in {"asking", "gathering"} => confidence < Threshold /\ summary.turn_index = 1

\* Nothing has been found before the first turn.
Fresh == phase \in {"idle", "analysing"} => evidence = {}

\* The answer whose tools run is the last message.
AskedLast ==
    phase = "gathering" =>
        /\ messages # <<>>
        /\ Last(messages).role = "assistant"
        /\ Last(messages).turn_index = AnswerIndex(turn)
        /\ DOMAIN results = DOMAIN Asked
        /\ \A i \in DOMAIN Asked : Asked[i] \in Plugins

\* The uses of message p are answered right behind it.
AnsweredAt(ms, p) ==
    ms[p].role = "assistant" =>
        \A i \in DOMAIN ms[p].uses :
            /\ p + i \in DOMAIN ms
            /\ ms[p + i].role = "tool"
            /\ ms[p + i].use = i
            /\ ms[p + i].turn_index = ms[p].turn_index + 1

\* All but the answer whose tools run are answered.
AnsweredSoFar ==
    /\ phase = "asking" => \A p \in 1..Len(messages) : AnsweredAt(messages, p)
    /\ phase = "gathering" => \A p \in 1..(Len(messages) - 1) : AnsweredAt(messages, p)

\* The inductive invariant.
LoopInductive ==
    /\ DiagnoseTypeOK
    /\ Within
    /\ GuessWhileAsking
    /\ Fresh
    /\ AskedLast
    /\ AnsweredSoFar
    /\ InvestigationConcludes
    /\ EvidenceIsWhatReturned

-----------------------------------------------------------------------------
(* The helpers. *)

\* The fields of the three kinds of messages.
LEMMA Fields ==
    ASSUME NEW i, NEW us, NEW u, NEW o
    PROVE  /\ User(i).role = "user"
           /\ Assistant(i, us).role = "assistant"
           /\ Assistant(i, us).turn_index = i
           /\ Assistant(i, us).uses = us
           /\ Tool(i, u, o).role = "tool"
           /\ Tool(i, u, o).turn_index = i
           /\ Tool(i, u, o).use = u
           /\ Tool(i, u, o).outcome = o
  BY DEF User, Assistant, Tool

\* A list of uses names plugins, or what the model took for one.
LEMMA UsesAreNames ==
    ASSUME NEW uses \in UseLists
    PROVE  uses \in Seq(Names) /\ DOMAIN uses = 1..Len(uses)
<1>1. PICK n \in 0..MaxUses : uses \in [1..n -> Names]
  BY DEF UseLists
<1>2. n \in Nat
  BY <1>1, DiagnoseAssumption
<1>3. uses \in Seq(Names)
  BY <1>1, <1>2, SeqDef
<1> QED
  BY <1>3, LenProperties

\* The smaller of the number in a text and 100 is a number.
LEMMA SmallerIsInt ==
    ASSUME NEW n \in Nat
    PROVE  Min({n, 100}) \in Int
<1> DEFINE S == {n, 100}
<1>1. \E x \in S : \A y \in S : x <= y
  <2>1. CASE n <= 100
    BY <2>1
  <2>2. CASE 100 <= n
    BY <2>2
  <2> QED
    BY <2>1, <2>2
<1>2. Min(S) \in S
  BY <1>1, Zenon DEF Min
<1> QED
  BY <1>2

\* What is read in a text is a percentage.
LEMMA ConfidenceIsInt ==
    ASSUME NEW text \in Texts
    PROVE  _extract_confidence(text) \in Int
<1>1. CASE text.number = {}
  BY <1>1 DEF _extract_confidence
<1>2. CASE text.number # {}
  <2>1. PICK n \in text.number : TRUE
    BY <1>2
  <2>2. n \in Nat /\ text.number = {n}
    BY <2>1, DiagnoseAssumption
  <2>3. text.number \cup {100} = {n, 100}
    BY <2>2
  <2>4. _extract_confidence(text) = Min({n, 100})
    BY <1>2, <2>3 DEF _extract_confidence
  <2> QED
    BY <2>2, <2>4, SmallerIsInt
<1> QED
  BY <1>1, <1>2

\* The tools offered are plugins.
LEMMA OfferedArePlugins ==
    ASSUME NEW c \in Categories
    PROVE  _select_relevant_tools(c) \subseteq Plugins
<1>1. ToSet(Diagnostic) \subseteq Plugins
  BY DiagnoseAssumption DEF ToSet
<1> QED
  BY <1>1 DEF _select_relevant_tools, as_tool_specs

\* Every summary is one the model can have given.
LEMMA NoSummaryIsSummary == NoSummary \in Summary
<1>1. (CHOOSE t \in Texts : TRUE) \in Texts
  BY DiagnoseAssumption
<1> QED
  BY <1>1 DEF NoSummary, Summary, Stops

\* The messages of the tools are messages, one for each result.
LEMMA ToolMessagesAreMessages ==
    ASSUME DiagnoseTypeOK, Within, phase = "gathering", Ended
    PROVE  /\ ToolMessages \in Seq(Message)
           /\ Len(ToolMessages) = Len(results)
           /\ Len(results) \in Nat /\ DOMAIN results = 1..Len(results)
           /\ \A i \in 1..Len(results) : ToolMessages[i] = Tool(ToolIndex(turn), i, results[i])
<1>1. results \in Seq({"running", "output", "error"}) /\ turn \in Nat
  BY DEF DiagnoseTypeOK, Within
<1>2. Len(results) \in Nat /\ DOMAIN results = 1..Len(results)
  BY <1>1, LenProperties
<1>3. \A i \in 1..Len(results) : results[i] \in {"output", "error"}
  BY <1>1, <1>2, ElementOfSeq DEF Ended
<1>4. ToolIndex(turn) \in Nat
  BY <1>1 DEF ToolIndex
<1>5. \A i \in 1..Len(results) : Tool(ToolIndex(turn), i, results[i]) \in Message
  <2> SUFFICES ASSUME NEW i \in 1..Len(results)
               PROVE  Tool(ToolIndex(turn), i, results[i]) \in Message
    OBVIOUS
  <2>1. i \in Nat /\ <<>> \in Seq(Names)
    BY <1>2, EmptySeq
  <2> QED
    BY <1>3, <1>4, <2>1 DEF Tool, Message
<1>6. ToolMessages = [i \in 1..Len(results) |-> Tool(ToolIndex(turn), i, results[i])]
  BY <1>2 DEF ToolMessages
<1>7. ToolMessages \in [1..Len(results) -> Message]
  BY <1>5, <1>6
<1>8. ToolMessages \in Seq(Message)
  BY <1>2, <1>7, SeqDef
<1>9. Len(ToolMessages) = Len(results)
  BY <1>2, <1>7, <1>8, LenProperties
<1> QED
  BY <1>2, <1>6, <1>8, <1>9

\* An answer is a message.
LEMMA AnswerIsMessage ==
    ASSUME NEW t \in Nat, NEW uses \in UseLists
    PROVE  Assistant(AnswerIndex(t), uses) \in Message
<1>1. AnswerIndex(t) \in Nat /\ uses \in Seq(Names)
  BY UsesAreNames DEF AnswerIndex
<1> QED
  BY <1>1 DEF Assistant, Message

-----------------------------------------------------------------------------
(* The initial state and the steps. *)

LEMMA LoopInitially == DiagnoseInit => LoopInductive
<1> SUFFICES ASSUME DiagnoseInit PROVE LoopInductive
  OBVIOUS
<1>1. DiagnoseTypeOK
  <2>1. 0 \in 0..(MaxTurns - 2) /\ 0 \in 0..MaxToggles
    BY DiagnoseAssumption
  <2> QED
    BY <2>1, NoSummaryIsSummary, EmptySeq DEF DiagnoseInit, DiagnoseTypeOK, Phases
<1>2. Within /\ GuessWhileAsking /\ Fresh /\ AskedLast /\ AnsweredSoFar
  BY DiagnoseAssumption DEF DiagnoseInit, Within, GuessWhileAsking, Fresh, AskedLast, AnsweredSoFar
<1>3. InvestigationConcludes /\ EvidenceIsWhatReturned
  BY DEF DiagnoseInit, NoSummary, InvestigationConcludes, EvidenceIsWhatReturned
<1> QED
  BY <1>1, <1>2, <1>3 DEF LoopInductive

\* Types are kept by every step.
LEMMA LoopIsTyped ==
    ASSUME LoopInductive, DiagnoseStep
    PROVE  DiagnoseTypeOK'
<1> USE DiagnoseAssumption DEF LoopInductive
<1>1. CASE Start
  BY <1>1 DEF DiagnoseTypeOK, Start, Phases
<1>2. ASSUME NEW text \in Texts, NEW sr \in Stops, NEW c \in Categories, Analyse(text, sr, c)
      PROVE  DiagnoseTypeOK'
  <2>1. confidence' \in Int
    BY <1>2, ConfidenceIsInt DEF Analyse
  <2>2. summary' \in Summary
    BY <1>2 DEF Analyse, Summary
  <2>3. User(0) \in Message /\ Assistant(1, <<>>) \in Message /\ User(2) \in Message
    BY EmptySeq DEF User, Assistant, Message
  <2>4. messages' \in Seq(Message)
    <3>1. <<User(0), Assistant(1, <<>>)>> \in Seq(Message)
          /\ <<User(0), Assistant(1, <<>>), User(2)>> \in Seq(Message)
      BY <2>3
    <3>2. messages' = <<User(0), Assistant(1, <<>>)>>
          \/ messages' = <<User(0), Assistant(1, <<>>), User(2)>>
      BY <1>2 DEF Analyse
    <3> QED
      BY <3>1, <3>2
  <2>5. offered' \subseteq Plugins
    BY <1>2, OfferedArePlugins DEF Analyse, DiagnoseTypeOK
  <2>6. phase' \in Phases
    BY <1>2 DEF Analyse, Phases
  <2> QED
    BY <1>2, <2>1, <2>2, <2>4, <2>5, <2>6 DEF Analyse, DiagnoseTypeOK
<1>3. ASSUME NEW text \in Texts, NEW sr \in Stops, NEW uses \in UseLists, Answer(text, sr, uses)
      PROVE  DiagnoseTypeOK'
  <2>1. turn \in Nat /\ turn < MaxTurns - 2 /\ phase = "asking"
    BY <1>3 DEF Answer, Within
  <2>2. messages' \in Seq(Message)
    BY <1>3, <2>1, AnswerIsMessage, AppendProperties DEF Answer, DiagnoseTypeOK
  <2>3. summary' \in Summary
    <3>1. AnswerIndex(turn) \in Nat
      BY <2>1 DEF AnswerIndex
    <3> QED
      BY <1>3, <3>1 DEF Answer, Summarised, Summary, DiagnoseTypeOK
  <2>4. turn' \in 0..(MaxTurns - 2) /\ phase' \in Phases
    BY <1>3, <2>1 DEF Answer, NextTurn, Phases, DiagnoseTypeOK
  <2>5. results' \in Seq({"running", "output", "error"})
    <3>1. uses \in Seq(Names) /\ DOMAIN uses = 1..Len(uses) /\ Len(uses) \in Nat
      BY UsesAreNames, LenProperties
    <3>2. [i \in 1..Len(uses) |-> "running"] \in [1..Len(uses) -> {"running", "output", "error"}]
      OBVIOUS
    <3>3. [i \in DOMAIN uses |-> "running"] \in Seq({"running", "output", "error"})
      BY <3>1, <3>2, SeqDef
    <3> QED
      BY <1>3, <3>3 DEF Answer, NextTurn, DiagnoseTypeOK
  <2> QED
    BY <1>3, <2>2, <2>3, <2>4, <2>5 DEF Answer, DiagnoseTypeOK
<1>4. CASE CompleteRaises
  BY <1>4 DEF DiagnoseTypeOK, CompleteRaises, Phases
<1>5. CASE Gather
  <2>1. turn \in Nat /\ turn < MaxTurns - 2 /\ phase = "gathering" /\ Ended
    BY <1>5 DEF Gather, Within
  <2>2. turn' \in 0..(MaxTurns - 2) /\ phase' \in Phases
    BY <1>5, <2>1 DEF Gather, NextTurn, Phases
  <2>3. messages' \in Seq(Message)
    BY <1>5, <2>1, ToolMessagesAreMessages, ConcatProperties DEF Gather, DiagnoseTypeOK
  <2>4. Found \subseteq Use
    <3> SUFFICES ASSUME NEW i \in DOMAIN results
                 PROVE  [name |-> Asked[i], turn_index |-> ToolIndex(turn), use |-> i] \in Use
      BY DEF Found
    <3>1. Asked[i] \in Plugins
      BY <2>1 DEF AskedLast
    <3>2. i \in Nat
      BY <2>1, ToolMessagesAreMessages
    <3>3. ToolIndex(turn) \in Nat
      BY <2>1 DEF ToolIndex
    <3> QED
      BY <3>1, <3>2, <3>3 DEF Use
  <2>5. evidence' \subseteq Use /\ results' \in Seq({"running", "output", "error"})
    BY <1>5, <2>4, EmptySeq DEF Gather, DiagnoseTypeOK
  <2> QED
    BY <1>5, <2>2, <2>3, <2>5 DEF Gather, DiagnoseTypeOK
<1>6. CASE Return
  <2>1. summary' \in Summary
    BY <1>6, NoSummaryIsSummary DEF Return, Summary, DiagnoseTypeOK
  <2> QED
    BY <1>6, <2>1, EmptySeq DEF Return, Forget, DiagnoseTypeOK, Phases
<1>7. ASSUME NEW i \in DOMAIN results, NEW o \in {"output", "error"}, ToolEnds(i, o)
      PROVE  DiagnoseTypeOK'
  <2>1. results \in Seq({"running", "output", "error"}) /\ i \in 1..Len(results)
    BY LenProperties DEF DiagnoseTypeOK
  <2>2. [results EXCEPT ![i] = o] \in Seq({"running", "output", "error"})
    BY <2>1, ExceptSeq
  <2> QED
    BY <1>7, <2>2 DEF ToolEnds, DiagnoseTypeOK
<1>8. ASSUME NEW p \in Plugins, Toggle(p) PROVE DiagnoseTypeOK'
  BY <1>8 DEF Toggle, DiagnoseTypeOK, loopVars
<1>9. CASE Lost
  BY <1>9, NoSummaryIsSummary, EmptySeq DEF Lost, Forget, DiagnoseTypeOK, Phases
<1>10. CASE UNCHANGED diagnoseVars
  BY <1>10 DEF DiagnoseTypeOK, diagnoseVars, loopVars
<1> QED
  BY <1>1, <1>2, <1>3, <1>4, <1>5, <1>6, <1>7, <1>8, <1>9, <1>10
     DEF DiagnoseStep, DiagnoseNext, LoopStep

\* Where the loop stands, and that it looks into a guess.
LEMMA PlaceKept ==
    ASSUME LoopInductive, DiagnoseStep
    PROVE  Within' /\ GuessWhileAsking' /\ Fresh'
<1> USE DiagnoseAssumption DEF LoopInductive, Within, GuessWhileAsking, Fresh
<1>1. CASE Start
  BY <1>1 DEF Start
<1>2. ASSUME NEW text \in Texts, NEW sr \in Stops, NEW c \in Categories, Analyse(text, sr, c)
      PROVE  Within' /\ GuessWhileAsking' /\ Fresh'
  BY <1>2 DEF Analyse
<1>3. ASSUME NEW text \in Texts, NEW sr \in Stops, NEW uses \in UseLists, Answer(text, sr, uses)
      PROVE  Within' /\ GuessWhileAsking' /\ Fresh'
  <2>1. Within' /\ Fresh'
    BY <1>3 DEF Answer, NextTurn
  <2>2. GuessWhileAsking'
    BY <1>3 DEF Answer, Summarised
  <2> QED
    BY <2>1, <2>2
<1>4. CASE CompleteRaises
  BY <1>4 DEF CompleteRaises
<1>5. CASE Gather
  BY <1>5 DEF Gather, NextTurn
<1>6. CASE Return
  BY <1>6 DEF Return, Forget, NoSummary
<1>7. ASSUME NEW i \in DOMAIN results, NEW o \in {"output", "error"}, ToolEnds(i, o)
      PROVE  Within' /\ GuessWhileAsking' /\ Fresh'
  BY <1>7 DEF ToolEnds
<1>8. ASSUME NEW p \in Plugins, Toggle(p)
      PROVE  Within' /\ GuessWhileAsking' /\ Fresh'
  BY <1>8 DEF Toggle, loopVars
<1>9. CASE Lost
  BY <1>9 DEF Lost, Forget, NoSummary
<1>10. CASE UNCHANGED diagnoseVars
  BY <1>10 DEF diagnoseVars, loopVars
<1> QED
  BY <1>1, <1>2, <1>3, <1>4, <1>5, <1>6, <1>7, <1>8, <1>9, <1>10
     DEF DiagnoseStep, DiagnoseNext, LoopStep

\* How the loop has ended.
LEMMA ConclusionKept ==
    ASSUME LoopInductive, DiagnoseStep
    PROVE  InvestigationConcludes'
<1> USE DEF LoopInductive
<1>1. CASE phase' # "done"
  BY <1>1 DEF InvestigationConcludes
<1>2. ASSUME NEW text \in Texts, NEW sr \in Stops, NEW c \in Categories, Analyse(text, sr, c),
             phase' = "done"
      PROVE  InvestigationConcludes'
  BY <1>2 DEF Analyse, InvestigationConcludes
<1>3. ASSUME NEW text \in Texts, NEW sr \in Stops, NEW uses \in UseLists, Answer(text, sr, uses),
             phase' = "done"
      PROVE  InvestigationConcludes'
  <2>1. /\ phase = "asking" /\ turn \in Nat /\ turn < MaxTurns - 2
        /\ confidence < Threshold /\ summary.turn_index = 1
    BY <1>3 DEF Answer, Within, GuessWhileAsking
  <2>2. confidence' = confidence
    BY <1>3 DEF Answer
  <2>3. CASE sr = "end_turn"
    <3> DEFINE answer == Assistant(AnswerIndex(turn), uses)
    <3>1. summary'.turn_index = AnswerIndex(turn) /\ summary'.stop_reason = "end_turn"
      BY <1>3, <2>3 DEF Answer, Summarised
    <3>2. AnswerIndex(turn) # 1
      BY <2>1 DEF AnswerIndex
    <3>3. messages' = Append(messages, answer) /\ messages \in Seq(Message)
      BY <1>3 DEF Answer, DiagnoseTypeOK
    <3>4. Len(messages') = Len(messages) + 1 /\ messages'[Len(messages) + 1] = answer
      BY <3>3, AppendProperties
    <3>5. Last(messages') = answer
      BY <3>4 DEF Last
    <3>6. answer.role = "assistant" /\ answer.turn_index = AnswerIndex(turn)
      BY Fields
    <3> QED
      BY <2>1, <2>2, <3>1, <3>2, <3>5, <3>6 DEF InvestigationConcludes
  <2>4. CASE sr # "end_turn"
    <3>1. summary' = summary
      BY <1>3, <2>4 DEF Answer, Summarised
    <3>2. NextTurn
      BY <1>3, <2>4 DEF Answer
    <3>3. turn' = MaxTurns - 2
      BY <1>3, <2>1, <3>2, DiagnoseAssumption DEF NextTurn
    <3> QED
      BY <2>1, <3>1, <3>3 DEF InvestigationConcludes
  <2> QED
    BY <2>3, <2>4
<1>4. CASE Gather /\ phase' = "done"
  <2>1. /\ phase = "gathering" /\ turn \in Nat /\ turn < MaxTurns - 2 /\ summary.turn_index = 1
    BY <1>4 DEF Gather, Within, GuessWhileAsking
  <2>2. summary' = summary /\ NextTurn
    BY <1>4 DEF Gather
  <2>3. turn' = MaxTurns - 2
    BY <1>4, <2>1, <2>2, DiagnoseAssumption DEF NextTurn
  <2> QED
    BY <2>1, <2>2, <2>3 DEF InvestigationConcludes
<1>5. CASE UNCHANGED <<phase, turn, messages, confidence, summary>>
  BY <1>5 DEF InvestigationConcludes
<1> QED
  BY <1>1, <1>2, <1>3, <1>4, <1>5
     DEF DiagnoseStep, DiagnoseNext, LoopStep, Start, CompleteRaises, ToolEnds, Return, Lost,
         Toggle, diagnoseVars, loopVars

\* The loop waits for the tools of its last answer.
LEMMA AskedKept ==
    ASSUME LoopInductive, DiagnoseStep
    PROVE  AskedLast'
<1> USE DEF LoopInductive
<1>1. CASE phase' # "gathering"
  BY <1>1 DEF AskedLast
<1>2. ASSUME NEW text \in Texts, NEW sr \in Stops, NEW uses \in UseLists, Answer(text, sr, uses),
             phase' = "gathering"
      PROVE  AskedLast'
  <2> DEFINE answer == Assistant(AnswerIndex(turn), uses)
  <2>1. turn' = turn /\ turn \in Nat /\ messages \in Seq(Message) /\ uses \in Seq(Names)
    BY <1>2, UsesAreNames DEF Answer, NextTurn, Within, DiagnoseTypeOK
  <2>2. messages' = Append(messages, answer) /\ answer \in Message
    BY <1>2, <2>1, AnswerIsMessage DEF Answer
  <2>3. Len(messages') = Len(messages) + 1 /\ messages'[Len(messages')] = answer /\ messages' # <<>>
    BY <2>1, <2>2, AppendProperties
  <2>4. Last(messages') = answer
    BY <2>3 DEF Last
  <2>5. Asked' = uses
    BY <2>4, Fields DEF Asked
  <2>6. \A i \in DOMAIN uses : uses[i] \in Plugins
    <3> SUFFICES ASSUME NEW i \in DOMAIN uses PROVE uses[i] \in Plugins
      OBVIOUS
    <3>1. uses[i] \in Names
      BY UsesAreNames, ElementOfSeq
    <3>2. ~get_raises(uses[i])
      BY <1>2 DEF Answer, NextTurn, ToSet
    <3> QED
      BY <3>1, <3>2 DEF get_raises, Names
  <2>7. results' = [i \in DOMAIN uses |-> "running"]
    BY <1>2 DEF Answer, NextTurn
  <2> QED
    BY <2>1, <2>3, <2>4, <2>5, <2>6, <2>7, Fields DEF AskedLast
<1>3. ASSUME NEW i \in DOMAIN results, NEW o \in {"output", "error"}, ToolEnds(i, o)
      PROVE  AskedLast'
  BY <1>3 DEF ToolEnds, AskedLast, Asked
<1>4. CASE UNCHANGED diagnoseVars
  BY <1>4 DEF diagnoseVars, loopVars, AskedLast, Asked
<1> QED
  BY <1>1, <1>2, <1>3, <1>4
     DEF DiagnoseStep, DiagnoseNext, LoopStep, Start, Analyse, CompleteRaises, Gather, NextTurn,
         Return, Lost, Toggle, loopVars

\* The messages up to the last one keep the answers behind them.
LEMMA AnsweredInLonger ==
    ASSUME NEW ms \in Seq(Message), NEW more \in Seq(Message),
           NEW p \in 1..Len(ms), AnsweredAt(ms, p)
    PROVE  AnsweredAt(ms \o more, p)
<1>1. ms \o more \in Seq(Message) /\ Len(ms) \in Nat /\ Len(more) \in Nat
  BY ConcatProperties, LenProperties
<1>2. DOMAIN ms = 1..Len(ms) /\ DOMAIN (ms \o more) = 1..(Len(ms) + Len(more))
  BY <1>1, ConcatProperties, LenProperties
<1>3. \A q \in 1..Len(ms) : (ms \o more)[q] = ms[q]
  BY <1>1, ConcatProperties
<1> QED
  BY <1>1, <1>2, <1>3 DEF AnsweredAt

\* Where the messages of a longer conversation are.
LEMMA Longer ==
    ASSUME NEW ms \in Seq(Message), NEW more \in Seq(Message)
    PROVE  /\ Len(ms) \in Nat /\ Len(more) \in Nat
           /\ Len(ms \o more) = Len(ms) + Len(more)
           /\ DOMAIN (ms \o more) = 1..(Len(ms) + Len(more))
           /\ \A q \in 1..Len(ms) : (ms \o more)[q] = ms[q]
           /\ \A i \in 1..Len(more) : (ms \o more)[Len(ms) + i] = more[i]
<1>1. Len(ms) \in Nat /\ Len(more) \in Nat
  BY LenProperties
<1>2. Len(ms \o more) = Len(ms) + Len(more) /\ ms \o more \in Seq(Message)
  BY ConcatProperties
<1>3. \A q \in 1..(Len(ms) + Len(more)) :
        (ms \o more)[q] = IF q <= Len(ms) THEN ms[q] ELSE more[q - Len(ms)]
  BY ConcatProperties
<1>4. DOMAIN (ms \o more) = 1..(Len(ms) + Len(more))
  BY <1>2, LenProperties
<1>5. ASSUME NEW i \in 1..Len(more) PROVE (ms \o more)[Len(ms) + i] = more[i]
  <2>1. Len(ms) + i \in 1..(Len(ms) + Len(more)) /\ ~(Len(ms) + i <= Len(ms))
        /\ (Len(ms) + i) - Len(ms) = i
    BY <1>1
  <2> QED
    BY <1>3, <2>1
<1>6. \A q \in 1..Len(ms) : (ms \o more)[q] = ms[q]
  BY <1>1, <1>3
<1> QED
  BY <1>1, <1>2, <1>4, <1>5, <1>6

\* A result for each use of the last answer, in its place, answers it.
LEMMA AnsweredByResults ==
    ASSUME NEW ms \in Seq(Message), ms # <<>>, NEW more \in Seq(Message), NEW t \in Nat,
           \A p \in 1..(Len(ms) - 1) : AnsweredAt(ms, p),
           ms[Len(ms)].turn_index = AnswerIndex(t),
           DOMAIN ms[Len(ms)].uses = 1..Len(more),
           \A i \in 1..Len(more) :
              more[i].role = "tool" /\ more[i].use = i /\ more[i].turn_index = ToolIndex(t)
    PROVE  \A p \in 1..Len(ms \o more) : AnsweredAt(ms \o more, p)
<1>1. Len(ms) \in Nat /\ Len(ms) > 0 /\ Len(more) \in Nat
  BY EmptySeq, LenProperties
<1>2. Len(ms \o more) = Len(ms) + Len(more)
  BY Longer
<1>3. AnsweredAt(ms \o more, Len(ms))
  <2>1. ToolIndex(t) = AnswerIndex(t) + 1
    BY DEF ToolIndex, AnswerIndex
  <2>2. (ms \o more)[Len(ms)] = ms[Len(ms)]
    BY <1>1, Longer
  <2> DEFINE longer == ms \o more
             last == Len(ms)
  <2> HIDE DEF longer, last
  <2>5. longer[last].uses = ms[last].uses /\ longer[last].turn_index = ms[last].turn_index
    BY <2>2 DEF longer, last
  <2>6. DOMAIN longer[last].uses = 1..Len(more)
    BY <2>5 DEF last
  <2> SUFFICES ASSUME NEW i \in 1..Len(more)
               PROVE  /\ last + i \in DOMAIN longer
                      /\ longer[last + i].role = "tool"
                      /\ longer[last + i].use = i
                      /\ longer[last + i].turn_index = ms[last].turn_index + 1
    BY <2>5, <2>6 DEF AnsweredAt, longer, last
  <2> USE DEF longer, last
  <2>3. (ms \o more)[Len(ms) + i] = more[i]
    BY Longer
  <2>4. Len(ms) + i \in DOMAIN (ms \o more)
    BY <1>1, Longer
  <2> QED
    BY <2>1, <2>3, <2>4
<1>4. ASSUME NEW i \in 1..Len(more) PROVE AnsweredAt(ms \o more, Len(ms) + i)
  <2>1. (ms \o more)[Len(ms) + i].role = "tool"
    BY Longer
  <2> QED
    BY <2>1 DEF AnsweredAt
<1>5. ASSUME NEW p \in 1..Len(ms \o more) PROVE AnsweredAt(ms \o more, p)
  <2>1. CASE p < Len(ms)
    <3>1. p \in 1..(Len(ms) - 1) /\ p \in 1..Len(ms)
      BY <1>1, <2>1
    <3> QED
      BY <3>1, AnsweredInLonger
  <2>2. CASE p = Len(ms)
    BY <1>3, <2>2
  <2>3. CASE p > Len(ms)
    <3>1. p - Len(ms) \in 1..Len(more) /\ p = Len(ms) + (p - Len(ms))
      BY <1>1, <1>2, <2>3
    <3> QED
      BY <1>4, <3>1
  <2> QED
    BY <1>1, <2>1, <2>2, <2>3
<1> QED
  BY <1>5

\* Every use but those under way is answered in its place.
LEMMA AnsweredKept ==
    ASSUME LoopInductive, DiagnoseStep
    PROVE  AnsweredSoFar'
<1> USE DEF LoopInductive
<1>1. CASE phase' \notin {"asking", "gathering"}
  BY <1>1 DEF AnsweredSoFar
<1>2. ASSUME NEW text \in Texts, NEW sr \in Stops, NEW c \in Categories, Analyse(text, sr, c)
      PROVE  AnsweredSoFar'
  <2>1. CASE phase' = "asking"
    <3>1. messages' = <<User(0), Assistant(1, <<>>), User(2)>> /\ Len(messages') = 3
      BY <1>2, <2>1 DEF Analyse
    <3>2. \A p \in 1..3 : messages'[p].role = "assistant" => messages'[p].uses = <<>>
      <4>1. messages'[1] = User(0) /\ messages'[2] = Assistant(1, <<>>) /\ messages'[3] = User(2)
        BY <3>1
      <4>2. User(0).role # "assistant" /\ User(2).role # "assistant" /\ Assistant(1, <<>>).uses = <<>>
        BY Fields
      <4>3. \A p \in 1..3 : p = 1 \/ p = 2 \/ p = 3
        OBVIOUS
      <4> QED
        BY <4>1, <4>2, <4>3
    <3> QED
      BY <2>1, <3>1, <3>2 DEF AnsweredSoFar, AnsweredAt
  <2>2. CASE phase' # "asking"
    BY <1>2, <2>2 DEF Analyse, AnsweredSoFar
  <2> QED
    BY <2>1, <2>2
<1>3. ASSUME NEW text \in Texts, NEW sr \in Stops, NEW uses \in UseLists, Answer(text, sr, uses)
      PROVE  AnsweredSoFar'
  <2> DEFINE answer == Assistant(AnswerIndex(turn), uses)
  <2>1. phase = "asking" /\ turn \in Nat /\ messages \in Seq(Message)
    BY <1>3 DEF Answer, Within, DiagnoseTypeOK
  <2>2. answer \in Message /\ messages' = Append(messages, answer)
    BY <1>3, <2>1, AnswerIsMessage DEF Answer
  <2>3. messages' = messages \o <<answer>> /\ <<answer>> \in Seq(Message)
    BY <2>1, <2>2, AppendIsConcat
  <2>4. Len(messages') = Len(messages) + 1 /\ messages'[Len(messages')] = answer
        /\ Len(messages) \in Nat
    BY <2>1, <2>2, AppendProperties, LenProperties
  <2>5. \A p \in 1..Len(messages) : AnsweredAt(messages', p)
    BY <2>1, <2>3, AnsweredInLonger DEF AnsweredSoFar
  <2>6. CASE phase' = "gathering"
    BY <2>4, <2>5, <2>6 DEF AnsweredSoFar
  <2>7. CASE phase' = "asking"
    <3>1. uses = <<>>
      BY <1>3, <2>7 DEF Answer
    <3>2. AnsweredAt(messages', Len(messages'))
      BY <2>4, <3>1, Fields DEF AnsweredAt
    <3> QED
      BY <2>4, <2>5, <2>7, <3>2 DEF AnsweredSoFar
  <2> QED
    BY <1>1, <2>6, <2>7
<1>4. CASE Gather
  <2>1. phase = "gathering" /\ turn \in Nat /\ messages \in Seq(Message) /\ Ended
    BY <1>4 DEF Gather, Within, DiagnoseTypeOK
  <2>2. /\ messages' = messages \o ToolMessages
        /\ ToolMessages \in Seq(Message)
        /\ Len(ToolMessages) = Len(results)
        /\ Len(results) \in Nat /\ DOMAIN results = 1..Len(results)
        /\ \A i \in 1..Len(results) : ToolMessages[i] = Tool(ToolIndex(turn), i, results[i])
    BY <1>4, <2>1, ToolMessagesAreMessages DEF Gather
  <2>3. messages # <<>> /\ messages[Len(messages)].turn_index = AnswerIndex(turn)
        /\ DOMAIN messages[Len(messages)].uses = 1..Len(results)
    BY <2>1, <2>2 DEF AskedLast, Asked, Last
  <2>4. \A p \in 1..(Len(messages) - 1) : AnsweredAt(messages, p)
    BY <2>1 DEF AnsweredSoFar
  <2>5. \A i \in 1..Len(ToolMessages) :
          /\ ToolMessages[i].role = "tool"
          /\ ToolMessages[i].use = i
          /\ ToolMessages[i].turn_index = ToolIndex(turn)
    BY <2>2, Fields
  <2>6. \A p \in 1..Len(messages') : AnsweredAt(messages', p)
    BY <2>1, <2>2, <2>3, <2>4, <2>5, AnsweredByResults
  <2>7. phase' # "gathering"
    BY <1>4 DEF Gather, NextTurn
  <2> QED
    BY <2>6, <2>7 DEF AnsweredSoFar
<1>5. ASSUME NEW i \in DOMAIN results, NEW o \in {"output", "error"}, ToolEnds(i, o)
      PROVE  AnsweredSoFar'
  BY <1>5 DEF ToolEnds, AnsweredSoFar
<1>6. ASSUME NEW p \in Plugins, Toggle(p) PROVE AnsweredSoFar'
  BY <1>6 DEF Toggle, loopVars, AnsweredSoFar
<1>7. CASE UNCHANGED diagnoseVars
  BY <1>7 DEF diagnoseVars, loopVars, AnsweredSoFar
<1> QED
  BY <1>1, <1>2, <1>3, <1>4, <1>5, <1>6, <1>7
     DEF DiagnoseStep, DiagnoseNext, LoopStep, Start, CompleteRaises, Return, Lost

-----------------------------------------------------------------------------
(* What the tools returned. *)

\* The outputs in a conversation.
Outputs(ms) == {m \in ToSet(ms) : m.role = "tool" /\ m.outcome = "output"}

Places(ms) == {<<m.turn_index, m.use>> : m \in Outputs(ms)}

\* What a longer conversation holds.
LEMMA PlacesOfConcat ==
    ASSUME NEW ms \in Seq(Message), NEW more \in Seq(Message)
    PROVE  Places(ms \o more) = Places(ms) \cup Places(more)
<1>1. Len(ms) \in Nat /\ Len(more) \in Nat /\ DOMAIN ms = 1..Len(ms) /\ DOMAIN more = 1..Len(more)
  BY LenProperties
<1>2. DOMAIN (ms \o more) = 1..(Len(ms) + Len(more))
  BY Longer
<1>3. ToSet(ms \o more) \subseteq ToSet(ms) \cup ToSet(more)
  <2> SUFFICES ASSUME NEW q \in 1..(Len(ms) + Len(more))
               PROVE  (ms \o more)[q] \in ToSet(ms) \cup ToSet(more)
    BY <1>2 DEF ToSet
  <2>1. CASE q <= Len(ms)
    <3>1. q \in 1..Len(ms) /\ (ms \o more)[q] = ms[q]
      BY <1>1, <2>1, Longer
    <3> QED
      BY <1>1, <3>1 DEF ToSet
  <2>2. CASE q > Len(ms)
    <3>1. q - Len(ms) \in 1..Len(more) /\ q = Len(ms) + (q - Len(ms))
      BY <1>1, <2>2
    <3>2. (ms \o more)[q] = more[q - Len(ms)]
      BY <3>1, Longer
    <3> QED
      BY <1>1, <3>1, <3>2 DEF ToSet
  <2> QED
    BY <1>1, <2>1, <2>2
<1>4. ToSet(ms) \subseteq ToSet(ms \o more)
  <2> SUFFICES ASSUME NEW q \in 1..Len(ms) PROVE ms[q] \in ToSet(ms \o more)
    BY <1>1 DEF ToSet
  <2>1. (ms \o more)[q] = ms[q] /\ q \in DOMAIN (ms \o more)
    BY <1>1, <1>2, Longer
  <2> QED
    BY <2>1 DEF ToSet
<1>5. ToSet(more) \subseteq ToSet(ms \o more)
  <2> SUFFICES ASSUME NEW q \in 1..Len(more) PROVE more[q] \in ToSet(ms \o more)
    BY <1>1 DEF ToSet
  <2>1. Len(ms) + q \in DOMAIN (ms \o more) /\ (ms \o more)[Len(ms) + q] = more[q]
    BY <1>1, <1>2, Longer
  <2> QED
    BY <2>1 DEF ToSet
<1>6. Outputs(ms \o more) = Outputs(ms) \cup Outputs(more)
  BY <1>3, <1>4, <1>5 DEF Outputs
<1> QED
  BY <1>6 DEF Places

\* The places of the evidence.
Kept(es) == {<<e.turn_index, e.use>> : e \in es}

\* What a turn finds is what its messages hold.
LEMMA FoundIsReturned ==
    ASSUME DiagnoseTypeOK, Within, phase = "gathering", Ended
    PROVE  Kept(Found) = Places(ToolMessages)
<1> DEFINE good == {j \in 1..Len(results) : results[j] = "output"}
           places == {<<ToolIndex(turn), i>> : i \in good}
<1>1. /\ DOMAIN results = 1..Len(results) /\ Len(results) \in Nat
      /\ ToolMessages \in Seq(Message) /\ Len(ToolMessages) = Len(results)
      /\ \A i \in 1..Len(results) : ToolMessages[i] = Tool(ToolIndex(turn), i, results[i])
  BY ToolMessagesAreMessages
<1>2. DOMAIN ToolMessages = 1..Len(results)
  BY <1>1, LenProperties
<1>3. Kept(Found) = places
  <2>1. Found = {[name |-> Asked[i], turn_index |-> ToolIndex(turn), use |-> i] : i \in good}
    BY <1>1 DEF Found
  <2>2. \A x : x \in Kept(Found) <=> \E e \in Found : x = <<e.turn_index, e.use>>
    BY DEF Kept
  <2>3. \A x : x \in places <=> \E i \in good : x = <<ToolIndex(turn), i>>
    OBVIOUS
  <2>4. ASSUME NEW x \in Kept(Found) PROVE x \in places
    BY <2>1, <2>2, <2>3
  <2>5. ASSUME NEW x \in places PROVE x \in Kept(Found)
    <3>1. PICK i \in good : x = <<ToolIndex(turn), i>>
      BY <2>3
    <3>2. [name |-> Asked[i], turn_index |-> ToolIndex(turn), use |-> i] \in Found
      BY <2>1
    <3> QED
      BY <2>2, <3>1, <3>2
  <2> QED
    BY <2>4, <2>5
<1>4. \A i \in 1..Len(results) :
        /\ ToolMessages[i].role = "tool"
        /\ ToolMessages[i].outcome = results[i]
        /\ <<ToolMessages[i].turn_index, ToolMessages[i].use>> = <<ToolIndex(turn), i>>
  BY <1>1, Fields
<1>5. Outputs(ToolMessages) = {ToolMessages[i] : i \in good}
  BY <1>2, <1>4 DEF Outputs, ToSet
<1>6. Places(ToolMessages) = places
  BY <1>4, <1>5 DEF Places
<1> QED
  BY <1>3, <1>6

\* An answer holds no result.
LEMMA AnswerHoldsNothing ==
    ASSUME NEW t \in Nat, NEW uses \in UseLists
    PROVE  Places(<<Assistant(AnswerIndex(t), uses)>>) = {}
<1>1. ToSet(<<Assistant(AnswerIndex(t), uses)>>) = {Assistant(AnswerIndex(t), uses)}
  BY DEF ToSet
<1>2. Outputs(<<Assistant(AnswerIndex(t), uses)>>) = {}
  BY <1>1, Fields DEF Outputs
<1> QED
  BY <1>2 DEF Places

\* The evidence is kept with the messages it came in.
LEMMA EvidenceKept ==
    ASSUME LoopInductive, DiagnoseStep
    PROVE  EvidenceIsWhatReturned'
<1> DEFINE E == Kept(evidence) = Places(messages)
<1>0. (phase \in {"asking", "gathering", "done"} => E) /\ DiagnoseTypeOK /\ Within /\ Fresh
  BY DEF LoopInductive, EvidenceIsWhatReturned, Kept, Places, Outputs
<1> SUFFICES ASSUME phase' \in {"asking", "gathering", "done"} PROVE E'
  BY DEF EvidenceIsWhatReturned, Kept, Places, Outputs
<1> HIDE DEF E
<1>1. ASSUME NEW text \in Texts, NEW sr \in Stops, NEW c \in Categories, Analyse(text, sr, c)
      PROVE  E'
  <2>1. evidence' = {}
    BY <1>0, <1>1 DEF Analyse, Fresh
  <2>2. \A m \in ToSet(messages') : m.role # "tool"
    <3>1. messages' = <<User(0), Assistant(1, <<>>)>>
          \/ messages' = <<User(0), Assistant(1, <<>>), User(2)>>
      BY <1>1 DEF Analyse
    <3>2. ToSet(messages') \subseteq {User(0), Assistant(1, <<>>), User(2)}
      BY <3>1 DEF ToSet
    <3> QED
      <4>1. User(0).role # "tool" /\ Assistant(1, <<>>).role # "tool" /\ User(2).role # "tool"
        BY Fields
      <4> QED
        BY <3>2, <4>1
  <2>3. Outputs(messages') = {}
    BY <2>2 DEF Outputs
  <2> QED
    BY <2>1, <2>3 DEF E, Kept, Places
<1>2. ASSUME NEW text \in Texts, NEW sr \in Stops, NEW uses \in UseLists, Answer(text, sr, uses)
      PROVE  E'
  <2> DEFINE answer == Assistant(AnswerIndex(turn), uses)
  <2>1. phase = "asking" /\ turn \in Nat /\ messages \in Seq(Message) /\ evidence' = evidence
    BY <1>0, <1>2 DEF Answer, Within, DiagnoseTypeOK
  <2>2. answer \in Message /\ messages' = Append(messages, answer)
    BY <1>2, <2>1, AnswerIsMessage DEF Answer
  <2>3. messages' = messages \o <<answer>> /\ <<answer>> \in Seq(Message)
    BY <2>1, <2>2, AppendIsConcat
  <2>4. Places(messages \o <<answer>>) = Places(messages)
    <3>1. Places(messages \o <<answer>>) = Places(messages) \cup Places(<<answer>>)
      BY <2>1, <2>3, PlacesOfConcat
    <3>2. Places(<<answer>>) = {}
      BY <2>1, AnswerHoldsNothing
    <3> QED
      BY <3>1, <3>2
  <2> QED
    BY <1>0, <2>1, <2>3, <2>4 DEF E
<1>3. CASE Gather
  <2>1. phase = "gathering" /\ Ended /\ messages \in Seq(Message)
        /\ messages' = messages \o ToolMessages /\ evidence' = evidence \cup Found
    BY <1>0, <1>3 DEF Gather, DiagnoseTypeOK
  <2>2. Places(messages \o ToolMessages) = Places(messages) \cup Places(ToolMessages)
    BY <1>0, <2>1, ToolMessagesAreMessages, PlacesOfConcat
  <2>3. Kept(evidence \cup Found) = Kept(evidence) \cup Kept(Found)
    BY DEF Kept
  <2> QED
    BY <1>0, <2>1, <2>2, <2>3, FoundIsReturned DEF E
<1>4. ASSUME NEW i \in DOMAIN results, NEW o \in {"output", "error"}, ToolEnds(i, o) PROVE E'
  BY <1>0, <1>4 DEF ToolEnds, E
<1>5. ASSUME NEW p \in Plugins, Toggle(p) PROVE E'
  BY <1>0, <1>5 DEF Toggle, loopVars, E
<1>6. CASE UNCHANGED diagnoseVars
  BY <1>0, <1>6 DEF diagnoseVars, loopVars, E
<1> QED
  BY <1>1, <1>2, <1>3, <1>4, <1>5, <1>6
     DEF DiagnoseStep, DiagnoseNext, LoopStep, Start, CompleteRaises, Return, Lost

-----------------------------------------------------------------------------
(* The induction. *)

\* Every step of the diagnosis, and the loss of its coroutine, keeps the invariant.
LEMMA LoopIsInductive ==
    ASSUME LoopInductive, DiagnoseStep
    PROVE  LoopInductive'
BY LoopIsTyped, PlaceKept, ConclusionKept, AskedKept, AnsweredKept, EvidenceKept DEF LoopInductive

\* What the model is asked again with is answered.
LEMMA AnsweredMeansAnswered == LoopInductive => EveryUseIsAnswered
<1> SUFFICES ASSUME LoopInductive, phase = "asking"
             PROVE  \A p \in DOMAIN messages : AnsweredAt(messages, p)
  BY DEF EveryUseIsAnswered, AnsweredAt
<1>1. DOMAIN messages = 1..Len(messages)
  BY LenProperties DEF LoopInductive, DiagnoseTypeOK
<1> QED
  BY <1>1 DEF LoopInductive, AnsweredSoFar

\* A diagnosis by itself, for any plugins and any model: whatever the order of the
\* tools, the conversation is in order, the evidence is what they returned, and an
\* investigation ends with the answer that concludes it or with the first analysis,
\* as it is, when its turns are used up (run_diagnose_loop).
THEOREM DiagnosesAreSound ==
    DiagnoseSpec => [](EveryUseIsAnswered /\ InvestigationConcludes /\ EvidenceIsWhatReturned)
<1>1. LoopInductive /\ [DiagnoseNext]_diagnoseVars => LoopInductive'
  BY LoopIsInductive DEF DiagnoseStep
<1>2. LoopInductive => EveryUseIsAnswered /\ InvestigationConcludes /\ EvidenceIsWhatReturned
  BY AnsweredMeansAnswered DEF LoopInductive
<1> QED
  BY LoopInitially, <1>1, <1>2, PTL DEF DiagnoseSpec

=============================================================================
