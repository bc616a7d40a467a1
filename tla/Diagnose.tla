------------------------------- MODULE Diagnose -------------------------------
(***************************************************************************)
(* One diagnosis: run_diagnose_loop (app/graph/nodes/diagnose.py), the     *)
(* conversation with the language model through app/llm, and the plugin    *)
(* registry the loop looks the tools up in.                                *)
(*                                                                         *)
(* The tools of one answer run concurrently and end in any order; people   *)
(* enable and disable plugins at any await. What the model says is any     *)
(* answer the client can return. Of a text only what is read in it is      *)
(* kept, of a conversation the order of its messages, which is that of the *)
(* record llm_turns, with the turn_index it has there.                     *)
(***************************************************************************)
EXTENDS Integers, Sequences, FiniteSetsExt, SequencesExt

CONSTANTS
    Plugins,       \* the names in the plugin registry
    Unknown,       \* names that are not, and the model may say
    Diagnostic,    \* the plugins of category "diagnostic", sorted by name
    Shell,         \* "shell.exec"
    Common,        \* k8s.list_pods, prom.query, loki.query
    Categories,    \* what triage calls the alert
    Related,       \* the plugins of each prefix that belongs to a category, in the code's order
    Texts,         \* what an answer may say
    Threshold,     \* diagnose_confidence_threshold, in percent
    MaxTools,      \* 6
    MaxTurns,      \* max_turns, 16
    MaxUses,       \* bound: tools asked for in one answer
    MaxToggles     \* bound: plugins enabled or disabled during the loop

ASSUME DiagnoseAssumption ==
    /\ Unknown \cap Plugins = {}
    /\ Diagnostic \in Seq(Plugins)
    /\ Common \subseteq Plugins
    /\ Related \in [Categories -> Seq(SUBSET Plugins)]
    /\ MaxTools \in Nat /\ MaxUses \in Nat /\ MaxToggles \in Nat
    /\ MaxTurns \in Nat /\ MaxTurns > 2
    /\ Texts # {}
    /\ \A t \in Texts : t.number \subseteq Nat /\ \A m, n \in t.number : m = n

VARIABLES
    phase,         \* where the loop stands
    turn,          \* turn_idx
    messages,      \* the conversation so far
    offered,       \* the tools that go with each request of phase 2
    results,       \* what became of the tools of the last answer
    evidence,      \* evidence: the results kept for the card
    confidence,    \* in percent
    summary,       \* preliminary_diagnosis, which becomes diagnosis_summary
    disabled,      \* PluginRegistry._disabled
    toggles

loopVars == <<phase, turn, messages, offered, results, evidence, confidence, summary>>
diagnoseVars == <<loopVars, disabled, toggles>>

Names  == Plugins \cup Unknown
Phases == {"idle", "analysing", "asking", "gathering", "done", "returned", "failed"}

\* stop_reason: only end_turn is told from the others (tool_use, max_tokens,
\* stop_sequence), for which tool_use stands.
Stops == {"end_turn", "tool_use"}

Message == [role : {"user", "assistant", "tool"}, turn_index : Nat,
            uses : Seq(Names), use : Nat, outcome : {"", "output", "error"}]

User(i)          == [role |-> "user", turn_index |-> i, uses |-> <<>>, use |-> 0, outcome |-> ""]
Assistant(i, us) == [role |-> "assistant", turn_index |-> i, uses |-> us, use |-> 0, outcome |-> ""]
Tool(i, u, o)    == [role |-> "tool", turn_index |-> i, uses |-> <<>>, use |-> u, outcome |-> o]

\* A tool's use is known by the answer that asked for it and its place there.
Use == [name : Plugins, turn_index : Nat, use : Nat]

Summary == [turn_index : Nat, stop_reason : Stops, text : Texts]

NoSummary == [turn_index |-> 0, stop_reason |-> "end_turn", text |-> CHOOSE t \in Texts : TRUE]

DiagnoseTypeOK ==
    /\ phase \in Phases
    /\ turn \in 0..(MaxTurns - 2)
    /\ messages \in Seq(Message)
    /\ offered \subseteq Plugins
    /\ results \in Seq({"running", "output", "error"})
    /\ evidence \subseteq Use
    /\ confidence \in Int
    /\ summary \in Summary
    /\ disabled \subseteq Plugins
    /\ toggles \in 0..MaxToggles

DiagnoseInit ==
    /\ phase = "idle"
    /\ turn = 0
    /\ messages = <<>>
    /\ offered = {}
    /\ results = <<>>
    /\ evidence = {}
    /\ confidence = 0
    /\ summary = NoSummary
    /\ disabled = {}
    /\ toggles = 0

-----------------------------------------------------------------------------

\* The diagnostic plugins that are not disabled; sorted, as Diagnostic is.
as_tool_specs == ToSet(Diagnostic) \ disabled

\* At most six tools: the shell, then those of the prefixes that belong to the
\* category, prefix by prefix and by name, then the common ones when that is next
\* to nothing. None twice.
_select_relevant_tools(category) ==
    LET prefixes == Related[category]
        enabled  == as_tool_specs
        shell    == enabled \cap {Shell}
        related  == enabled \cap UNION ToSet(prefixes)
        common   == IF Cardinality(shell) + Cardinality(related) <= 1 THEN enabled \cap Common ELSE {}
        selected == shell \cup related \cup common
        place(p) == IF p \in shell THEN 0
                    ELSE Min({i \in DOMAIN prefixes : p \in prefixes[i]} \cup {Len(prefixes) + 1})
        name(p)  == CHOOSE i \in DOMAIN Diagnostic : Diagnostic[i] = p
        before(p) == {q \in selected : \/ place(q) < place(p)
                                       \/ place(q) = place(p) /\ name(q) < name(p)}
    IN  {p \in selected : Cardinality(before(p)) < MaxTools}

\* Of a text: the number after its confidence label, if it has one; whether it
\* wants an investigation; whether the word "certain" is in it; whether a
\* double quote is. A number wins, even one above 1; a wish to
\* investigate is 0.4. "Certain" is found in "uncertain" as well.
_extract_confidence(text) ==
    IF text.number # {} THEN Min(text.number \cup {100})
    ELSE IF text.investigate = "yes" THEN 40
    ELSE IF text.investigate = "no" \/ text.certain THEN 90
    ELSE 50

\* PluginRegistry.get, whatever the category of the plugin and whether it was
\* offered or not.
get_raises(name) == name \in disabled \cup Unknown

-----------------------------------------------------------------------------

Start ==
    /\ phase = "idle"
    /\ phase' = "analysing"
    /\ UNCHANGED <<turn, messages, offered, results, evidence, confidence, summary, disabled, toggles>>

\* Phase 1: an answer without tools. Phase 2 follows when it is not confident.
Analyse(text, stop_reason, category) ==
    /\ phase = "analysing"
    /\ confidence' = _extract_confidence(text)
    /\ summary' = [turn_index |-> 1, stop_reason |-> stop_reason, text |-> text]
    /\ \/ /\ confidence' >= Threshold
          /\ phase' = "done"
          /\ messages' = <<User(0), Assistant(1, <<>>)>>
          /\ UNCHANGED offered
       \/ /\ confidence' < Threshold
          /\ phase' = "asking"
          /\ messages' = <<User(0), Assistant(1, <<>>), User(2)>>
          /\ offered' = _select_relevant_tools(category)
    /\ UNCHANGED <<turn, results, evidence, disabled, toggles>>

\* Defect the runs must notice: one turn more than the loop has.
NextTurn_late ==
    /\ turn' = turn + 1
    /\ phase' = IF turn' <= MaxTurns - 2 THEN "asking" ELSE "done"

\* The next turn, or the end of range(max_turns - 2).
NextTurn ==
    /\ turn' = turn + 1
    /\ phase' = IF turn' < MaxTurns - 2 THEN "asking" ELSE "done"

\* turn_index of an answer and of what its tools say.
AnswerIndex(t) == t * 2 + 3
ToolIndex(t)   == t * 2 + 4

\* Defect the runs must notice: whatever the model says last is the summary.
Summarised_always(text, stop_reason) ==
    summary' = [turn_index |-> AnswerIndex(turn), stop_reason |-> stop_reason, text |-> text]

\* Only a finished answer replaces the summary; the confidence stays as it was.
Summarised(text, stop_reason) ==
    summary' = IF stop_reason = "end_turn"
               THEN [turn_index |-> AnswerIndex(turn), stop_reason |-> stop_reason, text |-> text]
               ELSE summary

\* The answer ends the loop, asks for nothing, or asks for tools; the first
\* that the registry does not give out raises before any of them has run.
Answer(text, stop_reason, uses) ==
    /\ phase = "asking"
    /\ messages' = Append(messages, Assistant(AnswerIndex(turn), uses))
    /\ Summarised(text, stop_reason)
    /\ \/ /\ stop_reason = "end_turn"
          /\ phase' = "done"
          /\ UNCHANGED <<turn, results>>
       \/ /\ stop_reason # "end_turn" /\ uses = <<>>
          /\ NextTurn
          /\ UNCHANGED results
       \/ /\ stop_reason # "end_turn" /\ \E name \in ToSet(uses) : get_raises(name)
          /\ phase' = "failed"
          /\ UNCHANGED <<turn, results>>
       \/ /\ stop_reason # "end_turn" /\ uses # <<>>
          /\ \A name \in ToSet(uses) : ~get_raises(name)
          /\ phase' = "gathering"
          /\ results' = [i \in DOMAIN uses |-> "running"]
          /\ UNCHANGED turn
    /\ UNCHANGED <<offered, evidence, confidence, disabled, toggles>>

\* complete raises out of the node: a time limit, or the provider's refusal.
CompleteRaises ==
    /\ phase \in {"analysing", "asking"}
    /\ phase' = "failed"
    /\ UNCHANGED <<turn, messages, offered, results, evidence, confidence, summary, disabled, toggles>>

\* A tool returns, also to say that it failed, or raises. Nothing limits its time.
ToolEnds(i, outcome) ==
    /\ phase = "gathering"
    /\ results[i] = "running"
    /\ results' = [results EXCEPT ![i] = outcome]
    /\ UNCHANGED <<phase, turn, messages, offered, evidence, confidence, summary, disabled, toggles>>

Asked == Last(messages).uses

\* Defects the runs must notice: the results in the order in which the tools
\* ended, errors last; and errors kept as evidence.
ToolMessages_sorted ==
    SetToSortSeq({Tool(ToolIndex(turn), i, results[i]) : i \in DOMAIN results},
                 LAMBDA m, n : \/ m.outcome # n.outcome /\ m.outcome = "output"
                               \/ m.outcome = n.outcome /\ m.use < n.use)

\* One message for each tool, in the order they were asked for.
ToolMessages == [i \in DOMAIN results |-> Tool(ToolIndex(turn), i, results[i])]

Found_all == {[name |-> Asked[i], turn_index |-> ToolIndex(turn), use |-> i] : i \in DOMAIN results}

\* A result that says the tool failed is evidence too, an exception is not.
Found == {[name |-> Asked[i], turn_index |-> ToolIndex(turn), use |-> i] :
            i \in {j \in DOMAIN results : results[j] = "output"}}

\* Defect the runs must notice: an exception is waited for forever.
Ended_well == \A i \in DOMAIN results : results[i] = "output"

Ended == \A i \in DOMAIN results : results[i] # "running"

\* asyncio.gather is over: return_exceptions lets it end with exceptions too.
Gather ==
    /\ phase = "gathering"
    /\ Ended
    /\ messages' = messages \o ToolMessages
    /\ evidence' = evidence \cup Found
    /\ results' = <<>>
    /\ NextTurn
    /\ UNCHANGED <<offered, confidence, summary, disabled, toggles>>

\* The locals of the loop.
Forget ==
    /\ turn' = 0
    /\ messages' = <<>>
    /\ offered' = {}
    /\ results' = <<>>
    /\ evidence' = {}

\* diagnose_node: the result goes into the state of the graph, of the summary
\* only the text. The evidence is for the card.
Return ==
    /\ phase = "done"
    /\ phase' = "returned"
    /\ Forget
    /\ summary' = [NoSummary EXCEPT !.text = summary.text]
    /\ UNCHANGED <<confidence, disabled, toggles>>

\* The coroutine is gone with all it held.
Lost ==
    /\ phase' = "idle"
    /\ Forget
    /\ confidence' = 0
    /\ summary' = NoSummary
    /\ UNCHANGED <<disabled, toggles>>

\* enable or disable, from the console. While tools run nothing is looked up: a
\* plugin disabled then is no other than one disabled after them.
Toggle(p) ==
    /\ phase \in {"analysing", "asking"}
    /\ toggles < MaxToggles
    /\ toggles' = toggles + 1
    /\ disabled' = IF p \in disabled THEN disabled \ {p} ELSE disabled \cup {p}
    /\ UNCHANGED loopVars

UseLists == UNION {[1..n -> Names] : n \in 0..MaxUses}

\* A step of the loop that nothing but the loop's own awaits holds up.
LoopStep ==
    \/ \E text \in Texts, stop_reason \in Stops, c \in Categories : Analyse(text, stop_reason, c)
    \/ \E text \in Texts, stop_reason \in Stops, uses \in UseLists : Answer(text, stop_reason, uses)
    \/ CompleteRaises \/ Gather \/ Return

DiagnoseNext ==
    \/ Start
    \/ LoopStep
    \/ \E i \in DOMAIN results, outcome \in {"output", "error"} : ToolEnds(i, outcome)
    \/ \E p \in Plugins : Toggle(p)

DiagnoseSpec == DiagnoseInit /\ [][DiagnoseNext]_diagnoseVars

-----------------------------------------------------------------------------
(* Properties. *)

\* When the model is asked again, every use of a tool in each of its answers is
\* followed by its own result, in the order of the answer and before the next
\* one, whatever the order in which the tools ended.
EveryUseIsAnswered ==
    phase = "asking" =>
        \A p \in DOMAIN messages : messages[p].role = "assistant" =>
            \A i \in DOMAIN messages[p].uses :
                /\ p + i \in DOMAIN messages
                /\ messages[p + i].role = "tool"
                /\ messages[p + i].use = i
                /\ messages[p + i].turn_index = messages[p].turn_index + 1

\* The diagnosis the loop ends with is the first analysis only if that was confident
\* or every turn was used up without a finished answer. Otherwise it is the answer
\* with which the conversation ends and which the model finished, under the low
\* confidence of the guess it replaces. Of the first analysis the loop never reads
\* the stop_reason: one that was cut off is taken as it is.
InvestigationConcludes ==
    phase = "done" =>
        IF summary.turn_index = 1 THEN confidence >= Threshold \/ turn = MaxTurns - 2
        ELSE /\ summary.stop_reason = "end_turn"
             /\ confidence < Threshold
             /\ Last(messages).role = "assistant"
             /\ Last(messages).turn_index = summary.turn_index

\* The evidence is what the tools returned to the model, all of it, and no
\* exception is passed off as evidence.
EvidenceIsWhatReturned ==
    phase \in {"asking", "gathering", "done"} =>
        {<<e.turn_index, e.use>> : e \in evidence} =
        {<<m.turn_index, m.use>> : m \in {n \in ToSet(messages) : n.role = "tool" /\ n.outcome = "output"}}

\* A tool that has not returned holds the loop up.
Hanging == \E i \in DOMAIN results : results[i] = "running"

\* Stated by docs/guide/concepts.md: the model calls diagnostic plugins itself,
\* the others have to pass the policy first.
OnlyDiagnosticsRun == phase = "gathering" => ToSet(Asked) \subseteq ToSet(Diagnostic)

=============================================================================
