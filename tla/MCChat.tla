------------------------------- MODULE MCChat -------------------------------
(***************************************************************************)
(* Instances for module Chat.                                              *)
(***************************************************************************)
EXTENDS Chat

Text(n, i, c, q) == [number |-> n, investigate |-> i, certain |-> c, quoted |-> q]

\* A confident text and one that asks for an investigation.
MCTexts == {Text({95}, "unsaid", FALSE, FALSE), Text({}, "yes", FALSE, TRUE)}

MCDiagnostic == <<"prom.query", "shell.exec">>
MCRelated == [k8s |-> <<{}>>, prom |-> <<{"prom.query"}>>]
MCCategories == DOMAIN MCRelated

Passage(ks, r) == [keys |-> ks, fires |-> TRUE, recovers |-> r]

Sent(t, ps) == [msg_type |-> t, sender_listed |-> TRUE, loads |-> TRUE, passages |-> ps]

\* An alert, a recovery, and a card that has its alert in the fields of an element.
MCMessages ==
    {Sent("text", {Passage({"text"}, FALSE)}),
     Sent("text", {Passage({"text"}, TRUE)}),
     Sent("interactive", {Passage({"elements", "fields", "text", "content"}, FALSE)})}

=============================================================================
