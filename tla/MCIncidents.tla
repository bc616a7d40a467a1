----------------------------- MODULE MCIncidents -----------------------------
(***************************************************************************)
(* A small instance of Incidents for TLC: three alerts with one text, the  *)
(* smallest number in which a race of two stops a third.                   *)
(***************************************************************************)
EXTENDS Incidents

OneText == [a \in Alerts |-> "text"]

=============================================================================
