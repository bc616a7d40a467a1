--------------------------- MODULE Incidents_proofs ---------------------------
(***************************************************************************)
(* Proofs about Incidents, for any number of alerts, any fingerprints and  *)
(* any number of reports.                                                  *)
(*                                                                         *)
(* Inductive adds to the invariants what a session relies on between its   *)
(* query and its commit: that the incident an alert was found to be a      *)
(* duplicate of stays, that only its own alert creates an incident, and    *)
(* that what a search passed over is closed or too old from then on.       *)
(***************************************************************************)
EXTENDS Incidents, TLAPS

\* An incident has been created by its own alert, which works on it.
OwnWork ==
    /\ \A i \in DOMAIN incidents : phase[i] \in {"running", "done"} /\ found[i] = i
    /\ \A a \in Alerts : phase[a] = "inserting" => found[a] = a
    /\ \A a \in Alerts : phase[a] = "idle" => found[a] = a

\* The incident an alert was found to be a duplicate of is still there.
FoundStays ==
    \A a \in Alerts : phase[a] \in {"appending", "duplicate"} =>
        found[a] \in DOMAIN incidents /\ Fingerprint[found[a]] = Fingerprint[a]

\* What the alert of an incident saw when it searched, and passed over, is no
\* open incident of its fingerprint.
PassedOver ==
    \A j \in Alerts : phase[j] = "inserting" \/ j \in DOMAIN incidents =>
        \A i \in seen[j] : Fingerprint[i] = Fingerprint[j] =>
            i \in DOMAIN incidents /\ i \notin Open \ reopened

\* Only a report of its own run adds a diagnosis to an incident.
DiagnosesAreReports == \A i \in DOMAIN incidents : incidents[i].diagnoses <= reports[i]

\* The inductive invariant.
Inductive ==
    /\ TypeOK
    /\ OwnWork
    /\ FoundStays
    /\ PassedOver
    /\ EveryAlertIsRecorded
    /\ DiagnosesAreReports
    /\ ConsoleShowsTheRun

-----------------------------------------------------------------------------
(* What a save writes. *)

\* The result of a duplicate leaves the status and the diagnoses of the row it
\* found, and takes the tokens off it.
LEMMA DuplicateSaved ==
    ASSUME NEW row \in Incident
    PROVE  /\ Saved(row, DuplicateResult) \in Incident
           /\ Saved(row, DuplicateResult).status = row.status
           /\ Saved(row, DuplicateResult).recent = row.recent
           /\ Saved(row, DuplicateResult).diagnoses = row.diagnoses
<1>1. DuplicateResult.final_status = "none" /\ DuplicateResult.diagnosis_summary = FALSE
      /\ DuplicateResult.asked = FALSE
  BY DEF DuplicateResult
<1>2. row.diagnoses \in 0..MaxReports
  BY DEF Incident
<1>3. Diagnoses(row, DuplicateResult) = row.diagnoses
  BY <1>1, <1>2, IncidentsAssumption DEF Diagnoses
<1>4. Saved(row, DuplicateResult) = [row EXCEPT !.counted = FALSE]
  BY <1>1, <1>3 DEF Saved, Incident
<1> QED
  BY <1>4 DEF Incident

\* The result of a run adds a diagnosis and the tokens; no status is no change.
LEMMA ResultSaved ==
    ASSUME NEW row \in Incident, NEW fs \in FinalStatus
    PROVE  /\ Saved(row, Result(fs)).status = IF fs = "none" THEN row.status ELSE fs
           /\ Saved(row, Result(fs)).recent = row.recent
           /\ Saved(row, Result(fs)).counted
           /\ Saved(row, Result(fs)).diagnoses = row.diagnoses + 1
           /\ row.diagnoses < MaxReports => Saved(row, Result(fs)) \in Incident
<1>1. Result(fs).final_status = fs /\ Result(fs).diagnosis_summary = TRUE /\ Result(fs).asked = TRUE
  BY DEF Result
<1>2. row.diagnoses \in 0..MaxReports
  BY DEF Incident
<1>3. Diagnoses(row, Result(fs)) = row.diagnoses + 1
  BY <1>1 DEF Diagnoses
<1>4. Saved(row, Result(fs)) =
        [row EXCEPT !.status = IF fs = "none" THEN row.status ELSE fs,
                    !.counted = TRUE, !.diagnoses = row.diagnoses + 1]
  BY <1>1, <1>3 DEF Saved
<1>5. row.diagnoses < MaxReports => row.diagnoses + 1 \in 0..MaxReports
  BY <1>2, IncidentsAssumption
<1> QED
  BY <1>4, <1>5 DEF Incident, FinalStatus, Statuses

-----------------------------------------------------------------------------
(* The initial states and the steps. *)

LEMMA InitIsInductive == Init => Inductive
<1> SUFFICES ASSUME Init PROVE Inductive
  OBVIOUS
<1>1. TypeOK
  BY IncidentsAssumption DEF Init, TypeOK, Phases
<1>2. OwnWork /\ FoundStays /\ PassedOver
  BY DEF Init, OwnWork, FoundStays, PassedOver
<1>3. EveryAlertIsRecorded /\ DiagnosesAreReports /\ ConsoleShowsTheRun
  BY DEF Init, EveryAlertIsRecorded, DiagnosesAreReports, ConsoleShowsTheRun
<1> QED
  BY <1>1, <1>2, <1>3 DEF Inductive

\* Types are kept by every step of an alert's session or run.
LEMMA StepIsTyped ==
    ASSUME TypeOK, OwnWork, FoundStays, DiagnosesAreReports, [Next]_vars
    PROVE  TypeOK'
<1> USE IncidentsAssumption
<1>1. ASSUME NEW a \in Alerts, Search(a) PROVE TypeOK'
  BY <1>1 DEF TypeOK, Search, Matching, Phases
<1>2. ASSUME NEW a \in Alerts, Insert(a) PROVE TypeOK'
  BY <1>2 DEF TypeOK, Insert, WithRow, Events, Phases, Incident, Statuses
<1>3. ASSUME NEW a \in Alerts, AppendEvent(a) PROVE TypeOK'
  BY <1>3 DEF TypeOK, AppendEvent, Events, Phases
<1>4. ASSUME NEW a \in Alerts, RollBack(a) PROVE TypeOK'
  BY <1>4 DEF TypeOK, RollBack, Phases
<1>5. ASSUME NEW a \in Alerts, NEW fs \in FinalStatus, Report(a, fs) PROVE TypeOK'
  <2>1. UNCHANGED <<events, found, seen>> /\ reports' \in [Alerts -> 0..MaxReports]
    BY <1>5 DEF TypeOK, Report
  <2>2. phase' \in [Alerts -> Phases] /\ reopened' \subseteq Alerts
    BY <1>5 DEF TypeOK, Report, Phases
  <2>3. a \in DOMAIN incidents => Saved(incidents[a], Result(fs)) \in Incident
    <3> SUFFICES ASSUME a \in DOMAIN incidents PROVE Saved(incidents[a], Result(fs)) \in Incident
      OBVIOUS
    <3>1. incidents[a] \in Incident /\ reports[a] \in 0..MaxReports /\ reports[a] < MaxReports
      BY <1>5 DEF TypeOK, Report
    <3>2. incidents[a].diagnoses < MaxReports
      BY <3>1 DEF DiagnosesAreReports, Incident
    <3> QED
      BY <3>1, <3>2, ResultSaved
  <2>4. DOMAIN incidents' = DOMAIN incidents
    BY <1>5 DEF Report
  <2>5. \A i \in DOMAIN incidents : incidents'[i] \in Incident
    BY <1>5, <2>3 DEF TypeOK, Report
  <2> QED
    BY <2>1, <2>2, <2>4, <2>5 DEF TypeOK
<1>6. ASSUME NEW a \in Alerts, ReportDuplicate(a) PROVE TypeOK'
  <2>1. found[a] \in DOMAIN incidents /\ incidents[found[a]] \in Incident
    BY <1>6 DEF TypeOK, FoundStays, ReportDuplicate
  <2>2. Saved(incidents[found[a]], DuplicateResult) \in Incident
    BY <2>1, DuplicateSaved
  <2> QED
    BY <1>6, <2>1, <2>2 DEF TypeOK, ReportDuplicate, Phases
<1>7. ASSUME NEW i \in Alerts, GrowOld(i) PROVE TypeOK'
  BY <1>7 DEF TypeOK, GrowOld, Incident
<1>8. CASE UNCHANGED vars
  BY <1>8 DEF TypeOK, vars
<1> QED
  BY <1>1, <1>2, <1>3, <1>4, <1>5, <1>6, <1>7, <1>8 DEF Next, Step

\* No session creates an incident but the one of its own alert.
LEMMA OwnWorkKept ==
    ASSUME Inductive, [Next]_vars
    PROVE  OwnWork'
<1> USE DEF Inductive, OwnWork
<1>1. ASSUME NEW a \in Alerts, Search(a) PROVE OwnWork'
  BY <1>1 DEF TypeOK, Search, Matching
<1>2. ASSUME NEW a \in Alerts, Insert(a) PROVE OwnWork'
  BY <1>2 DEF TypeOK, Insert, WithRow
<1>3. ASSUME NEW a \in Alerts, AppendEvent(a) PROVE OwnWork'
  BY <1>3 DEF TypeOK, AppendEvent
<1>4. ASSUME NEW a \in Alerts, RollBack(a) PROVE OwnWork'
  BY <1>4 DEF TypeOK, RollBack
<1>5. ASSUME NEW a \in Alerts, NEW fs \in FinalStatus, Report(a, fs) PROVE OwnWork'
  BY <1>5 DEF TypeOK, Report
<1>6. ASSUME NEW a \in Alerts, ReportDuplicate(a) PROVE OwnWork'
  BY <1>6 DEF TypeOK, ReportDuplicate
<1>7. ASSUME NEW i \in Alerts, GrowOld(i) PROVE OwnWork'
  BY <1>7 DEF TypeOK, GrowOld
<1>8. CASE UNCHANGED vars
  BY <1>8 DEF vars
<1> QED
  BY <1>1, <1>2, <1>3, <1>4, <1>5, <1>6, <1>7, <1>8 DEF Next, Step

\* Incidents are never deleted, so what a session found is there when it commits.
LEMMA FoundStaysKept ==
    ASSUME Inductive, [Next]_vars
    PROVE  FoundStays'
<1> USE DEF Inductive, FoundStays
<1>1. ASSUME NEW a \in Alerts, Search(a) PROVE FoundStays'
  BY <1>1 DEF TypeOK, Search, Matching
<1>2. ASSUME NEW a \in Alerts, Insert(a) PROVE FoundStays'
  BY <1>2 DEF TypeOK, Insert, WithRow
<1>3. ASSUME NEW a \in Alerts, AppendEvent(a) PROVE FoundStays'
  BY <1>3 DEF TypeOK, AppendEvent
<1>4. ASSUME NEW a \in Alerts, RollBack(a) PROVE FoundStays'
  BY <1>4 DEF TypeOK, RollBack
<1>5. ASSUME NEW a \in Alerts, NEW fs \in FinalStatus, Report(a, fs) PROVE FoundStays'
  BY <1>5 DEF TypeOK, Report
<1>6. ASSUME NEW a \in Alerts, ReportDuplicate(a) PROVE FoundStays'
  BY <1>6 DEF TypeOK, ReportDuplicate
<1>7. ASSUME NEW i \in Alerts, GrowOld(i) PROVE FoundStays'
  BY <1>7 DEF TypeOK, GrowOld
<1>8. CASE UNCHANGED vars
  BY <1>8 DEF vars
<1> QED
  BY <1>1, <1>2, <1>3, <1>4, <1>5, <1>6, <1>7, <1>8 DEF Next, Step

\* A closed or old incident does not come back unless its run was driven twice.
LEMMA PassedOverKept ==
    ASSUME Inductive, [Next]_vars
    PROVE  PassedOver'
<1> USE DEF Inductive
<1>1. ASSUME NEW a \in Alerts, Search(a) PROVE PassedOver'
  <2>1. CASE phase'[a] = "inserting"
    <3>1. Matching(Fingerprint[a]) = {}
      BY <1>1, <2>1 DEF TypeOK, Search
    <3>2. \A i \in seen'[a] : Fingerprint[i] = Fingerprint[a] =>
             i \in DOMAIN incidents /\ i \notin Open
      BY <1>1, <3>1 DEF TypeOK, Search, Matching, Open
    <3> QED
      BY <1>1, <3>2 DEF TypeOK, Search, PassedOver, Open
  <2>2. CASE phase'[a] # "inserting"
    BY <1>1, <2>2 DEF TypeOK, Search, PassedOver, OwnWork, Open
  <2> QED
    BY <2>1, <2>2
<1>2. ASSUME NEW a \in Alerts, Insert(a) PROVE PassedOver'
  <2>1. a \notin DOMAIN incidents
    BY <1>2 DEF Insert, OwnWork
  <2>2. \A i \in DOMAIN incidents : incidents'[i] = incidents[i]
    BY <1>2, <2>1 DEF Insert, WithRow
  <2>3. DOMAIN incidents' = DOMAIN incidents \cup {a}
    BY <1>2 DEF Insert, WithRow
  <2> QED
    BY <1>2, <2>1, <2>2, <2>3 DEF TypeOK, Insert, PassedOver, Open
<1>3. ASSUME NEW a \in Alerts, AppendEvent(a) PROVE PassedOver'
  BY <1>3 DEF TypeOK, AppendEvent, PassedOver, Open
<1>4. ASSUME NEW a \in Alerts, RollBack(a) PROVE PassedOver'
  BY <1>4 DEF TypeOK, RollBack, PassedOver, Open
<1>5. ASSUME NEW a \in Alerts, NEW fs \in FinalStatus, Report(a, fs) PROVE PassedOver'
  <2>1. DOMAIN incidents' = DOMAIN incidents /\ seen' = seen /\ reopened \subseteq reopened'
    BY <1>5 DEF Report
  <2>2. \A j \in Alerts : phase'[j] = "inserting" => phase[j] = "inserting"
    BY <1>5 DEF TypeOK, Report
  <2>3. ASSUME NEW i \in Open' \ reopened' PROVE i \in Open \ reopened
    <3>1. i \in DOMAIN incidents /\ incidents[i] \in Incident /\ i \notin reopened
      BY <2>1 DEF Open, TypeOK
    <3>2. incidents'[i].recent = incidents[i].recent
      <4>1. incidents'[i] = incidents[i] \/ incidents'[i] = Saved(incidents[i], Result(fs))
        BY <1>5, <3>1 DEF Report
      <4> QED
        BY <3>1, <4>1, ResultSaved
    <3>3. incidents[i].status # "resolved"
      BY <1>5, <2>3, <3>1 DEF Report, Open
    <3> QED
      BY <2>3, <3>1, <3>2, <3>3 DEF Open
  <2> QED
    BY <2>1, <2>2, <2>3 DEF PassedOver
<1>6. ASSUME NEW a \in Alerts, ReportDuplicate(a) PROVE PassedOver'
  <2>1. DOMAIN incidents' = DOMAIN incidents /\ seen' = seen /\ reopened' = reopened
    BY <1>6 DEF ReportDuplicate
  <2>2. \A j \in Alerts : phase'[j] = "inserting" => phase[j] = "inserting"
    BY <1>6 DEF TypeOK, ReportDuplicate
  <2>3. \A i \in DOMAIN incidents : incidents'[i].recent = incidents[i].recent
                                  /\ incidents'[i].status = incidents[i].status
    <3> SUFFICES ASSUME NEW i \in DOMAIN incidents
                 PROVE  incidents'[i].recent = incidents[i].recent
                        /\ incidents'[i].status = incidents[i].status
      OBVIOUS
    <3>1. incidents[i] \in Incident
      BY DEF TypeOK
    <3>2. incidents'[i] = incidents[i] \/ incidents'[i] = Saved(incidents[i], DuplicateResult)
      BY <1>6 DEF ReportDuplicate
    <3> QED
      BY <3>1, <3>2, DuplicateSaved
  <2> QED
    BY <2>1, <2>2, <2>3 DEF PassedOver, Open
<1>7. ASSUME NEW i \in Alerts, GrowOld(i) PROVE PassedOver'
  BY <1>7 DEF TypeOK, GrowOld, PassedOver, Open
<1>8. CASE UNCHANGED vars
  BY <1>8 DEF vars, PassedOver, Open
<1> QED
  BY <1>1, <1>2, <1>3, <1>4, <1>5, <1>6, <1>7, <1>8 DEF Next, Step

\* A commit writes the event of its alert and of no other one.
LEMMA RecordKept ==
    ASSUME Inductive, [Next]_vars
    PROVE  EveryAlertIsRecorded'
<1> USE DEF Inductive, EveryAlertIsRecorded
<1>1. ASSUME NEW a \in Alerts, Search(a) PROVE EveryAlertIsRecorded'
  BY <1>1 DEF TypeOK, Search
<1>2. ASSUME NEW a \in Alerts, Insert(a) PROVE EveryAlertIsRecorded'
  BY <1>2 DEF TypeOK, OwnWork, Insert, WithRow
<1>3. ASSUME NEW a \in Alerts, AppendEvent(a) PROVE EveryAlertIsRecorded'
  BY <1>3 DEF TypeOK, FoundStays, AppendEvent
<1>4. ASSUME NEW a \in Alerts, RollBack(a) PROVE EveryAlertIsRecorded'
  BY <1>4 DEF TypeOK, RollBack
<1>5. ASSUME NEW a \in Alerts, NEW fs \in FinalStatus, Report(a, fs) PROVE EveryAlertIsRecorded'
  BY <1>5 DEF TypeOK, Report
<1>6. ASSUME NEW a \in Alerts, ReportDuplicate(a) PROVE EveryAlertIsRecorded'
  BY <1>6 DEF TypeOK, ReportDuplicate
<1>7. ASSUME NEW i \in Alerts, GrowOld(i) PROVE EveryAlertIsRecorded'
  BY <1>7 DEF TypeOK, GrowOld
<1>8. CASE UNCHANGED vars
  BY <1>8 DEF vars
<1> QED
  BY <1>1, <1>2, <1>3, <1>4, <1>5, <1>6, <1>7, <1>8 DEF Next, Step

\* A diagnosis is added by a report, and every report of the run counts.
LEMMA DiagnosesKept ==
    ASSUME Inductive, [Next]_vars
    PROVE  DiagnosesAreReports'
<1> USE DEF Inductive, DiagnosesAreReports
<1>1. ASSUME NEW a \in Alerts, Search(a) PROVE DiagnosesAreReports'
  BY <1>1 DEF Search
<1>2. ASSUME NEW a \in Alerts, Insert(a) PROVE DiagnosesAreReports'
  BY <1>2 DEF TypeOK, Insert, WithRow
<1>3. ASSUME NEW a \in Alerts, AppendEvent(a) PROVE DiagnosesAreReports'
  BY <1>3 DEF AppendEvent
<1>4. ASSUME NEW a \in Alerts, RollBack(a) PROVE DiagnosesAreReports'
  BY <1>4 DEF RollBack
<1>5. ASSUME NEW a \in Alerts, NEW fs \in FinalStatus, Report(a, fs) PROVE DiagnosesAreReports'
  <2>1. DOMAIN incidents' = DOMAIN incidents /\ reports' = [reports EXCEPT ![a] = @ + 1]
    BY <1>5 DEF Report
  <2>2. ASSUME NEW i \in DOMAIN incidents, i # a PROVE incidents'[i] = incidents[i]
    BY <1>5, <2>2 DEF Report
  <2>3. a \in DOMAIN incidents => /\ incidents[a] \in Incident
                                 /\ \/ incidents'[a] = incidents[a]
                                    \/ incidents'[a].diagnoses = incidents[a].diagnoses + 1
    <3>1. a \in DOMAIN incidents => incidents[a] \in Incident
      BY DEF TypeOK
    <3>2. a \in DOMAIN incidents => \/ incidents'[a] = incidents[a]
                                    \/ incidents'[a] = Saved(incidents[a], Result(fs))
      BY <1>5 DEF Report
    <3> QED
      BY <3>1, <3>2, ResultSaved
  <2> QED
    BY <2>1, <2>2, <2>3 DEF TypeOK, Incident
<1>6. ASSUME NEW a \in Alerts, ReportDuplicate(a) PROVE DiagnosesAreReports'
  <2>1. \A i \in DOMAIN incidents : incidents'[i].diagnoses = incidents[i].diagnoses
    <3> SUFFICES ASSUME NEW i \in DOMAIN incidents
                 PROVE  incidents'[i].diagnoses = incidents[i].diagnoses
      OBVIOUS
    <3>1. incidents[i] \in Incident
      BY DEF TypeOK
    <3>2. incidents'[i] = incidents[i] \/ incidents'[i] = Saved(incidents[i], DuplicateResult)
      BY <1>6 DEF ReportDuplicate
    <3> QED
      BY <3>1, <3>2, DuplicateSaved
  <2> QED
    BY <1>6, <2>1 DEF ReportDuplicate
<1>7. ASSUME NEW i \in Alerts, GrowOld(i) PROVE DiagnosesAreReports'
  BY <1>7 DEF TypeOK, GrowOld, Incident
<1>8. CASE UNCHANGED vars
  BY <1>8 DEF vars
<1> QED
  BY <1>1, <1>2, <1>3, <1>4, <1>5, <1>6, <1>7, <1>8 DEF Next, Step

\* The three columns the console shows move with the run, but for what a
\* duplicate overwrites.
LEMMA ConsoleKept ==
    ASSUME Inductive, [Next]_vars
    PROVE  ConsoleShowsTheRun'
<1>0. DiagnosesAreReports'
  BY DiagnosesKept
<1> USE <1>0 DEF Inductive, ConsoleShowsTheRun, Active, get_incident_raises
<1>1. ASSUME NEW a \in Alerts, Search(a) PROVE ConsoleShowsTheRun'
  <2>1. a \notin DOMAIN incidents /\ incidents' = incidents /\ reports' = reports
    BY <1>1 DEF OwnWork, Search
  <2>2. \A i \in DOMAIN incidents : phase'[i] = phase[i]
    BY <1>1, <2>1 DEF TypeOK, Search
  <2>3. \A b \in Alerts : phase[b] = "done" => phase'[b] = "done" /\ found'[b] = found[b]
    BY <1>1 DEF TypeOK, Search
  <2>4. \A b \in SavesAlways, i \in Alerts : phase[b] = "done" /\ found[b] = i =>
          phase'[b] = "done" /\ found'[b] = i
    BY <2>3, IncidentsAssumption
  <2> QED
    BY <2>1, <2>2, <2>4 DEF TypeOK
<1>2. ASSUME NEW a \in Alerts, Insert(a) PROVE ConsoleShowsTheRun'
  BY <1>2 DEF TypeOK, OwnWork, Insert, WithRow
<1>3. ASSUME NEW a \in Alerts, AppendEvent(a) PROVE ConsoleShowsTheRun'
  BY <1>3 DEF TypeOK, OwnWork, AppendEvent
<1>4. ASSUME NEW a \in Alerts, RollBack(a) PROVE ConsoleShowsTheRun'
  BY <1>4 DEF TypeOK, OwnWork, RollBack
<1>5. ASSUME NEW a \in Alerts, NEW fs \in FinalStatus, Report(a, fs) PROVE ConsoleShowsTheRun'
  <2> SUFFICES ASSUME NEW i \in DOMAIN incidents
               PROVE  /\ phase'[i] = "running" => incidents'[i].status = "new"
                      /\ incidents'[i].diagnoses > 1 => reports'[i] > 1
                      /\ incidents'[i].diagnoses > 0 /\ ~incidents'[i].counted =>
                           \E b \in SavesAlways : b # i /\ phase'[b] = "done" /\ found'[b] = i
    BY <1>5 DEF Report
  <2>1. i \in Alerts /\ incidents[i] \in Incident /\ found' = found
    BY <1>5 DEF TypeOK, Report
  <2>2. CASE i # a
    <3>1. incidents'[i] = incidents[i] /\ phase'[i] = phase[i] /\ reports'[i] = reports[i]
      BY <1>5, <2>1, <2>2 DEF TypeOK, Report
    <3>2. \A b \in Alerts : phase[b] = "done" => phase'[b] = "done"
      BY <1>5 DEF TypeOK, Report
    <3>3. \A b \in SavesAlways : phase[b] = "done" => phase'[b] = "done"
      BY <3>2, IncidentsAssumption
    <3> QED
      BY <2>1, <3>1, <3>3
  <2>3. CASE i = a
    <3>1. phase'[a] = "running" => phase[a] = "running" /\ fs = "none"
      BY <1>5 DEF TypeOK, Report, FinalStatus
    <3>2. reports'[a] = reports[a] + 1 /\ reports[a] \in Nat
      BY <1>5 DEF TypeOK, Report
    <3>3. incidents'[a] = incidents[a] \/ incidents'[a] = Saved(incidents[a], Result(fs))
      BY <1>5, <2>3 DEF Report
    <3>4. CASE incidents'[a] = incidents[a]
      <4>1. \A b \in SavesAlways : phase[b] = "done" => phase'[b] = "done"
        BY <1>5, IncidentsAssumption DEF TypeOK, Report
      <4> QED
        BY <2>1, <2>3, <3>1, <3>2, <3>4, <4>1
    <3>5. CASE incidents'[a] = Saved(incidents[a], Result(fs))
      <4>1. incidents'[a].counted
        BY <2>1, <2>3, <3>5, ResultSaved
      <4>2. fs = "none" => incidents'[a].status = incidents[a].status
        BY <2>1, <2>3, <3>5, ResultSaved
      <4>3. incidents'[a].diagnoses > 1 => reports'[a] > 1
        BY <2>1, <2>3, <3>2, <3>5, ResultSaved DEF Incident, DiagnosesAreReports
      <4> QED
        BY <2>3, <3>1, <4>1, <4>2, <4>3
    <3> QED
      BY <3>3, <3>4, <3>5
  <2> QED
    BY <2>2, <2>3
<1>6. ASSUME NEW a \in Alerts, ReportDuplicate(a) PROVE ConsoleShowsTheRun'
  <2> SUFFICES ASSUME NEW i \in DOMAIN incidents
               PROVE  /\ phase'[i] = "running" => incidents'[i].status = "new"
                      /\ incidents'[i].diagnoses > 1 => reports'[i] > 1
                      /\ incidents'[i].diagnoses > 0 /\ ~incidents'[i].counted =>
                           \E b \in SavesAlways : b # i /\ phase'[b] = "done" /\ found'[b] = i
    BY <1>6 DEF ReportDuplicate
  <2>1. i \in Alerts /\ incidents[i] \in Incident /\ i # a
    BY <1>6 DEF TypeOK, OwnWork, ReportDuplicate
  <2>2. UNCHANGED <<found, reports>> /\ phase'[i] = phase[i] /\ phase'[a] = "done"
    BY <1>6, <2>1 DEF TypeOK, ReportDuplicate
  <2>3. incidents'[i].status = incidents[i].status /\ incidents'[i].diagnoses = incidents[i].diagnoses
    <3>1. incidents'[i] = incidents[i] \/ incidents'[i] = Saved(incidents[i], DuplicateResult)
      BY <1>6 DEF ReportDuplicate
    <3> QED
      BY <2>1, <3>1, DuplicateSaved
  <2>4. incidents'[i] = incidents[i] \/ (a \in SavesAlways /\ found[a] = i)
    BY <1>6 DEF ReportDuplicate
  <2>5. \A b \in SavesAlways : phase[b] = "done" => phase'[b] = "done"
    BY <1>6, IncidentsAssumption DEF TypeOK, ReportDuplicate
  <2> QED
    BY <2>1, <2>2, <2>3, <2>4, <2>5
<1>7. ASSUME NEW i \in Alerts, GrowOld(i) PROVE ConsoleShowsTheRun'
  BY <1>7 DEF TypeOK, Incident, GrowOld
<1>8. CASE UNCHANGED vars
  BY <1>8 DEF vars
<1> QED
  BY <1>1, <1>2, <1>3, <1>4, <1>5, <1>6, <1>7, <1>8 DEF Next, Step

-----------------------------------------------------------------------------
(* The theorems. *)

\* The inductive invariant holds in every behaviour.
LEMMA InductiveInvariant == Spec => []Inductive
<1>1. Inductive /\ [Next]_vars => Inductive'
  BY StepIsTyped, OwnWorkKept, FoundStaysKept, PassedOverKept, RecordKept, DiagnosesKept,
     ConsoleKept DEF Inductive
<1> QED
  BY InitIsInductive, <1>1, PTL DEF Spec

\* For any number of alerts and reports, the tables and the sessions keep their
\* types (create_incident, save_workflow_result).
THEOREM TypeCorrect == Spec => []TypeOK
<1>1. Inductive => TypeOK
  BY DEF Inductive
<1> QED
  BY InductiveInvariant, <1>1, PTL

\* For any number of alerts and reports: a page that does not open is that of a
\* run that reported twice, a lost cost that of a saved duplicate (get_incident,
\* get_status).
THEOREM ConsoleIsRight == Spec => []ConsoleShowsTheRun
<1>1. Inductive => ConsoleShowsTheRun
  BY DEF Inductive
<1> QED
  BY InductiveInvariant, <1>1, PTL

\* For any number of alerts: whoever got past ingest is on record once, with an
\* incident of its own fingerprint (create_incident).
THEOREM AlertsAreRecorded == Spec => []EveryAlertIsRecorded
<1>1. Inductive => EveryAlertIsRecorded
  BY DEF Inductive
<1> QED
  BY InductiveInvariant, <1>1, PTL

\* For any number of alerts: two open incidents of one fingerprint come from two
\* sessions that overlapped (the query and the commit of create_incident).
THEOREM DuplicatesAreRaces == Spec => []OnlyRacesDuplicate
<1>1. Inductive => OnlyRacesDuplicate
  BY DEF Inductive, TypeOK, PassedOver, OnlyRacesDuplicate, Open
<1> QED
  BY InductiveInvariant, <1>1, PTL

\* A final status is never taken back (save_workflow_result keeps the status
\* of the row when the run has none).
THEOREM DecisionsStand == Spec => DecisionsLast
<1>1. ASSUME Inductive, [Next]_vars, NEW i \in DOMAIN incidents, incidents[i].status # "new"
      PROVE  incidents'[i].status # "new"
  <2>1. ASSUME NEW a \in Alerts, Search(a) PROVE incidents'[i].status # "new"
    BY <1>1, <2>1 DEF Search
  <2>2. ASSUME NEW a \in Alerts, Insert(a) PROVE incidents'[i].status # "new"
    BY <1>1, <2>2 DEF Inductive, OwnWork, Insert, WithRow
  <2>3. ASSUME NEW a \in Alerts, AppendEvent(a) PROVE incidents'[i].status # "new"
    BY <1>1, <2>3 DEF AppendEvent
  <2>4. ASSUME NEW a \in Alerts, RollBack(a) PROVE incidents'[i].status # "new"
    BY <1>1, <2>4 DEF RollBack
  <2>5. ASSUME NEW a \in Alerts, NEW fs \in FinalStatus, Report(a, fs)
        PROVE  incidents'[i].status # "new"
    <3>1. incidents[i] \in Incident
      BY <1>1 DEF Inductive, TypeOK
    <3>2. incidents'[i] = incidents[i] \/ incidents'[i] = Saved(incidents[i], Result(fs))
      BY <1>1, <2>5 DEF Report
    <3> QED
      BY <1>1, <3>1, <3>2, ResultSaved DEF FinalStatus
  <2>6. ASSUME NEW a \in Alerts, ReportDuplicate(a) PROVE incidents'[i].status # "new"
    <3>1. incidents[i] \in Incident
      BY <1>1 DEF Inductive, TypeOK
    <3>2. incidents'[i] = incidents[i] \/ incidents'[i] = Saved(incidents[i], DuplicateResult)
      BY <1>1, <2>6 DEF ReportDuplicate
    <3> QED
      BY <1>1, <3>1, <3>2, DuplicateSaved
  <2>7. ASSUME NEW j \in Alerts, GrowOld(j) PROVE incidents'[i].status # "new"
    BY <1>1, <2>7 DEF Inductive, TypeOK, Incident, GrowOld
  <2>8. CASE UNCHANGED vars
    BY <1>1, <2>8 DEF vars
  <2> QED
    BY <1>1, <2>1, <2>2, <2>3, <2>4, <2>5, <2>6, <2>7, <2>8 DEF Next, Step
<1>2. Inductive /\ [Next]_vars =>
        [\A i \in DOMAIN incidents : incidents[i].status # "new" => incidents'[i].status # "new"]_vars
  BY <1>1
<1> QED
  BY InductiveInvariant, <1>2, PTL DEF Spec, DecisionsLast

=============================================================================
