------------------------------ MODULE Incidents ------------------------------
(***************************************************************************)
(* The incident store: what create_incident (app/graph/nodes/ingest.py)    *)
(* makes of alerts with one fingerprint that arrive together, and what     *)
(* save_workflow_result and its twin _save_to_db write when a run reports. *)
(*                                                                         *)
(* A session is a READ COMMITTED transaction: its query sees the rows that *)
(* are committed, and its own rows appear when it commits. An incident     *)
(* goes by the alert that created it, so that its fingerprint is the       *)
(* alert's. Of a row only what is read or written again is kept.           *)
(***************************************************************************)
EXTENDS Integers, FiniteSets

CONSTANTS
    Alerts,        \* the alerts that arrive
    Fingerprint,   \* the fingerprint of each alert's text
    SavesAlways,   \* the alerts of the socket and of the API: saved even if duplicate
    MaxReports     \* bound: reports of one run

ASSUME IncidentsAssumption == MaxReports \in Nat /\ SavesAlways \subseteq Alerts

VARIABLES
    incidents,     \* the committed rows of table incidents
    events,        \* the committed rows of table incident_events
    phase,         \* where the alert's run stands
    found,         \* the incident_id in the run's state
    seen,          \* history: the incidents committed when the alert searched
    reopened,      \* history: the incidents that were resolved and are not any more
    reports        \* how often the alert's run has reported

vars == <<incidents, events, phase, found, seen, reopened, reports>>

Statuses    == {"new", "resolved", "escalated"}
FinalStatus == {"none", "resolved", "escalated"}

\* recent: created in the last 30 minutes. counted: whether llm_cost_tokens has
\* the tokens of its run. diagnoses: its rows in table diagnoses.
Incident == [status : Statuses, recent : BOOLEAN, counted : BOOLEAN, diagnoses : 0..MaxReports]

Events == [incident : Alerts, event_type : {"created", "duplicate_detected"}, alert : Alerts]

Phases == {"idle", "appending", "inserting", "running", "duplicate", "done", "failed"}

TypeOK ==
    /\ DOMAIN incidents \subseteq Alerts
    /\ \A i \in DOMAIN incidents : incidents[i] \in Incident
    /\ events \subseteq Events
    /\ phase \in [Alerts -> Phases]
    /\ found \in [Alerts -> Alerts]
    /\ seen \in [Alerts -> SUBSET Alerts]
    /\ reopened \subseteq Alerts
    /\ reports \in [Alerts -> 0..MaxReports]

Init ==
    /\ incidents = [i \in {} |-> i]
    /\ events = {}
    /\ phase = [a \in Alerts |-> "idle"]
    /\ found = [a \in Alerts |-> a]
    /\ seen = [a \in Alerts |-> {}]
    /\ reopened = {}
    /\ reports = [a \in Alerts |-> 0]

-----------------------------------------------------------------------------

\* Defects the runs must notice: a search for incidents nobody has reported on
\* yet, and a search without the cutoff.
Matching_new(f) ==
    {i \in DOMAIN incidents :
        Fingerprint[i] = f /\ incidents[i].recent /\ incidents[i].status = "new"}

Matching_ever(f) ==
    {i \in DOMAIN incidents : Fingerprint[i] = f /\ incidents[i].status # "resolved"}

\* The incidents an alert with fingerprint f is a duplicate of. An escalated
\* one still counts; "ignored" is a status nothing sets.
Matching(f) ==
    {i \in DOMAIN incidents :
        Fingerprint[i] = f /\ incidents[i].recent /\ incidents[i].status # "resolved"}

\* The query of create_incident; scalar_one_or_none raises on two rows.
Search(a) ==
    LET matching == Matching(Fingerprint[a])
    IN  /\ phase[a] = "idle"
        /\ seen' = [seen EXCEPT ![a] = DOMAIN incidents]
        /\ \/ /\ matching = {}
              /\ phase' = [phase EXCEPT ![a] = "inserting"]
              /\ UNCHANGED found
           \/ \E i \in matching :
                /\ matching = {i}
                /\ phase' = [phase EXCEPT ![a] = "appending"]
                /\ found' = [found EXCEPT ![a] = i]
           \/ /\ Cardinality(matching) > 1
              /\ phase' = [phase EXCEPT ![a] = "failed"]
              /\ UNCHANGED found
        /\ UNCHANGED <<incidents, events, reopened, reports>>

WithRow(a) ==
    [i \in DOMAIN incidents \cup {a} |->
        IF i = a THEN [status |-> "new", recent |-> TRUE, counted |-> FALSE, diagnoses |-> 0]
        ELSE incidents[i]]

\* Defect the runs must notice: the row without the event.
Insert_silent(a) ==
    /\ phase[a] = "inserting"
    /\ incidents' = WithRow(a)
    /\ phase' = [phase EXCEPT ![a] = "running"]
    /\ UNCHANGED <<events, found, seen, reopened, reports>>

\* The new row and its event are committed together.
Insert(a) ==
    /\ phase[a] = "inserting"
    /\ incidents' = WithRow(a)
    /\ events' = events \cup {[incident |-> a, event_type |-> "created", alert |-> a]}
    /\ phase' = [phase EXCEPT ![a] = "running"]
    /\ UNCHANGED <<found, seen, reopened, reports>>

\* The incident found gets an event; the graph then ends.
AppendEvent(a) ==
    /\ phase[a] = "appending"
    /\ events' = events \cup
         {[incident |-> found[a], event_type |-> "duplicate_detected", alert |-> a]}
    /\ phase' = [phase EXCEPT ![a] = "duplicate"]
    /\ UNCHANGED <<incidents, found, seen, reopened, reports>>

\* The session fails, or the process dies before the commit: rolled back.
RollBack(a) ==
    /\ phase[a] \in {"inserting", "appending"}
    /\ phase' = [phase EXCEPT ![a] = "failed"]
    /\ UNCHANGED <<incidents, events, found, seen, reopened, reports>>

\* What a report saves. The run of a new incident is past its diagnosis when it
\* reports; that of a duplicate has none and has asked the model nothing.
Result(final_status) ==
    [final_status |-> final_status, diagnosis_summary |-> TRUE, asked |-> TRUE]

DuplicateResult == [final_status |-> "none", diagnosis_summary |-> FALSE, asked |-> FALSE]

Diagnoses(row, result) == row.diagnoses + (IF result.diagnosis_summary THEN 1 ELSE 0)

\* Defects the runs must notice: the status is written although the run has
\* none yet, as nothing or as the first one.
Saved_raw(row, result) == [row EXCEPT !.status = result.final_status]

Saved_anyway(row, result) ==
    [row EXCEPT !.status = IF result.final_status = "none" THEN "new" ELSE result.final_status]

\* Both saves on the row they found: a status that is not there yet leaves the
\* row's, the tokens are written whatever they are, a diagnosis is added.
Saved(row, result) ==
    [row EXCEPT !.status = IF result.final_status = "none" THEN @ ELSE result.final_status,
                !.counted = result.asked,
                !.diagnoses = Diagnoses(row, result)]

\* The run of a new incident reports: at its end, while it is paused when it
\* was resumed from the database, and again when a second click drove the
\* thread as well. A save that fails is logged only.
Report(a, final_status) ==
    /\ phase[a] \in {"running", "done"}
    /\ found[a] = a
    /\ reports[a] < MaxReports
    /\ reports' = [reports EXCEPT ![a] = @ + 1]
    /\ phase' = [phase EXCEPT ![a] = IF final_status = "none" THEN @ ELSE "done"]
    /\ \/ /\ incidents' = [incidents EXCEPT ![a] = Saved(@, Result(final_status))]
          /\ reopened' = IF incidents[a].status = "resolved" /\ incidents'[a].status # "resolved"
                         THEN reopened \cup {a} ELSE reopened
       \/ UNCHANGED <<incidents, reopened>>
    /\ UNCHANGED <<events, found, seen>>

\* Defect the runs must notice: the webhook saves duplicates too.
ReportDuplicate_saved(a) ==
    /\ phase[a] = "duplicate"
    /\ phase' = [phase EXCEPT ![a] = "done"]
    /\ incidents' = [incidents EXCEPT ![found[a]] = Saved(@, DuplicateResult)]
    /\ UNCHANGED <<events, found, seen, reopened, reports>>

\* The run of a duplicate has nothing to report; the webhook says so in the
\* chat, the socket and the API save it as if it were a result.
ReportDuplicate(a) ==
    /\ phase[a] = "duplicate"
    /\ phase' = [phase EXCEPT ![a] = "done"]
    /\ \/ /\ a \in SavesAlways
          /\ incidents' = [incidents EXCEPT ![found[a]] = Saved(@, DuplicateResult)]
       \/ /\ a \notin SavesAlways
          /\ UNCHANGED incidents
    /\ UNCHANGED <<events, found, seen, reopened, reports>>

\* The 30 minutes of an incident pass.
GrowOld(i) ==
    /\ i \in DOMAIN incidents
    /\ incidents[i].recent
    /\ incidents' = [incidents EXCEPT ![i].recent = FALSE]
    /\ UNCHANGED <<events, phase, found, seen, reopened, reports>>

Step(a) ==
    \/ Search(a) \/ Insert(a) \/ AppendEvent(a) \/ RollBack(a)
    \/ ReportDuplicate(a)
    \/ \E final_status \in FinalStatus : Report(a, final_status)

Next == \E a \in Alerts : Step(a) \/ GrowOld(a)

Spec == Init /\ [][Next]_vars

\* Time passes for every incident.
FairSpec == Spec /\ \A i \in Alerts : WF_vars(GrowOld(i))

-----------------------------------------------------------------------------
(* Properties. *)

\* An alert that got past ingest is on record exactly once, with the incident
\* its run works on, and that is an incident of its own fingerprint: no
\* interleaving of sessions and no roll back loses or misfiles an alert.
EveryAlertIsRecorded ==
    \A a \in Alerts :
        LET own == {e \in events : e.alert = a}
        IN  IF phase[a] \in {"running", "duplicate", "done"}
            THEN /\ found[a] \in DOMAIN incidents
                 /\ Fingerprint[found[a]] = Fingerprint[a]
                 /\ \E t \in {"created", "duplicate_detected"} :
                      own = {[incident |-> found[a], event_type |-> t, alert |-> a]}
            ELSE own = {}

Open == {i \in DOMAIN incidents : incidents[i].recent /\ incidents[i].status # "resolved"}

\* Two open incidents of one fingerprint come from a race: neither was
\* committed when the alert of the other searched. The one other way is a run
\* that was driven twice and reported something else after "resolved".
OnlyRacesDuplicate ==
    \A i, j \in Open \ reopened :
        i # j /\ Fingerprint[i] = Fingerprint[j] => i \notin seen[j] /\ j \notin seen[i]

\* GET /incidents/{id}: scalar_one_or_none over the diagnoses of an incident.
get_incident_raises(i) == incidents[i].diagnoses > 1

\* GET /status: the incidents it counts as active.
Active == {i \in DOMAIN incidents : incidents[i].status = "new"}

\* What the console shows of an incident is its run: it is active while the run
\* goes on, its page opens unless the run reported twice, and the cost of a
\* diagnosis is lost only to a duplicate that the socket or the API saved.
ConsoleShowsTheRun ==
    \A i \in DOMAIN incidents :
        /\ phase[i] = "running" => i \in Active
        /\ get_incident_raises(i) => reports[i] > 1
        /\ incidents[i].diagnoses > 0 /\ ~incidents[i].counted =>
              \E a \in SavesAlways : a # i /\ phase[a] = "done" /\ found[a] = i

\* What was decided about an incident stays decided: neither a duplicate nor a
\* report of a run that is only paused takes a final status back.
DecisionsLast ==
    [][\A i \in DOMAIN incidents :
         incidents[i].status # "new" => incidents'[i].status # "new"]_vars

\* A race makes every further alert of its fingerprint fail in ingest, but not
\* for ever: the search finds its way again.
SearchRecovers ==
    \A f \in {Fingerprint[a] : a \in Alerts} : []<>(Cardinality(Matching(f)) <= 1)

=============================================================================
