------------------------------ MODULE Knowledge ------------------------------
(***************************************************************************)
(* An entry of the knowledge base and its history: KnowledgeService        *)
(* (app/knowledge/service.py) behind the routes of app/api/knowledge.py.   *)
(* Entries do not depend on each other, so one is enough.                  *)
(*                                                                         *)
(* Every request is a session of its own (READ COMMITTED, no autoflush):   *)
(* it reads, and later it flushes and commits. The UPDATE locks the row of *)
(* the entry, and readers see committed rows only, so that flush and       *)
(* commit are one step. The ORM writes the columns that differ from what   *)
(* it had read.                                                            *)
(***************************************************************************)
EXTENDS Integers

CONSTANTS
    Sessions,      \* the requests
    Fields,        \* the versioned columns: title, content, category, tags
    Nullable,      \* those that may be NULL: category
    Texts,         \* the values of a column
    Statuses,      \* of an entry: the API takes any
    None,          \* NULL in a row, "leave it" in a request
    MaxRevision    \* bound: revisions of the entry

ASSUME KnowledgeAssumption ==
    /\ Nullable \subseteq Fields
    /\ None \notin Texts
    /\ {"published", "review"} \subseteq Statuses /\ None \notin Statuses
    /\ MaxRevision \in Nat \ {0}

VARIABLES
    row,           \* "none" before it is created, "there", "deleted"
    content,       \* the versioned columns of the entry
    status,
    current,       \* current_revision
    revisions,     \* the rows of knowledge_revisions
    step,          \* where each request stands
    asked,         \* what it asks for
    loaded         \* the entry as it has read it

vars == <<row, content, status, current, revisions, step, asked, loaded>>

Versions == {c \in [Fields -> Texts \cup {None}] : \A f \in Fields \ Nullable : c[f] # None}

\* A request of PUT, or the revision a rollback goes back to.
Requests == [content : [Fields -> Texts \cup {None}], status : Statuses \cup {None}]
Entries  == [content : [Fields -> Texts \cup {None}], status : Statuses, current : 0..MaxRevision]

Steps == {"idle", "asked", "loaded", "checked", "done", "failed"}

\* fields: history, the columns that the edit changed.
Revisions == [number : 1..MaxRevision, content : Versions, fields : SUBSET Fields]

TypeOK ==
    /\ row \in {"none", "there", "deleted"}
    /\ content \in [Fields -> Texts \cup {None}]
    /\ row = "there" => content \in Versions
    /\ status \in Statuses
    /\ current \in 0..MaxRevision
    /\ revisions \subseteq Revisions
    /\ step \in [Sessions -> Steps]
    /\ asked \in [Sessions -> Requests]
    /\ loaded \in [Sessions -> Entries]

Nothing == [f \in Fields |-> None]

NoRequest == [content |-> Nothing, status |-> None]
NoEntry   == [content |-> Nothing, status |-> "published", current |-> 0]

Init ==
    /\ row = "none"
    /\ content = Nothing
    /\ status = "published"
    /\ current = 0
    /\ revisions = {}
    /\ step = [s \in Sessions |-> "idle"]
    /\ asked = [s \in Sessions |-> NoRequest]
    /\ loaded = [s \in Sessions |-> NoEntry]

entryVars == <<row, content, status, current, revisions>>

-----------------------------------------------------------------------------

\* create: the entry and its first revision are one transaction.
Create(c, st) ==
    /\ row = "none"
    /\ row' = "there"
    /\ content' = c
    /\ status' = st
    /\ current' = 1
    /\ revisions' = {[number |-> 1, content |-> c, fields |-> {}]}
    /\ UNCHANGED <<step, asked, loaded>>

\* A request reaches update.
Ask(s, c, st) ==
    /\ step[s] = "idle"
    /\ asked' = [asked EXCEPT ![s] = [content |-> c, status |-> st]]
    /\ step' = [step EXCEPT ![s] = "asked"]
    /\ UNCHANGED <<entryVars, loaded>>

\* rollback reads the revision and calls update with its columns; the status is
\* left alone.
AskRollback(s) == \E r \in revisions : Ask(s, r.content, None)

\* A request is over; what it held is gone with its session.
End(s, how) ==
    /\ step' = [step EXCEPT ![s] = how]
    /\ asked' = [asked EXCEPT ![s] = NoRequest]
    /\ loaded' = [loaded EXCEPT ![s] = NoEntry]

\* A defect the runs must notice: None is written like any value.
Differs_null(c, e) == {f \in Fields : c[f] # e[f]}

\* What an update changes of the entry it has read. None is "leave it".
Differs(c, e) == {f \in Fields : c[f] # None /\ c[f] # e[f]}

With(e, c, fs) == [f \in Fields |-> IF f \in fs THEN c[f] ELSE e[f]]

\* get: the entry as it is committed.
Load(s) ==
    /\ step[s] = "asked"
    /\ row = "there"
    /\ Differs(asked[s].content, content) # {} \/ asked[s].status # None
    /\ loaded' = [loaded EXCEPT ![s] =
                    [content |-> content, status |-> status, current |-> current]]
    /\ step' = [step EXCEPT ![s] = "loaded"]
    /\ UNCHANGED <<entryVars, asked>>

\* Nothing changes: the entry is returned as it is.
LeaveAsIs(s) ==
    /\ step[s] = "asked"
    /\ row = "there"
    /\ Differs(asked[s].content, content) = {} /\ asked[s].status = None
    /\ End(s, "done")
    /\ UNCHANGED entryVars

\* The revision of an edit: the entry as it was read, with the edit. A defect
\* the runs must notice keeps the entry as it was before.
Revision_before(e, c) ==
    [number |-> e.current + 1, content |-> e.content, fields |-> Differs(c, e.content)]

Revision(e, c) ==
    [number  |-> e.current + 1,
     content |-> With(e.content, c, Differs(c, e.content)),
     fields  |-> Differs(c, e.content)]

\* The unique index on (entry_id, revision_number), which the INSERT meets after
\* it has waited for the session that came first.
NumberIsFree_any(n) == TRUE

NumberIsFree(n) == \A r \in revisions : r.number # n

\* Flush and commit of an update: the columns that differ, the number after the
\* one that was read, and the revision.
Write(s) ==
    LET r  == Revision(loaded[s], asked[s].content)
        st == asked[s].status
    IN  /\ step[s] = "loaded"
        /\ row = "there"
        /\ r.number <= MaxRevision
        /\ NumberIsFree(r.number)
        /\ content' = With(content, asked[s].content, r.fields)
        /\ status' = IF st \in {None, loaded[s].status} THEN status ELSE st
        /\ current' = r.number
        /\ revisions' = revisions \cup {r}
        /\ UNCHANGED row
        /\ End(s, "done")

\* A 404, or the transaction is rolled back: the number is taken, the row is
\* gone, or the database fails.
Fail(s) ==
    /\ step[s] \in {"asked", "loaded", "checked"}
    /\ End(s, "failed")
    /\ UNCHANGED entryVars

\* delete: the revisions go with the entry.
Delete ==
    /\ row = "there"
    /\ row' = "deleted"
    /\ revisions' = {}
    /\ UNCHANGED <<content, status, current, step, asked, loaded>>

\* check_stale_entries: the query. An entry grows stale with time alone, since
\* nothing calls record_usage.
CheckStale(s) ==
    /\ step[s] = "idle"
    /\ row = "there" /\ status = "published"
    /\ step' = [step EXCEPT ![s] = "checked"]
    /\ UNCHANGED <<entryVars, asked, loaded>>

\* check_stale_entries: the flush, which writes the status the query has decided.
MarkReview(s) ==
    /\ step[s] = "checked"
    /\ row = "there"
    /\ status' = "review"
    /\ UNCHANGED <<row, content, current, revisions>>
    /\ End(s, "done")

Next ==
    \/ \E c \in Versions, st \in Statuses : Create(c, st)
    \/ \E s \in Sessions :
         \/ \E c \in [Fields -> Texts \cup {None}], st \in Statuses \cup {None} : Ask(s, c, st)
         \/ AskRollback(s) \/ Load(s) \/ LeaveAsIs(s) \/ Write(s) \/ Fail(s)
         \/ CheckStale(s) \/ MarkReview(s)
    \/ Delete

Spec == Init /\ [][Next]_vars

-----------------------------------------------------------------------------
(* Properties. *)

\* The history has one revision for each number up to the current one, and the
\* entry is what its last revision says, whoever edits at the same time.
EntryIsItsRevision ==
    row = "there" =>
        /\ {r.number : r \in revisions} = 1..current
        /\ \A r, q \in revisions : r.number = q.number => r = q
        /\ \E r \in revisions : r.number = current /\ r.content = content

\* A revision differs from the one before it in the columns its edit asked for
\* and in no other: two people who edit one entry at the same time never undo
\* each other's columns unseen.
EditsBuildOnTheLast ==
    \A r, q \in revisions : r.number = q.number + 1 =>
        \A f \in Fields : r.content[f] = q.content[f] <=> f \notin r.fields

\* When update returns an entry, its columns are as asked for: an edit or a
\* rollback that is confirmed was not overtaken between its query and its commit.
EditsTakeEffect ==
    [][\A s \in Sessions :
         step[s] \in {"asked", "loaded"} /\ step'[s] = "done" =>
             \A f \in Fields : asked[s].content[f] # None => content'[f] = asked[s].content[f]]_vars

=============================================================================
