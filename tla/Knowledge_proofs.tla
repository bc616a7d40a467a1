--------------------------- MODULE Knowledge_proofs ---------------------------
(***************************************************************************)
(* Theorems of Knowledge: for any requests, columns, texts and statuses,   *)
(* the unique index on the revision numbers makes concurrent edits of an   *)
(* entry safe.                                                             *)
(***************************************************************************)
EXTENDS Knowledge, TLAPS

USE KnowledgeAssumption

\* What a session knows between its query and its commit: the entry it has read
\* is one that was committed, and unless a revision was added since, it still is.
LoadedIsCommitted ==
    \A s \in Sessions : step[s] = "loaded" =>
        /\ row # "none"
        /\ loaded[s].current \in 1..current
        /\ loaded[s].current = current => loaded[s].content = content

\* Only an entry that is there has a history.
HistoryIsThere == row # "there" => revisions = {}

Inductive ==
    /\ TypeOK
    /\ EntryIsItsRevision
    /\ EditsBuildOnTheLast
    /\ LoadedIsCommitted
    /\ HistoryIsThere

-----------------------------------------------------------------------------

LEMMA InitIsInductive == Init => Inductive
<1> SUFFICES ASSUME Init PROVE Inductive
  OBVIOUS
<1> USE DEF Init
<1>1. TypeOK
  BY DEF TypeOK, Requests, Entries, Steps, NoRequest, NoEntry, Nothing
<1>2. EntryIsItsRevision /\ EditsBuildOnTheLast
  BY DEF EntryIsItsRevision, EditsBuildOnTheLast
<1>3. LoadedIsCommitted /\ HistoryIsThere
  BY DEF LoadedIsCommitted, HistoryIsThere
<1> QED
  BY <1>1, <1>2, <1>3 DEF Inductive

\* A request that ends leaves nothing untyped behind.
LEMMA EndIsTyped ==
    ASSUME TypeOK, NEW s \in Sessions, End(s, "done") \/ End(s, "failed")
    PROVE  /\ step' \in [Sessions -> Steps]
           /\ asked' \in [Sessions -> Requests]
           /\ loaded' \in [Sessions -> Entries]
<1>1. step' \in [Sessions -> Steps]
  BY DEF TypeOK, End, Steps
<1>2. NoRequest \in Requests /\ NoEntry \in Entries
  BY DEF NoRequest, NoEntry, Nothing, Requests, Entries
<1>3. asked' = [asked EXCEPT ![s] = NoRequest] /\ loaded' = [loaded EXCEPT ![s] = NoEntry]
  BY DEF End
<1> QED
  BY <1>1, <1>2, <1>3 DEF TypeOK

\* What makes an edit safe: a session whose number is still free has read the
\* entry as it is now, and its revision follows the last one.
LEMMA WriteFollowsTheLast ==
    ASSUME Inductive, NEW s \in Sessions, Write(s)
    PROVE  /\ loaded[s].current = current
           /\ loaded[s].content = content
           /\ Revision(loaded[s], asked[s].content).number = current + 1
           /\ current + 1 \in 1..MaxRevision
<1> DEFINE r == Revision(loaded[s], asked[s].content)
<1>1. /\ r.number = loaded[s].current + 1
      /\ r.number <= MaxRevision
      /\ NumberIsFree(r.number)
      /\ row = "there"
      /\ step[s] = "loaded"
  BY DEF Write, Revision
<1>2. loaded[s].current \in 1..current /\ current \in Nat
  BY <1>1 DEF Inductive, LoadedIsCommitted, TypeOK
<1>3. r.number \notin 1..current
  BY <1>1 DEF NumberIsFree, Inductive, EntryIsItsRevision
<1>4. loaded[s].current = current
  BY <1>1, <1>2, <1>3
<1> QED
  BY <1>1, <1>2, <1>4 DEF Inductive, LoadedIsCommitted

\* The entry after an edit is a legal one: what is written is never NULL.
LEMMA WithIsVersion ==
    ASSUME NEW e \in Versions, NEW c \in [Fields -> Texts \cup {None}]
    PROVE  With(e, c, Differs(c, e)) \in Versions
  BY DEF Versions, With, Differs

LEMMA WriteKeeps ==
    ASSUME Inductive, NEW s \in Sessions, Write(s)
    PROVE  Inductive'
<1> DEFINE c == asked[s].content
           r == Revision(loaded[s], c)
           fs == Differs(c, content)
<1>1. /\ loaded[s].current = current
      /\ loaded[s].content = content
      /\ current + 1 \in 1..MaxRevision
      /\ current \in Nat
  BY WriteFollowsTheLast DEF Inductive, TypeOK
<1>2. r = [number |-> current + 1, content |-> With(content, c, fs), fields |-> fs]
  BY <1>1 DEF Revision
<1>3. /\ row = "there" /\ row' = row
      /\ content' = With(content, c, fs)
      /\ current' = current + 1
      /\ revisions' = revisions \cup {r}
      /\ status' = IF asked[s].status \in {None, loaded[s].status} THEN status ELSE asked[s].status
      /\ End(s, "done")
  BY <1>2 DEF Write
<1>4. /\ content \in Versions
      /\ c \in [Fields -> Texts \cup {None}]
      /\ asked[s].status \in Statuses \cup {None}
  BY <1>3 DEF Inductive, TypeOK, Requests
<1>5. content' \in Versions
  BY <1>3, <1>4, WithIsVersion
<1>6. r \in Revisions /\ fs \subseteq Fields
  BY <1>1, <1>2, <1>3, <1>5 DEF Revisions, Differs
<1>7. TypeOK'
  <2>1. content' \in [Fields -> Texts \cup {None}]
    BY <1>5 DEF Versions
  <2>2. /\ step' \in [Sessions -> Steps]
        /\ asked' \in [Sessions -> Requests]
        /\ loaded' \in [Sessions -> Entries]
    BY <1>3, EndIsTyped DEF Inductive
  <2>3. status' \in Statuses
    BY <1>3, <1>4 DEF Inductive, TypeOK
  <2> QED
    BY <1>1, <1>3, <1>5, <1>6, <2>1, <2>2, <2>3 DEF Inductive, TypeOK
<1>8. EntryIsItsRevision'
  <2>1. {q.number : q \in revisions} = 1..current
    BY <1>3 DEF Inductive, EntryIsItsRevision
  <2>2. \A q \in revisions : q.number # current + 1
    BY <1>1, <2>1
  <2>3. {q.number : q \in revisions'} = {q.number : q \in revisions} \cup {current + 1}
    BY <1>2, <1>3
  <2>4. 1..(current + 1) = 1..current \cup {current + 1}
    BY <1>1
  <2>5. \A p, q \in revisions' : p.number = q.number => p = q
    BY <1>2, <1>3, <2>2 DEF Inductive, EntryIsItsRevision
  <2>6. r \in revisions' /\ r.number = current' /\ r.content = content'
    BY <1>2, <1>3
  <2> QED
    BY <1>3, <2>1, <2>3, <2>4, <2>5, <2>6 DEF EntryIsItsRevision
<1>9. EditsBuildOnTheLast'
  <2> SUFFICES ASSUME NEW p \in revisions', NEW q \in revisions',
                      p.number = q.number + 1, NEW f \in Fields
               PROVE  p.content[f] = q.content[f] <=> f \notin p.fields
    BY DEF EditsBuildOnTheLast
  <2>1. CASE p \in revisions /\ q \in revisions
    BY <2>1 DEF Inductive, EditsBuildOnTheLast
  <2>2. \A t \in revisions : t.number \in 1..current
    BY <1>3 DEF Inductive, EntryIsItsRevision
  <2>3. CASE p = r
    <3>1. q.number = current /\ q \in revisions
      BY <1>1, <1>2, <1>3, <2>2, <2>3
    <3>2. q.content = content
      BY <1>3, <3>1 DEF Inductive, EntryIsItsRevision
    <3>3. p.content[f] = IF f \in fs THEN c[f] ELSE content[f]
      BY <1>2, <2>3 DEF With
    <3> QED
      BY <1>2, <2>3, <3>2, <3>3 DEF Differs
  <2>4. CASE q = r /\ p # r
    BY <1>1, <1>2, <1>3, <2>2, <2>4
  <2> QED
    BY <1>3, <2>1, <2>3, <2>4
<1>10. LoadedIsCommitted'
  <2> SUFFICES ASSUME NEW w \in Sessions, step'[w] = "loaded"
               PROVE  /\ loaded'[w].current \in 1..current'
                      /\ loaded'[w].current # current'
    BY <1>3 DEF LoadedIsCommitted
  <2>1. w # s /\ step[w] = "loaded" /\ loaded'[w] = loaded[w]
    BY <1>3 DEF Inductive, TypeOK, End
  <2>2. loaded[w].current \in 1..current
    BY <2>1 DEF Inductive, LoadedIsCommitted
  <2> QED
    BY <1>1, <1>3, <2>1, <2>2
<1>11. HistoryIsThere'
  BY <1>3 DEF HistoryIsThere
<1> QED
  BY <1>7, <1>8, <1>9, <1>10, <1>11 DEF Inductive

\* The steps that leave the entry and its history alone.
LEMMA SessionKeeps ==
    ASSUME Inductive, NEW s \in Sessions, UNCHANGED entryVars,
           \/ \E c \in [Fields -> Texts \cup {None}], st \in Statuses \cup {None} : Ask(s, c, st)
           \/ AskRollback(s) \/ Load(s) \/ LeaveAsIs(s) \/ Fail(s) \/ CheckStale(s)
    PROVE  Inductive'
<1> USE DEF entryVars
<1>1. EntryIsItsRevision' /\ EditsBuildOnTheLast' /\ HistoryIsThere'
  BY DEF Inductive, EntryIsItsRevision, EditsBuildOnTheLast, HistoryIsThere
<1>2. CASE \E c \in [Fields -> Texts \cup {None}], st \in Statuses \cup {None} : Ask(s, c, st)
  <2> PICK c \in [Fields -> Texts \cup {None}], st \in Statuses \cup {None} : Ask(s, c, st)
    BY <1>2
  <2>1. TypeOK'
    BY DEF Ask, Inductive, TypeOK, Requests, Steps
  <2>2. LoadedIsCommitted'
    BY DEF Ask, Inductive, TypeOK, LoadedIsCommitted
  <2> QED
    BY <1>1, <2>1, <2>2 DEF Inductive
<1>3. CASE AskRollback(s)
  <2> PICK r \in revisions : Ask(s, r.content, None)
    BY <1>3 DEF AskRollback
  <2>0. r.content \in [Fields -> Texts \cup {None}]
    BY DEF Inductive, TypeOK, Revisions, Versions
  <2>1. TypeOK'
    BY <2>0 DEF Ask, Inductive, TypeOK, Requests, Steps
  <2>2. LoadedIsCommitted'
    BY DEF Ask, Inductive, TypeOK, LoadedIsCommitted
  <2> QED
    BY <1>1, <2>1, <2>2 DEF Inductive
<1>4. CASE Load(s)
  <2>1. TypeOK'
    BY <1>4 DEF Load, Inductive, TypeOK, Entries, Steps
  <2>2. current \in 1..current
    <3>1. current \in {r.number : r \in revisions}
      BY <1>4 DEF Load, Inductive, EntryIsItsRevision
    <3> QED
      BY <3>1 DEF Inductive, TypeOK, Revisions
  <2>3. LoadedIsCommitted'
    BY <1>4, <2>2 DEF Load, Inductive, TypeOK, LoadedIsCommitted
  <2> QED
    BY <1>1, <2>1, <2>3 DEF Inductive
<1>5. CASE LeaveAsIs(s) \/ Fail(s)
  <2>0. End(s, "done") \/ End(s, "failed")
    BY <1>5 DEF LeaveAsIs, Fail
  <2>1. TypeOK'
    BY <2>0, EndIsTyped DEF Inductive, TypeOK
  <2>2. LoadedIsCommitted'
    BY <2>0 DEF End, Inductive, TypeOK, LoadedIsCommitted
  <2> QED
    BY <1>1, <2>1, <2>2 DEF Inductive
<1>6. CASE CheckStale(s)
  <2>1. TypeOK'
    BY <1>6 DEF CheckStale, Inductive, TypeOK, Steps
  <2>2. LoadedIsCommitted'
    BY <1>6 DEF CheckStale, Inductive, TypeOK, LoadedIsCommitted
  <2> QED
    BY <1>1, <2>1, <2>2 DEF Inductive
<1> QED
  BY <1>2, <1>3, <1>4, <1>5, <1>6

\* The entry comes, goes, and is marked for review.
LEMMA EntryKeeps ==
    ASSUME Inductive,
           \/ \E c \in Versions, st \in Statuses : Create(c, st)
           \/ Delete
           \/ \E s \in Sessions : MarkReview(s)
    PROVE  Inductive'
<1>1. CASE \E c \in Versions, st \in Statuses : Create(c, st)
  <2> PICK c \in Versions, st \in Statuses : Create(c, st)
    BY <1>1
  <2> USE DEF Create
  <2>1. TypeOK'
    BY DEF Inductive, TypeOK, Revisions, Versions
  <2>2. EntryIsItsRevision' /\ EditsBuildOnTheLast'
    BY DEF EntryIsItsRevision, EditsBuildOnTheLast
  <2>3. LoadedIsCommitted' /\ HistoryIsThere'
    BY DEF Inductive, LoadedIsCommitted, HistoryIsThere
  <2> QED
    BY <2>1, <2>2, <2>3 DEF Inductive
<1>2. CASE Delete
  <2> USE <1>2 DEF Delete
  <2>1. TypeOK'
    BY DEF Inductive, TypeOK
  <2>2. EntryIsItsRevision' /\ EditsBuildOnTheLast'
    BY DEF EntryIsItsRevision, EditsBuildOnTheLast
  <2>3. LoadedIsCommitted' /\ HistoryIsThere'
    BY DEF Inductive, LoadedIsCommitted, HistoryIsThere
  <2> QED
    BY <2>1, <2>2, <2>3 DEF Inductive
<1>3. ASSUME NEW s \in Sessions, MarkReview(s) PROVE Inductive'
  <2> USE <1>3 DEF MarkReview, End
  <2>1. TypeOK'
    BY EndIsTyped DEF Inductive, TypeOK
  <2>2. EntryIsItsRevision' /\ EditsBuildOnTheLast'
    BY DEF Inductive, EntryIsItsRevision, EditsBuildOnTheLast
  <2>3. LoadedIsCommitted' /\ HistoryIsThere'
    BY DEF Inductive, TypeOK, LoadedIsCommitted, HistoryIsThere
  <2> QED
    BY <2>1, <2>2, <2>3 DEF Inductive
<1> QED
  BY <1>1, <1>2, <1>3

LEMMA StepIsInductive == Inductive /\ [Next]_vars => Inductive'
<1> SUFFICES ASSUME Inductive, [Next]_vars PROVE Inductive'
  OBVIOUS
<1>1. CASE UNCHANGED vars
  BY <1>1 DEF vars, Inductive, TypeOK, EntryIsItsRevision, EditsBuildOnTheLast,
              LoadedIsCommitted, HistoryIsThere
<1>2. ASSUME NEW s \in Sessions, Write(s) PROVE Inductive'
  BY <1>2, WriteKeeps
<1>3. ASSUME NEW s \in Sessions,
             \/ \E c \in [Fields -> Texts \cup {None}], st \in Statuses \cup {None} : Ask(s, c, st)
             \/ AskRollback(s) \/ Load(s) \/ LeaveAsIs(s) \/ Fail(s) \/ CheckStale(s)
      PROVE  Inductive'
  <2>1. UNCHANGED entryVars
    BY <1>3 DEF Ask, AskRollback, Load, LeaveAsIs, Fail, CheckStale
  <2> QED
    BY <1>3, <2>1, SessionKeeps
<1>4. CASE \/ \E c \in Versions, st \in Statuses : Create(c, st)
           \/ Delete
           \/ \E s \in Sessions : MarkReview(s)
  BY <1>4, EntryKeeps
<1> QED
  BY <1>1, <1>2, <1>3, <1>4 DEF Next

LEMMA AlwaysInductive == Spec => []Inductive
  BY InitIsInductive, StepIsInductive, PTL DEF Spec

-----------------------------------------------------------------------------
(* The theorems. *)

\* For any requests and any values, an entry keeps the types of its columns; in
\* particular no column that must not be NULL is ever emptied.
THEOREM TypeCorrect == Spec => []TypeOK
<1>1. Inductive => TypeOK
  BY DEF Inductive
<1> QED
  BY <1>1, AlwaysInductive, PTL

\* For any number of concurrent edits, rollbacks and failures, the entry is its
\* last revision and the history has no gap and no double.
THEOREM HistoryIsComplete == Spec => []EntryIsItsRevision
<1>1. Inductive => EntryIsItsRevision
  BY DEF Inductive
<1> QED
  BY <1>1, AlwaysInductive, PTL

\* No edit undoes another one unseen.
THEOREM NoLostUpdate == Spec => []EditsBuildOnTheLast
<1>1. Inductive => EditsBuildOnTheLast
  BY DEF Inductive
<1> QED
  BY <1>1, AlwaysInductive, PTL

\* What update or rollback confirms is what the entry then says.
THEOREM ConfirmedIsDone == Spec => EditsTakeEffect
<1> DEFINE Effect == \A s \in Sessions :
             step[s] \in {"asked", "loaded"} /\ step'[s] = "done" =>
                 \A f \in Fields :
                     asked[s].content[f] # None => content'[f] = asked[s].content[f]
<1>1. Inductive /\ [Next]_vars => [Effect]_vars
  <2> SUFFICES ASSUME Inductive, Next,
                      NEW s \in Sessions, step[s] \in {"asked", "loaded"}, step'[s] = "done",
                      NEW f \in Fields, asked[s].content[f] # None
               PROVE  content'[f] = asked[s].content[f]
    OBVIOUS
  <2>1. CASE Write(s)
    <3>1. content' = With(content, asked[s].content, Differs(asked[s].content, content))
      BY <2>1, WriteFollowsTheLast DEF Write, Revision
    <3> QED
      BY <3>1 DEF With, Differs
  <2>2. CASE LeaveAsIs(s)
    BY <2>2 DEF LeaveAsIs, Differs, entryVars
  <2>3. Write(s) \/ LeaveAsIs(s)
    <3>1. ASSUME NEW w \in Sessions, w # s, step' = [step EXCEPT ![w] = step'[w]]
          PROVE  FALSE
      BY <3>1 DEF Inductive, TypeOK
    <3> QED
      BY <3>1 DEF Next, Create, Ask, AskRollback, Load, LeaveAsIs, Write, Fail, CheckStale,
                  MarkReview, Delete, End, Inductive, TypeOK
  <2> QED
    BY <2>1, <2>2, <2>3
<1> QED
  BY <1>1, AlwaysInductive, PTL DEF Spec, EditsTakeEffect

=============================================================================
