------------------------------- MODULE Paging -------------------------------
(***************************************************************************)
(* Two collections of the coordinator that are read a page at a time while *)
(* they change: the tasks (src/hub/task.go), whose history goes back by    *)
(* creation and whose tail goes forward by last change, and the log merged *)
(* of all nodes' missions (src/hub/missionlog.go).  Cursors are those of   *)
(* src/hub/cursor.go.  An id is random in the code; here it is a number,   *)
(* for its order decides between rows of one second, or of one day.        *)
(***************************************************************************)
EXTENDS Naturals, Sequences, FiniteSets

Seqs == INSTANCE SequencesExt

CONSTANTS
    Row,            \* ids of tasks
    PageLimit,      \* rows on a page
    MaxNow,         \* bound on the clock, in seconds
    MaxWrites,      \* bound on what is written of a task
    Entry,          \* lines there may be in the log of some mission
    NodeOf,         \* the node that has the mission
    Id, Dated       \* the id of a line, a hash of date and text; its day, 0 when undated

ASSUME PagingAssumption ==
    /\ Row \subseteq Nat \ {0}
    /\ {PageLimit, MaxNow, MaxWrites} \subseteq Nat \ {0}
    /\ Id \in [Entry -> Nat \ {0}] /\ Dated \in [Entry -> Nat]
    /\ \A d, e \in Entry : Id[d] = Id[e] => Dated[d] = Dated[e]
    /\ IsFiniteSet(Row) /\ IsFiniteSet(Entry)

Nodes == {NodeOf[e] : e \in Entry}

VARIABLES
    now,
    row,        \* the table: tasks
    held,       \* held[i]: which writing of i the client has seen, 0 for none
    paged,      \* the rows history has brought, in order
    before,     \* the cursor history goes on from
    after,      \* the cursor the tail goes on from
    bottom,     \* history has come to its end
    stamping,   \* an empty tail page, whose cursor is not minted yet
    logged,     \* the lines there are in the logs
    read,       \* the lines the client has been sent, in order
    mark,       \* the cursor it was sent with them
    ended,      \* the log has come to its end
    \* history, read by no action:
    first,      \* the rows there were at the first page
    ceased,     \* rows that have been done since
    current,    \* since a tail page that was not clamped there is nothing new to a tail
    shadowed,   \* rows written where no cursor sees them (see Shadow)
    lasting,    \* lines there have been since the first page of the log
    silent,     \* nodes that did not answer for some page
    twins       \* lines there have been together with one that is the same

taskVars == <<now, row, held, paged, before, after, bottom, stamping, first, ceased, current, shadowed>>
missionVars == <<logged, read, mark, ended, lasting, silent, twins>>
pageVars == <<taskVars, missionVars>>

NoCursor == [ts |-> 0, id |-> 0]
NoRow == [created |-> 0, updated |-> 0, writes |-> 0, done |-> FALSE]

PageTypeOK ==
    /\ now \in 1..MaxNow
    /\ row \in [Row -> [created : 0..MaxNow, updated : 0..MaxNow, writes : 0..MaxWrites, done : BOOLEAN]]
    /\ held \in [Row -> 0..MaxWrites] /\ paged \in Seq(Row)
    /\ {before, after} \subseteq [ts : 0..MaxNow, id : Row \cup {0}]
    /\ bottom \in BOOLEAN /\ stamping \in BOOLEAN /\ ended \in BOOLEAN
    /\ logged \subseteq Entry /\ read \in Seq(Entry)
    /\ mark \in [ts : Nat, id : Nat]
    /\ first \subseteq Row /\ ceased \subseteq Row /\ shadowed \subseteq Row /\ current \in BOOLEAN
    /\ lasting \subseteq Entry /\ silent \subseteq Nodes /\ twins \subseteq Entry

PageInit ==
    /\ now = 1 /\ row = [i \in Row |-> NoRow] /\ held = [i \in Row |-> 0]
    /\ paged = <<>> /\ before = NoCursor /\ after = NoCursor
    /\ bottom = FALSE /\ stamping = FALSE
    /\ logged = {} /\ read = <<>> /\ mark = NoCursor /\ ended = FALSE
    /\ first = {} /\ ceased = {} /\ current = FALSE /\ shadowed = {}
    /\ lasting = {} /\ silent = {} /\ twins = {}

-----------------------------------------------------------------------------
(* The table.                                                              *)

Second ==
    /\ now < MaxNow /\ now' = now + 1
    /\ UNCHANGED <<row, held, paged, before, after, bottom, stamping, first, ceased, current,
                   shadowed, missionVars>>

\* A row is written with the second at which its handler began, before it resolved
\* the session or read the task; any second there has been will do for that.  The
\* tail does not see a row written with a second before its cursor's, with that
\* second and an id that is not beyond the cursor's, or between an empty page and
\* its cursor, until it is written again.
Shadow(i, began) ==
    IF /\ after # NoCursor
       /\ stamping \/ began < after.ts \/ (began = after.ts /\ i <= after.id)
    THEN shadowed \cup {i} ELSE shadowed \ {i}

WriteTask(i, created, began, done) ==
    /\ row' = [row EXCEPT ![i] = [created |-> created, updated |-> began,
                                  writes |-> @.writes + 1, done |-> done]]
    /\ current' = FALSE
    /\ ceased' = IF done THEN ceased \cup {i} ELSE ceased
    /\ shadowed' = Shadow(i, began)
    /\ UNCHANGED <<now, held, paged, before, after, bottom, stamping, first, missionVars>>

CreateTask(i, began) == row[i] = NoRow /\ WriteTask(i, began, began, FALSE)

\* Nobody has the id of a task before it was created; of two that change it, the
\* one that began first may write last.
UpdateTask(i, began, done) ==
    /\ row[i] # NoRow /\ row[i].writes < MaxWrites
    /\ row[i].created <= began
    /\ WriteTask(i, row[i].created, began, done)

-----------------------------------------------------------------------------
(* TasksPage, without include_done.                                        *)

Undone == {i \in Row : row[i] # NoRow /\ ~row[i].done}

\* (The fault: history is ordered by last change too.)
HistoryKeyChanged(i) == row[i].updated
HistoryKey(i) == row[i].created

Earlier(i, j) == \/ HistoryKey(i) < HistoryKey(j)
                 \/ HistoryKey(i) = HistoryKey(j) /\ i < j

BeforeCursor(i) == \/ before = NoCursor
                   \/ HistoryKey(i) < before.ts
                   \/ HistoryKey(i) = before.ts /\ i < before.id

\* (The fault: a bare comparison, without the tie-break.)
AfterCursorBare(i) == row[i].updated > after.ts
AfterCursor(i) == \/ row[i].updated > after.ts
                  \/ row[i].updated = after.ts /\ i > after.id

Changed(i, j) == \/ row[i].updated < row[j].updated
                 \/ row[i].updated = row[j].updated /\ i < j

\* The rows before the cursor, latest first; those after it, in the order of
\* their last change.
History == CHOOSE s \in Seqs!SetToSeqs({i \in Undone : BeforeCursor(i)}) :
               \A j, k \in DOMAIN s : j < k => Earlier(s[k], s[j])
Changes == CHOOSE s \in Seqs!SetToSeqs({i \in Undone : AfterCursor(i)}) :
               \A j, k \in DOMAIN s : j < k => Changed(s[j], s[k])

\* A page ends at the limit, or where its text fills the budget; either is said.
Pages(rows) ==
    {[ids |-> SubSeq(rows, 1, c[1]), clamped |-> c[1] = PageLimit \/ c[2]] :
        c \in {c \in (0..Len(rows)) \X BOOLEAN :
            /\ c[1] <= PageLimit
            /\ IF c[2] THEN c[1] > 0 ELSE c[1] \in {PageLimit, Len(rows)}}}

Sees(ids) == held' = [i \in Row |-> IF i \in {ids[k] : k \in DOMAIN ids} THEN row[i].writes ELSE held[i]]

LastCreated(ids) == [ts |-> HistoryKey(ids[Len(ids)]), id |-> ids[Len(ids)]]
LastChanged(ids) == [ts |-> row[ids[Len(ids)]].updated, id |-> ids[Len(ids)]]

\* The row of a first page that was changed last; of several, the first.
TailOf(ids) ==
    LET k == CHOOSE k \in DOMAIN ids : \A l \in DOMAIN ids :
                 \/ row[ids[l]].updated < row[ids[k]].updated
                 \/ row[ids[l]].updated = row[ids[k]].updated /\ k <= l
    IN [ts |-> row[ids[k]].updated, id |-> ids[k]]

\* The first page, without a cursor: where both directions begin.  An empty one
\* has no Tail, and the client asks again.
FirstPage ==
    /\ after = NoCursor
    /\ \E page \in Pages(History) :
          /\ page.ids # <<>>
          /\ paged' = page.ids /\ Sees(page.ids)
          /\ before' = LastCreated(page.ids) /\ after' = TailOf(page.ids)
          /\ bottom' = ~page.clamped
    /\ first' = Undone /\ ceased' = {}
    /\ UNCHANGED <<now, row, stamping, current, shadowed, missionVars>>

HistoryPage ==
    /\ before # NoCursor /\ ~bottom
    /\ \E page \in Pages(History) :
          /\ paged' = paged \o page.ids /\ Sees(page.ids)
          /\ before' = IF page.ids = <<>> THEN before ELSE LastCreated(page.ids)
          /\ bottom' = ~page.clamped
    /\ UNCHANGED <<now, row, after, stamping, first, ceased, current, shadowed, missionVars>>

\* A page of the tail.  What an empty one says to go on from is the time, looked
\* at after the table was.
ChangesPage ==
    /\ after # NoCursor /\ ~stamping
    /\ \E page \in Pages(Changes) :
          /\ Sees(page.ids)
          /\ stamping' = (page.ids = <<>>)
          /\ after' = IF page.ids = <<>> THEN after ELSE LastChanged(page.ids)
          /\ current' = ~page.clamped
    /\ UNCHANGED <<now, row, paged, before, bottom, first, ceased, shadowed, missionVars>>

\* nowCursor, of an empty page.
Stamp ==
    /\ stamping /\ stamping' = FALSE
    /\ after' = [ts |-> now, id |-> 0]
    /\ shadowed' = {i \in shadowed : row[i].updated < now}
    /\ current' = (current /\ shadowed' = shadowed)
    /\ UNCHANGED <<now, row, held, paged, before, bottom, first, ceased, missionVars>>

-----------------------------------------------------------------------------
(* missionLog.                                                             *)

\* A MISSION.md is written: a line more, or one reworded or taken out.
WriteLog(e) ==
    /\ logged' = IF e \in logged THEN logged \ {e} ELSE logged \cup {e}
    /\ lasting' = lasting \ {e}
    /\ twins' = twins \cup {x \in logged' : \E y \in logged' : x # y /\ Id[x] = Id[y]}
    /\ UNCHANGED <<read, mark, ended, silent, taskVars>>

\* (The fault: all of the cursor's day has been shown.)
PastOfDay(e) == mark = NoCursor \/ Dated[e] < mark.ts
Past(e) == \/ mark = NoCursor
           \/ Dated[e] < mark.ts
           \/ Dated[e] = mark.ts /\ Id[e] > mark.id

\* By day and id; lines that are the same come in any order.
Merged(nodes) ==
    {s \in Seqs!SetToSeqs({e \in logged : NodeOf[e] \in nodes /\ Past(e)}) :
        \A i, j \in DOMAIN s : i < j =>
            \/ Dated[s[i]] > Dated[s[j]]
            \/ Dated[s[i]] = Dated[s[j]] /\ Id[s[i]] <= Id[s[j]]}

\* A page of what the nodes that answer have.
LogPage(answering) ==
    /\ ~ended
    /\ \E all \in Merged(answering) :
          LET page == SubSeq(all, 1, IF Len(all) > PageLimit THEN PageLimit ELSE Len(all)) IN
          /\ read' = read \o page
          /\ mark' = IF page = <<>> THEN mark
                     ELSE [ts |-> Dated[page[Len(page)]], id |-> Id[page[Len(page)]]]
          /\ ended' = (Len(all) <= PageLimit)
    /\ silent' = silent \cup (Nodes \ answering)
    /\ lasting' = IF mark = NoCursor THEN logged ELSE lasting
    /\ UNCHANGED <<logged, twins, taskVars>>

-----------------------------------------------------------------------------
TaskPages ==
    \/ Second \/ FirstPage \/ HistoryPage \/ ChangesPage \/ Stamp
    \/ \E i \in Row, began \in 1..now :
          CreateTask(i, began) \/ \E done \in BOOLEAN : UpdateTask(i, began, done)

LogPages ==
    \/ \E answering \in SUBSET Nodes : LogPage(answering)
    \/ \E e \in Entry : WriteLog(e)

PageNext == TaskPages \/ LogPages

PageSpec == PageInit /\ [][PageNext]_pageVars

-----------------------------------------------------------------------------
\* Whatever is written while a client pages back: a row is in its history once,
\* and a history that has come to its end has every row there was at the first
\* page and that has not been done since ("cannot skip or repeat a row while
\* somebody edits one", task.go:189).
HistoryIsExact ==
    /\ \A j, k \in DOMAIN paged : paged[j] = paged[k] => j = k
    /\ bottom => first \ ceased \subseteq {paged[k] : k \in DOMAIN paged}

\* A client that has paged to the end and whose tail has said that it is current
\* has seen the last writing of every outstanding row, but of those written where
\* the tail's cursor had already passed (see Shadow): late, with a second that was
\* over, or in the cursor's own second with a lesser id.
TailCatchesUp ==
    bottom /\ current => \A i \in Undone \ shadowed : held[i] = row[i].writes

\* Nothing of a log is read twice, and one read to its end has each line that was
\* there all along, unless its node did not answer for a page, or another line has
\* been the same, in that log or in another.
LogIsExact ==
    /\ \A j, k \in DOMAIN read : read[j] = read[k] => j = k
    /\ ended => \A x \in lasting :
          NodeOf[x] \in silent \/ x \in twins \/ \E k \in DOMAIN read : read[k] = x

\* What a client would want of a tail, and of a merged log; a row written where the
\* cursor had passed, and a line that is there twice, are passed over.
NothingIsShadowed == bottom /\ current => \A i \in Undone : held[i] = row[i].writes
TwinsAreRead == ended => \A x \in lasting : NodeOf[x] \in silent \/ \E k \in DOMAIN read : read[k] = x
=============================================================================
