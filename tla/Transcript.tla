----------------------------- MODULE Transcript -----------------------------
(***************************************************************************)
(* The transcripts Claude Code writes of one folder, and what is read out  *)
(* of them while they are written: totals (src/claudelog/claudelog.go),    *)
(* which are kept and only brought up to date, and the turns themselves    *)
(* (src/claudelog/events.go), which the Chat tab of the dashboard          *)
(* (src/static/index.html) tails, polls for and pages back through.        *)
(*                                                                         *)
(* A record is a line of three bytes, two of JSON and its newline, so that *)
(* a position is what it is in the code: the number of bytes before it.    *)
(* What a record says is left out, but for whether anybody reads it.       *)
(***************************************************************************)
EXTENDS Naturals, Sequences, FiniteSets

CONSTANTS
    File, NoFile, \* transcripts
    Caller,     \* who asks for totals: the report loop, a dashboard
    Limit,      \* turns on a page
    MaxScan,    \* maxScanBack
    MaxRecords, MaxScanErrors

ASSUME TranscriptAssumption ==
    NoFile \notin File /\ {Limit, MaxScan, MaxRecords, MaxScanErrors} \subseteq Nat \ {0}

VARIABLES
    log,        \* log[f]: the kind of each record of f
    size,       \* size[f]: bytes written; the last record may be half written
    newer,      \* <<f, g>>: f has been written to after g
    \* --- totals
    summary,    \* summaryCache.entries
    asked,      \* asked[c]: the transcript c has resolved, and its size then
    \* --- the Chat tab
    shown,      \* <<f, k>>: record k of f, from the top down
    cursor,     \* chatCursor
    prev,       \* chatPrev
    more,       \* chatMore
    request,    \* what the tab awaits (chatBusy), and the offset it asked with
    scanErrors,
    \* history, read by no action:
    of,         \* the transcript of the first paint
    spliced,    \* pages of two transcripts are on the screen
    late,       \* so is what was asked for before the tab was reset
    torn,       \* the record a first paint ended within the JSON of, or 0
    gaveUp,     \* the way back was given up after MaxScan bytes
    failed      \* transcripts of which a scan has failed

logVars == <<log, size, newer>>
sumVars == <<summary, asked, failed>>
chatVars == <<shown, cursor, prev, more, request, of, spliced, late, torn, gaveUp>>
transcriptVars == <<logVars, sumVars, chatVars, scanErrors>>

Line == 3
Nobody == [file |-> NoFile, size |-> 0]
NoRequest == [kind |-> "none", at |-> 0, late |-> FALSE]
NoSummary == [offset |-> 0, messages |-> 0, tools |-> 0, there |-> FALSE]

TranscriptTypeOK ==
    /\ log \in [File -> Seq({"turn", "other"})] /\ size \in [File -> Nat] /\ newer \subseteq File \X File
    /\ \A f \in File : /\ Len(log[f]) <= MaxRecords
                      /\ size[f] \in Line * Len(log[f]) - 2 .. Line * Len(log[f])
    /\ summary \in [File -> [offset : Nat, messages : Nat, tools : Nat, there : BOOLEAN]]
    /\ asked \in [Caller -> [file : File, size : Nat] \cup {Nobody}] /\ failed \subseteq File
    /\ shown \in Seq(File \X (1..MaxRecords)) /\ cursor \in Nat /\ prev \in Nat
    /\ more \in BOOLEAN /\ gaveUp \in BOOLEAN /\ spliced \in BOOLEAN /\ late \in BOOLEAN
    /\ request \in [kind : {"none", "tail", "poll", "older"}, at : Nat, late : BOOLEAN]
    /\ of \in File \cup {NoFile} /\ torn \in 0..MaxRecords /\ scanErrors \in 0..MaxScanErrors

TranscriptInit ==
    /\ log = [f \in File |-> <<>>] /\ size = [f \in File |-> 0] /\ newer = {}
    /\ summary = [f \in File |-> NoSummary] /\ asked = [c \in Caller |-> Nobody]
    /\ shown = <<>> /\ cursor = 0 /\ prev = 0 /\ more = FALSE
    /\ request = NoRequest /\ scanErrors = 0
    /\ of = NoFile /\ spliced = FALSE /\ late = FALSE /\ torn = 0 /\ gaveUp = FALSE /\ failed = {}

-----------------------------------------------------------------------------
(* Claude Code writes.                                                     *)

Whole(f) == size[f] % Line = 0

\* Bytes of a new record, or what a half written one lacks.  What is written to
\* is the newest, be it a conversation begun anew or taken up again.
Write(f, kind, bytes) ==
    /\ IF Whole(f) THEN /\ Len(log[f]) < MaxRecords
                        /\ log' = [log EXCEPT ![f] = Append(@, kind)]
                   ELSE /\ size[f] + bytes <= Line * Len(log[f])
                        /\ kind = log[f][Len(log[f])] /\ UNCHANGED log
    /\ size' = [size EXCEPT ![f] = @ + bytes]
    /\ newer' = (newer \ (File \X {f})) \cup {<<f, g>> : g \in {g \in File \ {f} : size[g] > 0}}
    /\ UNCHANGED <<sumVars, chatVars, scanErrors>>

\* Resolve: the newest that says which folder it is of; one whose first record
\* is half written does not yet.
Says(f) == size[f] >= Line - 1

Resolves(f) == Says(f) /\ \A g \in File \ {f} : Says(g) => <<f, g>> \in newer

-----------------------------------------------------------------------------
(* Totals.                                                                 *)

\* SummarizeFile looks at the size before it has the cache's lock.
Stat(c, f) ==
    /\ asked[c] = Nobody
    /\ Resolves(f)
    /\ asked' = [asked EXCEPT ![c] = [file |-> f, size |-> size[f]]]
    /\ UNCHANGED <<logVars, summary, failed, chatVars, scanErrors>>

\* The records of f that start at or after `from` and end by `to`.
Turns(f, from, to) == {k \in DOMAIN log[f] : /\ log[f][k] = "turn"
                                             /\ Line * (k - 1) >= from /\ Line * k - 1 <= to}

Count(f, from, to) == Cardinality(Turns(f, from, to))

\* (The fault: the last line is taken for a record, whole or not.)
CompleteOrNot(n) == n

\* scan: a line without its newline is left for the next pass.
Complete(n) == Line * (n \div Line)

\* summarize: where scanning goes on from; a file that has shrunk, or that
\* looked smaller when its size was asked for, is read anew.
Base(c) == IF summary[asked[c].file].offset > asked[c].size THEN NoSummary
                                                            ELSE summary[asked[c].file]

Folded(s, f, to) ==
    [s EXCEPT !.offset = to, !.there = TRUE,
              !.messages = @ + Count(f, s.offset, to), !.tools = @ + Count(f, s.offset, to)]

Summarize(c) ==
    LET f == asked[c].file IN
    /\ asked[c] # Nobody
    /\ asked' = [asked EXCEPT ![c] = Nobody]
    /\ summary' = IF summary[f].there /\ summary[f].offset = asked[c].size THEN summary
                  ELSE [summary EXCEPT ![f] = Folded(Base(c), f, Complete(size[f]))]
    /\ UNCHANGED <<logVars, failed, chatVars, scanErrors>>

\* A read fails.  What was counted goes, but for the tools: the copy that was
\* being added to shares its maps with the entry it was copied from.
SummarizeFails(c) ==
    LET f == asked[c].file IN
    /\ asked[c] # Nobody
    /\ scanErrors < MaxScanErrors /\ scanErrors' = scanErrors + 1
    /\ asked' = [asked EXCEPT ![c] = Nobody]
    /\ \E to \in Base(c).offset..Complete(size[f]) :
          /\ to % Line = 0
          /\ summary' = IF Base(c).there
                        THEN [summary EXCEPT ![f].tools = Folded(Base(c), f, to).tools]
                        ELSE summary
    /\ failed' = failed \cup {f}
    /\ UNCHANGED <<logVars, chatVars>>

-----------------------------------------------------------------------------
(* Turns, and the tab that shows them.                                     *)

\* A set of records in order; the first n, the last n of a sequence.
Ascending(S) == CHOOSE s \in [1..Cardinality(S) -> S] :
                    \A i, j \in DOMAIN s : i < j => s[i] < s[j]
First(n, s) == SubSeq(s, 1, IF Len(s) < n THEN Len(s) ELSE n)
Last(n, s) == SubSeq(s, IF Len(s) < n THEN 1 ELSE Len(s) - n + 1, Len(s))

Of(f, s) == [i \in DOMAIN s |-> <<f, s[i]>>]

\* backward reads one turn more than the page, to learn whether there is one.
Collected == Limit + 1

\* How far back it reads; a line it is not at the start of is not parsed.
Low(end) == IF end > MaxScan THEN end - MaxScan + 1 ELSE 0

\* A page that ends at `end`: its turns, and where the one before it ends.
Backward(f, end) ==
    LET found == Last(Collected, Ascending(Turns(f, Low(end), end)))
        extra == Len(found) > Limit
    IN [turns |-> Of(f, Last(Limit, found)),
        start |-> IF extra THEN Line * found[1] - 1 ELSE 0,
        more |-> extra,
        gaveUp |-> ~extra /\ Low(end) > 0]

\* (The fault: a page's cursor is the end of the file also when the page is full.)
AtTheEnd(f, from, turns) == size[f]

\* The end of the last turn of a page read forward: of its line, if it has ended.
Watermark(f, from, turns) ==
    IF turns = <<>> THEN from
    ELSE LET end == Line * turns[Len(turns)]
         IN IF end <= size[f] THEN end ELSE size[f]

\* A tail: the first thing a tab is shown, and what it is sent when its cursor
\* is past the end, which it appends like any other page.
TailPage(f) == Backward(f, size[f])

Cut(f) == size[f] % Line = 1

\* The tab asks for one page at a time (chatBusy): the tail, what is new, what is
\* older.  What it asks with it reads now; what it does with the answer, then.
Ask(kind, at) ==
    /\ request = NoRequest
    /\ request' = [kind |-> kind, at |-> at, late |-> FALSE]
    /\ UNCHANGED <<logVars, sumVars, shown, cursor, prev, more, of, spliced, late, torn, gaveUp, scanErrors>>

AskTail == cursor = 0 /\ Ask("tail", 0)
AskNew == cursor > 0 /\ Ask("poll", cursor)
AskOlder == shown # <<>> /\ more /\ Ask("older", prev)

\* An answer about f reaches the tab.
Answers(f, kind) == Resolves(f) /\ request.kind = kind /\ request' = NoRequest

Spliced(f) ==
    /\ of' = IF of = NoFile THEN f ELSE of
    /\ spliced' = (spliced \/ f # of')
    /\ late' = (late \/ request.late)

FirstPaint(f) ==
    /\ Answers(f, "tail")
    /\ LET page == TailPage(f) IN
          /\ cursor' = size[f] /\ prev' = page.start /\ more' = page.more
          /\ shown' = page.turns
          /\ gaveUp' = page.gaveUp
    /\ torn' = (IF Cut(f) THEN Len(log[f]) ELSE 0) /\ of' = f /\ spliced' = FALSE /\ late' = FALSE
    /\ UNCHANGED <<logVars, sumVars, scanErrors>>

Poll(f) ==
    /\ Answers(f, "poll")
    /\ IF request.at > size[f]
       THEN /\ cursor' = size[f] /\ shown' = shown \o TailPage(f).turns
       ELSE LET turns == First(Limit, Ascending(Turns(f, request.at, size[f])))
            IN cursor' = Watermark(f, request.at, turns) /\ shown' = shown \o Of(f, turns)
    /\ Spliced(f)
    /\ UNCHANGED <<logVars, sumVars, prev, more, torn, gaveUp, scanErrors>>

\* Of a tab that has been reset, the button this page would replace is gone.
Older(f) ==
    /\ Answers(f, "older")
    /\ LET page == Backward(f, IF request.at > 0 /\ request.at < size[f] THEN request.at ELSE size[f]) IN
          /\ prev' = page.start /\ more' = page.more
          /\ shown' = IF request.late THEN shown ELSE page.turns \o shown
          /\ gaveUp' = page.gaveUp
    /\ IF request.late THEN UNCHANGED <<of, spliced, late>> ELSE Spliced(f)
    /\ UNCHANGED <<logVars, sumVars, cursor, torn, scanErrors>>

NoAnswer ==
    /\ request # NoRequest /\ request' = NoRequest
    /\ UNCHANGED <<logVars, sumVars, shown, cursor, prev, more, of, spliced, late, torn, gaveUp, scanErrors>>

\* resetChat: the tab, or another pane, has been chosen.  What is awaited still is.
Reset ==
    /\ cursor > 0 \/ request # NoRequest
    /\ shown' = <<>> /\ cursor' = 0 /\ prev' = 0 /\ more' = FALSE
    /\ request' = [request EXCEPT !.late = request # NoRequest]
    /\ of' = NoFile /\ spliced' = FALSE /\ late' = FALSE /\ torn' = 0 /\ gaveUp' = FALSE
    /\ UNCHANGED <<logVars, sumVars, scanErrors>>

-----------------------------------------------------------------------------
Writes == \E f \in File, kind \in {"turn", "other"}, bytes \in 1..Line : Write(f, kind, bytes)
Totals == \E c \in Caller : Summarize(c) \/ SummarizeFails(c) \/ \E f \in File : Stat(c, f)
Chat == \/ AskTail \/ AskNew \/ AskOlder \/ NoAnswer \/ Reset
        \/ \E f \in File : FirstPaint(f) \/ Poll(f) \/ Older(f)

TranscriptNext == Writes \/ Totals \/ Chat

TranscriptSpec == TranscriptInit /\ [][TranscriptNext]_transcriptVars

-----------------------------------------------------------------------------
\* However a transcript grows between a caller's look at its size and its turn
\* at the cache, and whatever half lines there were: every turn up to where
\* scanning stopped has been counted, and once.  Of a transcript no scan has
\* failed on that is so of its tools too.
SummaryIsExact ==
    \A f \in File :
       /\ summary[f].messages = Count(f, 0, summary[f].offset)
       /\ summary[f].offset % Line = 0
       /\ f \notin failed => summary[f].tools = summary[f].messages

\* The turns of the transcript on the screen, but for the one that was half
\* written at the first paint.
Readable == Turns(of, 0, size[of]) \ {torn}

\* A tab that tails, polls and pages back while the transcript is written is
\* shown every turn between its oldest and its cursor, once and in order, and
\* none comes before what is said to be the beginning, unless MaxScan bytes held
\* less than a page (EventPage.Prev: "Zero means the beginning of the file was
\* reached"); as long as it is of one transcript, and was not reset under a poll.
NothingIsSkipped ==
    of # NoFile /\ ~spliced /\ ~late =>
        /\ \A i \in 1..(Len(shown) - 1) :
              LET a == shown[i][2]
                  b == shown[i + 1][2]
              IN a < b /\ Readable \cap (a + 1)..(b - 1) = {}
        /\ shown # <<>> => \A k \in Readable :
              k > shown[Len(shown)][2] => Line * (k - 1) >= cursor
        /\ shown = <<>> /\ ~gaveUp => \A k \in Readable : Line * (k - 1) >= cursor
        /\ shown # <<>> /\ ~more /\ ~gaveUp => \A k \in Readable : k >= shown[1][2]

\* docs/mobile-client.md:744 says of a page from another transcript "clear what
\* you have rather than appending".
ConversationsStayApart == ~spliced

\* index.html:2128 says of chatKey "changing it resets everything"; a poll under
\* way is not, and what it brings is all of the conversation the tab then shows.
ResetIsOfEverything == ~late

\* events.go:127 says that what a cursor passes over is unreadable.
HalfWrittenIsShown == torn # 0 => log[of][torn] = "other"
=============================================================================
