------------------------------ MODULE Composer ------------------------------
(***************************************************************************)
(* Typing into a session's pane from outside it: the nudge and what an     *)
(* operator sends (src/ops.go, src/tmux/tmux.go).  A person may be typing  *)
(* in the same pane, a turn may put a dialog over it, and the program in   *)
(* it reads and draws when it gets to it.                                  *)
(*                                                                         *)
(* Each call of tmux is a step: a capture is a look at what was drawn      *)
(* last, and send-keys puts keys into the pty.  The program reads all      *)
(* there is at once: more than one key at a time is a paste to it, and an  *)
(* Enter in a paste is a line break.  Every operation runs in a goroutine  *)
(* of its own.  A line is a sequence of words, and a message is one word.  *)
(***************************************************************************)
EXTENDS Naturals, Sequences

Seqs == INSTANCE SequencesExt

CONSTANTS
    Job,            \* operations on the pane
    Kind,           \* what they may be: "deliver", "send", "command", "remote"
    Drafts,         \* what may be on the input line at the start
    RowWords,       \* words of the input line that fit the row with its marker
    MaxEvents       \* bound on keys pressed by hand, dialogs and failed calls

ASSUME ComposerAssumption ==
    /\ Kind \subseteq {"deliver", "send", "command", "remote"}
    /\ \A d \in Drafts : d \in Seq({"hand"})
    /\ RowWords \in Nat \ {0}
    /\ MaxEvents \in Nat
    /\ "hand" \notin Job

VARIABLES
    pty,        \* keys the program has yet to read
    mode,       \* what has its keyboard
    line,       \* its input line
    sent,       \* lines submitted to the session
    drawn,      \* the screen: what a capture answers
    job,        \* job[j]: how far an operation has come
    events,
    \* history, read by no action:
    found,      \* found[j]: the line j came upon, while it has the pane to itself
    answered    \* jobs whose Enter a dialog took

appVars == <<mode, line, sent>>
historyVars == <<found, answered>>
composerVars == <<pty, appVars, drawn, job, events, historyVars>>

Message == [deliver |-> "check inbox", send |-> "text", command |-> "/command",
            remote |-> "/remote-control"]

Hand == "hand"          \* a word typed by hand
Ghost == "ghost"        \* a suggestion, drawn faintly on an empty line
Break == "break"

Word == {Hand, Break} \cup {Message[k] : k \in Kind}
Key == {"C-u", "Enter", "Escape"} \cup Word

\* Somebody else has used the pane since, or had not been drawn yet.
Disturbed == <<Ghost>>

Mode == {"composer", "dialog", "menu"}

\* What a capture may show at the bottom: a framed input row, a dialog's
\* footer, or neither that the code recognises.
Bottom == {"row", "footer", "neither"}

NoJob == [kind |-> "none", stage |-> "idle", draft |-> <<>>, saw |-> FALSE]

Stages == {"idle", "clear", "type", "await", "enter", "restore", "dismiss",
           "nudged", "refused", "failed"}

ComposerTypeOK ==
    /\ pty \in Seq([by : Job \cup {Hand}, key : Key])
    /\ mode \in Mode
    /\ line \in Seq(Word) /\ sent \subseteq Seq(Word)
    /\ drawn \in [mode : Mode, bottom : Bottom, ghost : BOOLEAN, line : Seq(Word)]
    /\ job \in [Job -> [kind : Kind \cup {"none"}, stage : Stages, draft : Seq(Word),
                        saw : BOOLEAN]]
    /\ \A j \in Job : job[j].stage = "idle" <=> job[j].kind = "none"
    /\ events \in 0..MaxEvents
    /\ found \in [Job -> Seq(Word) \cup {Disturbed}] /\ answered \subseteq Job

ComposerInit ==
    /\ pty = <<>>
    /\ mode = "composer" /\ line \in Drafts /\ sent = {}
    /\ drawn = [mode |-> "composer", bottom |-> "row", ghost |-> FALSE, line |-> line]
    /\ job = [j \in Job |-> NoJob]
    /\ events = 0
    /\ found = [j \in Job |-> Disturbed] /\ answered = {}

Event == events < MaxEvents /\ events' = events + 1

Goes(j, stage) == job' = [job EXCEPT ![j].stage = stage]

\* send-keys: the keys are by's, and nobody else has the pane to himself.
Keys(by, keys) ==
    /\ pty' = pty \o [i \in DOMAIN keys |-> [by |-> by, key |-> keys[i]]]
    /\ found' = [j \in Job |-> IF j = by THEN found[j] ELSE Disturbed]

-----------------------------------------------------------------------------
(* The program in the pane, and the person at it.                          *)

\* What one key does to [mode, line, sent, answered].  A dialog swallows text
\* and goes at Enter or Escape.
DialogTakes(s, k) ==
    IF k.key \notin {"Enter", "Escape"} THEN s
    ELSE [s EXCEPT !.mode = "composer",
                   !.answered = IF k.key = "Enter" /\ k.by # Hand THEN @ \cup {k.by} ELSE @]

\* The composer takes text, and submits at an Enter that comes alone.
ComposerTakes(s, k, paste) ==
    CASE k.key = "Escape" -> s
      [] k.key = "C-u" -> [s EXCEPT !.line = <<>>]
      [] k.key = "Enter" ->
            IF paste THEN [s EXCEPT !.line = Append(@, Break)]
            ELSE IF s.line = <<>> THEN s
            ELSE [s EXCEPT !.sent = @ \cup {s.line}, !.line = <<>>]
      [] OTHER -> [s EXCEPT !.line = Append(@, k.key)]

Take(s, k, paste) ==
    IF s.mode = "composer" THEN ComposerTakes(s, k, paste) ELSE DialogTakes(s, k)

\* Taken[n]: what the first n keys of those there are have done.
Taken ==
    LET taken[n \in 0..Len(pty)] ==
            IF n = 0 THEN [mode |-> mode, line |-> line, sent |-> sent, answered |-> answered]
                     ELSE Take(taken[n - 1], pty[n], Len(pty) > 1)
    IN taken

\* The program reads what there is.  A link to remote control that is up
\* answers the command with a menu.
Read ==
    LET end == Taken[Len(pty)]
        asked == <<Message.remote>> \in end.sent \ sent
    IN
    /\ pty # <<>>
    /\ pty' = <<>>
    /\ mode' \in IF asked THEN {end.mode, "menu"} ELSE {end.mode}
    /\ line' = end.line /\ sent' = end.sent /\ answered' = end.answered
    /\ UNCHANGED <<drawn, job, events, found>>

\* It draws what it has come to.  A row may not be framed the way the code
\* knows, and a footer may be none it knows.
Draw ==
    /\ \E b \in IF mode = "composer" THEN {"row", "neither"} ELSE {"footer", "neither"} :
       \E g \in IF mode = "composer" /\ line = <<>> THEN BOOLEAN ELSE {FALSE} :
          drawn' = [mode |-> mode, bottom |-> b, ghost |-> g, line |-> line]
    /\ drawn' # drawn
    /\ UNCHANGED <<pty, appVars, job, events, historyVars>>

\* The turn under way asks its question.
DialogOpens ==
    /\ mode = "composer"
    /\ Event
    /\ mode' = "dialog"
    /\ found' = [j \in Job |-> Disturbed]
    /\ UNCHANGED <<pty, line, sent, drawn, job, answered>>

\* A person at the terminal, or SendRawKeys on behalf of one.
Press(k) ==
    /\ Event
    /\ Keys(Hand, <<k>>)
    /\ UNCHANGED <<appVars, drawn, job, answered>>

-----------------------------------------------------------------------------
(* What the code reads off a screen.                                       *)

\* The row with the marker: what of the line comes before a break and fits.
Row(l) == LET ends == {n \in 0..Len(l) : n = RowWords \/ n = Len(l) \/ l[n + 1] = Break}
          IN SubSeq(l, 1, CHOOSE n \in ends : \A m \in ends : n <= m)

\* tmux.InputState: a row settles it, and what is not recognised is a composer.
InputState(s) == IF s.bottom = "footer" THEN "dialog" ELSE "composer"

\* (The fault: the suggestion is read as if it had been typed.)
DraftWithGhost(s) == IF s.ghost THEN <<Ghost>> ELSE Row(s.line)

\* tmux.ComposerDraft of tmux.Typed: the row, without what is drawn faintly.
Draft(s) == Row(s.line)

\* (The fault: the Enter does not wait for the text.)
HoldsAnything(s, text) == TRUE

\* composerHolds: the row shows the text.
Holds(s, text) == s.bottom = "row" /\ Seqs!Contains(Draft(s), text)

-----------------------------------------------------------------------------
(* The operations of src/ops.go.                                           *)

Text(j) == Message[job[j].kind]

Starts(j, kind, stage, draft) ==
    job' = [job EXCEPT ![j] = [NoJob EXCEPT !.kind = kind, !.stage = stage, !.draft = draft]]

\* A look at a pane at rest shows the line as it is.
Looked(j) ==
    found' = IF pty = <<>> /\ drawn.line = line /\ mode = "composer"
             THEN [found EXCEPT ![j] = line] ELSE found

\* The nudge types into a pane that shows an input row, and remembers what is
\* on it; it refuses any other, and one it cannot capture.
LookToNudge(j) ==
    /\ "deliver" \in Kind /\ job[j] = NoJob
    /\ \/ /\ InputState(drawn) = "composer" /\ drawn.bottom = "row"
          /\ Starts(j, "deliver", "clear", Draft(drawn))
          /\ Looked(j)
          /\ UNCHANGED events
       \/ /\ IF drawn.bottom = "row" THEN Event ELSE UNCHANGED events
          /\ Starts(j, "deliver", "refused", <<>>)
          /\ UNCHANGED found
    /\ UNCHANGED <<pty, appVars, drawn, answered>>

\* guardDialog: the operator's text is refused by a dialog that is recognised,
\* and goes on when the pane cannot be captured.
Guard(j, kind) ==
    /\ kind # "deliver" /\ job[j] = NoJob
    /\ \/ /\ IF InputState(drawn) = "dialog" THEN Event ELSE UNCHANGED events
          /\ Starts(j, kind, "clear", <<>>)
          /\ Looked(j)
       \/ /\ InputState(drawn) = "dialog"
          /\ Starts(j, kind, "refused", <<>>)
          /\ UNCHANGED <<events, found>>
    /\ UNCHANGED <<pty, appVars, drawn, answered>>

\* Keys that a job presses, and where it goes on.
Presses(j, at, keys, stage) ==
    /\ job[j].stage = at
    /\ Keys(j, keys)
    /\ Goes(j, stage)
    /\ UNCHANGED <<appVars, drawn, events, answered>>

Clear(j) == Presses(j, "clear", <<"C-u">>, "type")

\* The text; an operator's may be left on the line.
Type(j) ==
    \/ Presses(j, "type", <<Text(j)>>, "await")
    \/ job[j].kind = "send" /\ Presses(j, "type", <<Text(j)>>, "refused")

\* awaitComposer: the row shows the text, or half a second has passed, or the
\* pane cannot be captured; the Enter goes anyway.
Await(j) ==
    /\ job[j].stage = "await"
    /\ \E saw \in {FALSE, Holds(drawn, Text(j))} :
          job' = [job EXCEPT ![j].stage = "enter", ![j].saw = saw]
    /\ UNCHANGED <<pty, appVars, drawn, events, historyVars>>

Enter(j) ==
    Presses(j, "enter", <<"Enter">>,
            CASE job[j].draft # <<>> -> "restore"
              [] job[j].draft = <<>> /\ job[j].kind = "remote" -> "dismiss"
              [] OTHER -> "nudged")

\* The draft is typed back, in one call and without an Enter.
Restore(j) == Presses(j, "restore", job[j].draft, "nudged")

\* dismissRemoteControl: Escape to the menu of its own command, if it shows
\* within two seconds.
Dismiss(j) ==
    \/ /\ drawn.mode = "menu" /\ drawn.bottom = "footer"
       /\ Presses(j, "dismiss", <<"Escape">>, "nudged")
    \/ /\ job[j].stage = "dismiss"
       /\ Goes(j, "nudged")
       /\ UNCHANGED <<pty, appVars, drawn, events, historyVars>>

\* A call of tmux fails, or the agent stops: nothing is put back.
Breaks(j) ==
    /\ job[j].stage \in {"clear", "type", "await", "enter", "restore", "dismiss"}
    /\ Event
    /\ job' = [job EXCEPT ![j] = [NoJob EXCEPT !.kind = job[j].kind, !.stage = "failed"]]
    /\ UNCHANGED <<pty, appVars, drawn, historyVars>>

Work(j) ==
    \/ LookToNudge(j) \/ \E kind \in Kind : Guard(j, kind)
    \/ Clear(j) \/ Type(j) \/ Await(j) \/ Enter(j) \/ Restore(j) \/ Dismiss(j)

ComposerNext ==
    \/ Read \/ Draw \/ DialogOpens
    \/ \E k \in {Hand, "Enter"} : Press(k)
    \/ \E j \in Job : Work(j) \/ Breaks(j)

ComposerSpec == ComposerInit /\ [][ComposerNext]_composerVars

-----------------------------------------------------------------------------
\* A job that is done, that had the pane to itself, and whose keys were read.
Settled(j) == job[j].stage = "nudged" /\ found[j] # Disturbed /\ pty = <<>>

\* A message that its sender waited for on the input row is submitted, as a
\* line of its own, whenever the program happened to read; unless the line held
\* it before, or a draft was typed back (awaitComposer: "The Enter must not
\* arrive in the same read() as the text").
SeenIsSubmitted ==
    \A j \in Job :
        Settled(j) /\ job[j].saw /\ job[j].draft = <<>> /\ ~Seqs!Contains(found[j], Text(j))
            => <<Text(j)>> \in sent

\* A nudge leaves the draft it came upon on the input line, unsent, whatever
\* its own message came to and whatever the screen suggested; a draft that fits
\* the row, and a pane nobody else typed into (SendCommandPreservingDraft).
NudgeKeepsDraft ==
    \A j \in Job :
        Settled(j) /\ job[j].kind = "deliver" /\ Row(found[j]) = found[j]
            => line \in {found[j], <<Text(j), Break>> \o found[j]}

\* Any draft is put back whole ("unsent, exactly as it was found"; "the one
\* unacceptable outcome here is losing text a person wrote and having no copy
\* of it anywhere").
DraftIsPutBack ==
    \A j \in Job : Settled(j) /\ job[j].kind = "deliver" => Seqs!IsSuffix(found[j], line)

\* What ops.go says a nudge must never do: "Press Enter on a modal".
NudgeNeverAnswers == \A j \in answered : job[j].kind # "deliver"
=============================================================================
