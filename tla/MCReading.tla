----------------------------- MODULE MCReading -----------------------------
(***************************************************************************)
(* Everything that is read a page at a time while it is written, each by   *)
(* itself: totals and the Chat tab of transcripts (Transcript), tasks and  *)
(* the merged log (Paging).  They share nothing but the idea of a cursor,  *)
(* so a behaviour is of one of them, chosen at its start.                  *)
(***************************************************************************)
EXTENDS Transcript, Paging, TLC

VARIABLE reading

vars == <<reading, transcriptVars, pageVars>>

\* The lines there may be: of one node three that differ, of which one is undated,
\* and one that is there twice; of another two that are the same as two of those.
Ids == <<1, 2, 3, 3, 1, 2>>
Days == <<0, 1, 1, 1, 0, 1>>
Places == <<"a", "a", "a", "a", "b", "b">>

Init ==
    /\ reading \in {"totals", "chat", "tasks", "log"}
    /\ TranscriptInit /\ PageInit

\* Totals are of one transcript at a time, so one is enough for them.
Next ==
    /\ UNCHANGED reading
    /\ \/ reading = "totals" /\ (Totals \/ Writes) /\ newer' = {} /\ UNCHANGED pageVars
       \/ reading = "chat" /\ (Chat \/ Writes) /\ UNCHANGED pageVars
       \/ reading = "tasks" /\ TaskPages /\ UNCHANGED transcriptVars
       \/ reading = "log" /\ LogPages /\ UNCHANGED transcriptVars

Symmetry == Permutations(File)

Spec == Init /\ [][Next]_vars
=============================================================================
