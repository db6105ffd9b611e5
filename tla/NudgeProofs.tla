---------------------------- MODULE NudgeProofs ----------------------------
(***************************************************************************)
(* Theorems about what wakes a session: Wake, for any sessions, tenants,   *)
(* limit and bounds (types, what becomes of the watcher's entries, the cap *)
(* and the alarm), and Composer, for any operations, drafts and width of   *)
(* the row (types, that a message that was seen is submitted, and that a   *)
(* nudge keeps the draft it came upon).                                    *)
(***************************************************************************)
EXTENDS Wake, Composer, Integers, FiniteSetTheorems, SequenceTheorems,
        WellFoundedInduction, TLAPS

\* Only what has an entry grows old, and an alarm that is due is of an entry
\* that observe is keeping.
EntryInv ==
    /\ \A s \in Session : age[s] > 0 => s \in seen
    /\ at # NoTenant => due \subseteq live

Inv == TypeOK /\ EntryInv

-----------------------------------------------------------------------------
(* Types and entries.                                                      *)

LEMMA InvInit == Init => Inv
  <1> SUFFICES ASSUME Init
               PROVE  Inv
    OBVIOUS
  <1>1. faults \in 0..MaxFaults /\ age \in [Session -> 0..3]
    BY WakeAssumption DEF Init
  <1>2. TypeOK
    BY <1>1 DEF Init, TypeOK
  <1>3. EntryInv
    BY DEF Init, EntryInv
  <1> QED
    BY <1>2, <1>3 DEF Inv

\* Mail, sessions and their load leave the entries alone.
LEMMA MailInv ==
    ASSUME Inv, NEW s \in Session, MailStep(s) \/ SessionStep(s) \/ LoadStep(s)
    PROVE  Inv'
  <1> USE DEF Inv, TypeOK, EntryInv, sessionVars, nudgeVars, capVars, sweepVars, entryVars
  <1>1. CASE MailStep(s)
    BY <1>1 DEF MailStep, Send, EndTask, CreateTask, StoreOnly, StoreAndNudge, Store, Reason
  <1>2. CASE SessionStep(s)
    <2>1. CASE OwnPrompt(s)
      BY <2>1 DEF OwnPrompt, Drained
    <2>2. CASE Outage(s)
      BY <2>2, WakeAssumption DEF Outage, Fault
    <2>3. CASE Dialog(s)
      BY <2>3, WakeAssumption DEF Dialog, Fault
    <2> QED
      BY <1>2, <2>1, <2>2, <2>3 DEF SessionStep
  <1>3. CASE LoadStep(s)
    BY <1>3 DEF LoadStep, Burn, Lapse
  <1> QED
    BY <1>1, <1>2, <1>3

\* What the cap holds is of a session it applies to.
LEMMA NudgeInv ==
    ASSUME Inv, NEW s \in Session, NudgeStep(s)
    PROVE  Inv'
  <1> USE DEF Inv, TypeOK, EntryInv, sessionVars, nudgeVars, capVars, sweepVars, entryVars
  <1>1. ASSUME NEW why \in Reason, Gate(s, why)
        PROVE  Inv'
    BY <1>1 DEF Gate, WavedThrough, Pass, Woken
  <1>2. ASSUME NEW why \in Reason, ClearQueued(s, why)
        PROVE  Inv'
    BY <1>2 DEF ClearQueued
  <1>3. CASE Deliver(s)
    BY <1>3 DEF Deliver, Drained
  <1> QED
    BY <1>1, <1>2, <1>3 DEF NudgeStep

\* A person is told of an entry that is old, so of one that has been retried.
LEMMA NotifyRetried ==
    ASSUME Inv, NEW s \in Session, Notify(s)
    PROVE  s \in retried \ queued /\ s \in live' /\ ~Retrying
  <1>1. s \in online /\ ~RetryDue(s) /\ ~Quiet(s) /\ Visit(s)
    BY DEF Notify
  <1>2. s \notin queued /\ age[s] >= 2
    BY <1>1 DEF Quiet, NotDue, Inv, TypeOK
  <1>3. s \in retried
    BY <1>1, <1>2 DEF RetryDue, Inv, EntryInv, TypeOK
  <1> QED
    BY <1>1, <1>2, <1>3 DEF Visit, Kept

LEMMA WatchInv ==
    ASSUME Inv, NEW s \in Session, WatchStep(s) \/ Age(s)
    PROVE  Inv'
  <1> USE DEF Inv, TypeOK, EntryInv, sessionVars, nudgeVars, capVars, sweepVars, entryVars
  <1>1. CASE PassOver(s)
    BY <1>1 DEF PassOver, Visit
  <1>2. CASE Retry(s)
    BY <1>2 DEF Retry, Visit, RetryDue, Reason
  <1>3. CASE Notify(s)
    <2>1. s \in retried /\ s \in live'
      BY <1>3, NotifyRetried
    <2>2. age[s] > 0
      BY <1>3 DEF Notify, Quiet, NotDue
    <2> QED
      BY <1>3, <2>1, <2>2 DEF Notify, Visit
  <1>4. CASE Post(s)
    BY <1>4, WakeAssumption DEF Post, Fault
  <1>5. CASE Age(s)
    BY <1>5 DEF Age
  <1> QED
    BY <1>1, <1>2, <1>3, <1>4, <1>5 DEF WatchStep

\* An observe that ends keeps what it has a new entry for, and nothing is told
\* of anything else.
LEMMA SweepInv ==
    ASSUME Inv, StartSweep \/ EndObserve \/ Switch \/ \E t \in Tenant : Look(t) \/ LookFails(t)
    PROVE  Inv'
  <1> USE WakeAssumption
      DEF Inv, TypeOK, EntryInv, sessionVars, nudgeVars, capVars, sweepVars, entryVars
  <1>1. CASE StartSweep
    BY <1>1 DEF StartSweep
  <1>2. CASE EndObserve
    BY <1>2 DEF EndObserve
  <1>3. CASE Switch
    BY <1>3 DEF Switch, Fault
  <1>4. ASSUME NEW t \in Tenant, Look(t) \/ LookFails(t)
        PROVE  Inv'
    BY <1>4 DEF Look, LookFails, Fault
  <1> QED
    BY <1>1, <1>2, <1>3, <1>4

LEMMA InvStep == Inv /\ [Next]_vars => Inv'
  <1> SUFFICES ASSUME Inv, [Next]_vars
               PROVE  Inv'
    OBVIOUS
  <1>1. CASE UNCHANGED vars
    BY <1>1 DEF vars, Inv, TypeOK, EntryInv, sessionVars, nudgeVars, capVars, sweepVars, entryVars
  <1>2. CASE Next
    <2>1. ASSUME NEW s \in Recipient,
                 MailStep(s) \/ NudgeStep(s) \/ SessionStep(s) \/ Age(s) \/ WatchStep(s)
          PROVE  Inv'
      BY <2>1, MailInv, NudgeInv, WatchInv, WakeAssumption
    <2>2. ASSUME NEW s \in Session, LoadStep(s)
          PROVE  Inv'
      BY <2>2, MailInv
    <2> QED
      BY <1>2, <2>1, <2>2, SweepInv DEF Next
  <1> QED
    BY <1>1, <1>2

\* What the watcher keeps of an entry stays consistent whatever interleaves with
\* its sweeps: it is told of only when it has been retried, and an alarm that is
\* due is of such an entry.
THEOREM TypeCorrect == Spec => []TypeOK
  <1>1. Spec => []Inv
    BY InvInit, InvStep, PTL DEF Spec
  <1>2. Inv => TypeOK
    BY DEF Inv
  <1> QED
    BY <1>1, <1>2, PTL

-----------------------------------------------------------------------------
(* The cap.                                                                *)

\* However many wakes there are before the first report shows any of them: one
\* the cap may hold never takes the sessions at work past the limit, and so no
\* burst of mail does (cap.go's account of a fan-out).
THEOREM NoHerdEver == Spec => NoHerd
  <1>1. ASSUME Inv, NEW s \in Session \ Exempt, NEW why \in Reason, ~exempt(why),
               Gate(s, why), ~off, Limit > 0, nudged' # nudged
        PROVE  Cardinality((working \cup nudged)') <= Limit
    <2>1. ~Full /\ nudged' = nudged \cup {s} /\ working' = working
      BY <1>1 DEF Gate, WavedThrough, Woken
    <2> DEFINE W == working \cup nudged
    <2>2. IsFiniteSet(W)
      BY <1>1, WakeAssumption, FS_Subset DEF Inv, TypeOK
    <2>3. Cardinality(W) \in Nat
      BY <2>2, FS_CardinalityType
    <2>4. Cardinality(W) < Limit
      BY <2>1, <2>3, WakeAssumption DEF Full, concurrent
    <2>5. \/ Cardinality(W \cup {s}) = Cardinality(W)
          \/ Cardinality(W \cup {s}) = Cardinality(W) + 1
      BY <2>2, FS_AddElement
    <2>6. (working \cup nudged)' = W \cup {s}
      BY <2>1
    <2>7. Cardinality(W \cup {s}) <= Limit
      BY <2>3, <2>4, <2>5, WakeAssumption
    <2> QED
      BY <2>6, <2>7
  <1>2. Inv => \A s \in Session \ Exempt, why \in Reason : exempt(why) \/ KeepsLimit(s, why)
    BY <1>1 DEF KeepsLimit
  <1>3. Spec => []Inv
    BY InvInit, InvStep, PTL DEF Spec
  <1> QED
    BY <1>2, <1>3, PTL DEF NoHerd

-----------------------------------------------------------------------------
(* The alarm.                                                              *)

\* A person is told only of mail that has been nudged once more since the watcher
\* first saw it, while no retry is on its way to its session and the cap does
\* not hold it.
THEOREM AlarmAfterRetry == Spec => AlarmIsLastResort
  <1>1. ASSUME Inv, [Next]_vars, NEW s \in due' \ due
        PROVE  s \in retried \ queued /\ <<s, "stuckRetry">> \notin waking \cup passed
    <2>1. s \in Session /\ Notify(s)
      <3>1. CASE UNCHANGED vars
        BY <1>1, <3>1 DEF vars, entryVars
      <3>2. ASSUME NEW r \in Recipient,
                   MailStep(r) \/ NudgeStep(r) \/ SessionStep(r) \/ Age(r)
            PROVE  FALSE
        BY <1>1, <3>2 DEF MailStep, Send, EndTask, CreateTask, StoreOnly, StoreAndNudge, NudgeStep,
           Gate, ClearQueued, Deliver, SessionStep, OwnPrompt, Outage, Dialog, Age, entryVars
      <3>3. ASSUME NEW r \in Recipient, WatchStep(r)
            PROVE  s \in Session /\ Notify(s)
        <4>1. CASE Notify(r)
          BY <1>1, <4>1, WakeAssumption DEF Notify
        <4>2. CASE PassOver(r) \/ Retry(r) \/ Post(r)
          BY <1>1, <4>2 DEF PassOver, Retry, Post, entryVars
        <4> QED
          BY <3>3, <4>1, <4>2 DEF WatchStep
      <3>4. ASSUME NEW r \in Session, LoadStep(r)
            PROVE  FALSE
        BY <1>1, <3>4 DEF LoadStep, Burn, Lapse, entryVars
      <3>5. ASSUME \/ StartSweep \/ EndObserve \/ Switch
                   \/ \E t \in Tenant : Look(t) \/ LookFails(t)
            PROVE  FALSE
        BY <1>1, <3>5 DEF StartSweep, EndObserve, Switch, Look, LookFails, entryVars
      <3> QED
        BY <1>1, <3>1, <3>2, <3>3, <3>4, <3>5 DEF Next
    <2> QED
      BY <1>1, <2>1, NotifyRetried DEF Retrying
  <1>2. Inv /\ [Next]_vars => \A s \in due' \ due :
            /\ s \in retried \ queued
            /\ <<s, "stuckRetry">> \notin waking \cup passed
    BY <1>1
  <1>3. Spec => []Inv
    BY InvInit, InvStep, PTL DEF Spec
  <1> QED
    BY <1>2, <1>3, PTL DEF AlarmIsLastResort, Spec

-----------------------------------------------------------------------------
(* Composer.                                                               *)

\* The least of some numbers: what a proof by induction begins with.
LEMMA LeastNatural ==
    ASSUME NEW T \in SUBSET Nat, T # {}
    PROVE  \E n \in T : \A m \in T : n <= m
  <1> DEFINE R == OpToRel(<, Nat)
  <1>1. IsWellFoundedOn(R, Nat)
    BY NatLessThanWellFounded
  <1>2. \A x, y \in Nat : <<y, x>> \in R <=> y < x
    BY DEF OpToRel
  <1> HIDE DEF R
  <1>3. PICK x \in T : \A y \in T : ~(<<y, x>> \in R)
    BY <1>1, WFMin
  <1>4. \A m \in T : ~(m < x)
    BY <1>2, <1>3
  <1>5. x \in Nat /\ \A m \in T : x <= m
    BY <1>4
  <1> QED
    BY <1>5

\* Reading key after key comes to an end, and each adds to what those before did.
LEMMA TakenIs ==
    ASSUME pty \in Seq([by : Job \cup {Hand}, key : Key])
    PROVE  /\ Taken[0] = [mode |-> mode, line |-> line, sent |-> sent, answered |-> answered]
           /\ \A n \in 1..Len(pty) : Taken[n] = Take(Taken[n - 1], pty[n], Len(pty) > 1)
  <1> DEFINE start == [mode |-> mode, line |-> line, sent |-> sent, answered |-> answered]
             L == Len(pty)
             Follows(f, n) == f = [i \in 0..n |-> IF i = 0 THEN start ELSE Take(f[i - 1], pty[i], Len(pty) > 1)]
             Bad == {n \in 0..L : ~\E f : Follows(f, n)}
  <1>1. L \in Nat
    BY LenProperties
  <1>2. Bad = {}
    <2> SUFFICES ASSUME Bad # {}
                 PROVE  FALSE
      OBVIOUS
    <2>1. Bad \in SUBSET Nat
      BY <1>1
    <2>2. PICK n \in Bad : \A m \in Bad : n <= m
      <3> HIDE DEF Bad
      <3> QED
        BY <2>1, LeastNatural
    <2>3. n \in 0..L /\ ~\E f : Follows(f, n)
      BY <2>2
    <2> HIDE DEF start
    <2>4. n # 0
      <3>1. ASSUME n = 0
            PROVE  \E f : Follows(f, n)
        <4> DEFINE f == [i \in 0..0 |-> start]
        <4>1. Follows(f, 0)
          OBVIOUS
        <4> HIDE DEF f
        <4> QED
          BY <3>1, <4>1
      <3> QED
        BY <2>3, <3>1
    <2>5. n - 1 \in 0..L /\ n - 1 < n /\ n - 1 \in Nat /\ n \in Nat
      BY <1>1, <2>3, <2>4
    <2>6. PICK f : Follows(f, n - 1)
      <3>1. n - 1 \notin Bad
        <4> HIDE DEF Bad
        <4>1. ~(n <= n - 1)
          BY <2>5
        <4> QED
          BY <2>2, <4>1
      <3> QED
        BY <2>5, <3>1
    <2> DEFINE g == [i \in 0..n |-> IF i = n THEN Take(f[n - 1], pty[n], Len(pty) > 1) ELSE f[i]]
    <2>7. \A i \in 0..n : g[i] = IF i = 0 THEN start ELSE Take(g[i - 1], pty[i], Len(pty) > 1)
      <3> SUFFICES ASSUME NEW i \in 0..n
                   PROVE  g[i] = IF i = 0 THEN start ELSE Take(g[i - 1], pty[i], Len(pty) > 1)
        OBVIOUS
      <3>1. CASE i = 0
        <4>1. g[i] = f[0] /\ f[0] = start
          BY <2>4, <2>5, <2>6, <3>1
        <4> QED
          BY <3>1, <4>1
      <3>2. CASE i # 0 /\ i # n
        <4>1. i - 1 \in 0..n /\ i - 1 # n /\ i \in 0..(n - 1)
          BY <2>5, <3>2
        <4>2. g[i] = f[i] /\ g[i - 1] = f[i - 1]
          BY <3>2, <4>1
        <4>3. f[i] = Take(f[i - 1], pty[i], Len(pty) > 1)
          BY <2>6, <3>2, <4>1
        <4> QED
          BY <3>2, <4>2, <4>3
      <3>3. CASE i # 0 /\ i = n
        <4>1. g[i - 1] = f[n - 1] /\ g[i] = Take(f[n - 1], pty[n], Len(pty) > 1)
          BY <2>5, <3>3
        <4> QED
          BY <3>3, <4>1
      <3> QED
        BY <3>1, <3>2, <3>3
    <2>8. Follows(g, n)
      <3>1. g = [i \in 0..n |-> g[i]]
        OBVIOUS
      <3> HIDE DEF g
      <3> QED
        BY <2>7, <3>1
    <2> HIDE DEF g
    <2> QED
      BY <2>3, <2>8
  <1>3. \E f : Follows(f, L)
    BY <1>1, <1>2
  <1>4. Taken = CHOOSE f : Follows(f, L)
    BY DEF Taken
  <1>5. Follows(Taken, L)
    <2> HIDE DEF Follows
    <2> QED
      BY <1>3, <1>4
  <1>6. \A n \in 1..L : n \in 0..L /\ n # 0
    BY <1>1
  <1>7. 0 \in 0..L
    BY <1>1
  <1> HIDE DEF start
  <1>8. \A n \in 0..L : Taken[n] = IF n = 0 THEN start ELSE Take(Taken[n - 1], pty[n], Len(pty) > 1)
    BY <1>5
  <1> QED
    BY <1>6, <1>7, <1>8 DEF start

\* What the properties and their proofs tell of a key: it is a word, or one of the
\* three that are not.
LEMMA Words ==
    /\ {"C-u", "Enter", "Escape"} \cap Word = {} /\ Key = Word \cup {"C-u", "Enter", "Escape"}
    /\ Break \in Word /\ Hand \in Word
    /\ \A k \in Kind : Message[k] \in Word /\ Message[k] # Break
    /\ Message["deliver"] # Message["remote"]
    /\ Ghost \notin Word
    /\ Kind \subseteq {"deliver", "send", "command", "remote"}
    /\ RowWords \in Nat /\ RowWords # 0 /\ MaxEvents \in Nat /\ Hand \notin Job
  <1>1. /\ Kind \subseteq {"deliver", "send", "command", "remote"}
        /\ RowWords \in Nat /\ RowWords # 0 /\ MaxEvents \in Nat /\ Hand \notin Job
    BY ComposerAssumption DEF Hand
  <1>2. /\ \A k \in Kind : Message[k] \in {"check inbox", "text", "/command", "/remote-control"}
        /\ Message["deliver"] # Message["remote"]
    <2>1. /\ Message["deliver"] = "check inbox" /\ Message["send"] = "text"
          /\ Message["command"] = "/command" /\ Message["remote"] = "/remote-control"
      BY DEF Message
    <2> QED
      BY <1>1, <2>1
  <1> QED
    BY <1>1, <1>2 DEF Key, Word, Break, Hand, Ghost

\* The first n elements of a sequence.
LEMMA Prefix ==
    ASSUME NEW S, NEW s \in Seq(S), NEW n \in 0..Len(s)
    PROVE  /\ SubSeq(s, 1, n) \in Seq(S) /\ Len(SubSeq(s, 1, n)) = n
           /\ \A i \in 1..n : SubSeq(s, 1, n)[i] = s[i]
           /\ SubSeq(s, 1, 0) = <<>> /\ SubSeq(s, 1, Len(s)) = s
           /\ n < Len(s) => SubSeq(s, 1, n + 1) = Append(SubSeq(s, 1, n), s[n + 1])
  <1>1. Len(s) \in Nat /\ n \in Nat /\ n <= Len(s)
    BY LenProperties
  <1>2. \A m \in 0..Len(s) : /\ SubSeq(s, 1, m) = [i \in 1..m |-> s[i]]
    BY <1>1
  <1>3. s = [i \in 1..Len(s) |-> s[i]]
    BY LenProperties
  <1>4. \A i \in 1..Len(s) : s[i] \in S
    BY ElementOfSeq
  <1>5. SubSeq(s, 1, n) \in Seq(S) /\ Len(SubSeq(s, 1, n)) = n /\ \A i \in 1..n : SubSeq(s, 1, n)[i] = s[i]
    <2>1. [i \in 1..n |-> s[i]] \in [1..n -> S]
      BY <1>1, <1>4
    <2> QED
      BY <1>1, <1>2, <2>1
  <1>6. SubSeq(s, 1, 0) = <<>> /\ SubSeq(s, 1, Len(s)) = s
    BY <1>1, <1>2, <1>3
  <1>7. ASSUME n < Len(s)
        PROVE  SubSeq(s, 1, n + 1) = Append(SubSeq(s, 1, n), s[n + 1])
    <2> DEFINE p == SubSeq(s, 1, n)
               q == SubSeq(s, 1, n + 1)
    <2>1. q = [i \in 1..(n + 1) |-> s[i]]
      BY <1>1, <1>2, <1>7
    <2>2. Append(p, s[n + 1]) = [i \in 1..(Len(p) + 1) |-> IF i = Len(p) + 1 THEN s[n + 1] ELSE p[i]]
      BY <1>5
    <2>3. Len(p) = n /\ \A i \in 1..n : p[i] = s[i]
      BY <1>5
    <2> HIDE DEF p, q
    <2>4. \A i \in 1..(n + 1) : s[i] = IF i = n + 1 THEN s[n + 1] ELSE p[i]
      BY <1>1, <2>3
    <2> QED
      BY <2>1, <2>2, <2>3, <2>4
  <1> QED
    BY <1>5, <1>6, <1>7

\* What a row shows of a line is where the line begins.
LEMMA RowIs ==
    ASSUME NEW l \in Seq(Word)
    PROVE  /\ Row(l) \in Seq(Word) /\ Row(<<>>) = <<>>
           /\ \A w : Seqs!Contains(Row(l), w) => Seqs!Contains(l, w)
  <1> DEFINE ends(x) == {n \in 0..Len(x) : n = RowWords \/ n = Len(x) \/ x[n + 1] = Break}
             end(x) == CHOOSE n \in ends(x) : \A m \in ends(x) : n <= m
  <1>1. ASSUME NEW x \in Seq(Word)
        PROVE  /\ end(x) \in 0..Len(x) /\ Row(x) = SubSeq(x, 1, end(x))
    <2>1. Len(x) \in Nat
      BY LenProperties
    <2>2. ends(x) \in SUBSET Nat /\ Len(x) \in ends(x)
      BY <2>1
    <2>3. Row(x) = SubSeq(x, 1, end(x))
      BY DEF Row
    <2>4. \A n \in ends(x) : n \in 0..Len(x)
      OBVIOUS
    <2> HIDE DEF ends
    <2>5. end(x) \in ends(x)
      BY <2>2, LeastNatural
    <2> QED
      BY <2>3, <2>4, <2>5
  <1> HIDE DEF ends, end
  <1>2. /\ Row(l) \in Seq(Word) /\ Len(Row(l)) = end(l) /\ end(l) \in 0..Len(l) /\ Len(l) \in Nat
        /\ \A i \in 1..end(l) : Row(l)[i] = l[i]
    <2>1. PICK n \in 0..Len(l) : n = end(l) /\ Row(l) = SubSeq(l, 1, n)
      BY <1>1
    <2>2. /\ SubSeq(l, 1, n) \in Seq(Word) /\ Len(SubSeq(l, 1, n)) = n
          /\ \A i \in 1..n : SubSeq(l, 1, n)[i] = l[i]
      BY Prefix
    <2> QED
      BY <2>1, <2>2, LenProperties
  <1>3. \A i \in 1..end(l) : i \in 1..Len(l)
    BY <1>2
  <1>4. Row(<<>>) = <<>>
    <2>1. <<>> \in Seq(Word) /\ Len(<<>>) = 0
      OBVIOUS
    <2>2. 0..Len(<<>>) = {0}
      BY <2>1
    <2>3. end(<<>>) = 0 /\ Row(<<>>) = SubSeq(<<>>, 1, end(<<>>))
      BY <1>1, <2>1, <2>2
    <2> QED
      BY <2>1, <2>2, <2>3, Prefix
  <1> QED
    BY <1>2, <1>3, <1>4 DEF Seqs!Contains

-----------------------------------------------------------------------------
(* What an operation has typed, and where the line stands.                 *)

\* How many keys a job that came to its stage has pressed, and which they are:
\* the clearing, the text, the Enter and then its draft.
Pressed(j) ==
    CASE job[j].stage = "clear" -> 0
      [] job[j].stage = "type" -> 1
      [] job[j].stage \in {"await", "enter"} -> 2
      [] job[j].stage = "restore" -> 3
      [] OTHER -> 3 + Len(job[j].draft)

KeyOf(j, i) ==
    CASE i = 1 -> "C-u" [] i = 2 -> Text(j) [] i = 3 -> "Enter" [] OTHER -> job[j].draft[i - 3]

\* The line when the first i of them were read, and lead is what the Enter left.
LineAt(j, i, lead) ==
    CASE i = 0 -> found[j]
      [] i = 1 -> <<>>
      [] i = 2 -> <<Text(j)>>
      [] OTHER -> lead \o SubSeq(job[j].draft, 1, i - 3)

\* Nothing, when it came alone, or the text and a line break.
Left(j) == {<<>>, <<Text(j), Break>>}

\* Has the pane to itself and is typing.
Typing(j) ==
    /\ found[j] # Disturbed
    /\ \/ job[j].stage \in {"clear", "type", "await", "enter"}
       \/ job[j].kind = "deliver" /\ job[j].stage \in {"restore", "nudged"}

\* r of the keys were read, and the others are those in the pty.
Stands(j, r, lead) ==
    /\ Len(pty) = Pressed(j) - r
    /\ \A i \in 1..Len(pty) : pty[i].by = j /\ pty[i].key = KeyOf(j, r + i)
    /\ line = LineAt(j, r, lead)

\* Nobody else's keys are between an operation's, whatever was read of them.
Pane(j) == Typing(j) =>
    /\ mode = "composer"
    /\ job[j].kind = "deliver" => job[j].draft = Row(found[j])
    /\ \E r \in 0..Pressed(j) : \E lead \in Left(j) : Stands(j, r, lead)

\* Nobody has a pane to himself before he looked at it, and a menu is for its own.
Begun(j) ==
    /\ job[j].kind = "none" => found[j] = Disturbed
    /\ job[j].stage = "dismiss" => job[j].kind = "remote"
    /\ job[j].stage = "restore" => job[j].draft # <<>>

\* A framed row is a composer's.
ScreenInv == drawn.bottom = "row" => drawn.mode = "composer"

\* The Enter is all there is to read, and the text all that is on the line.
EnterWaits(j) ==
    /\ Len(pty) = 1 /\ pty[1].by = j /\ pty[1].key = "Enter"
    /\ line = <<Text(j)>> /\ mode = "composer" /\ drawn.mode = "composer"

\* A text that was not on the line before and is on the screen has been read, and
\* when it was seen the Enter comes alone and is not overtaken.
Seen(j) == found[j] # Disturbed /\ ~Seqs!Contains(found[j], Text(j)) =>
    /\ job[j].stage \in {"clear", "type", "await", "enter"} /\ Seqs!Contains(drawn.line, Text(j))
         => pty = <<>> /\ line = <<Text(j)>>
    /\ job[j].stage = "enter" /\ job[j].saw
         => pty = <<>> /\ line = <<Text(j)>> /\ drawn.mode = "composer"
    /\ job[j].stage \in {"dismiss", "nudged"} /\ job[j].saw /\ job[j].draft = <<>>
         => <<Text(j)>> \in sent \/ EnterWaits(j)

JobInv(j) == Begun(j) /\ Pane(j) /\ Seen(j)

ComposerInv == ComposerTypeOK /\ ScreenInv /\ \A j \in Job : JobInv(j)

-----------------------------------------------------------------------------
(* What the program makes of the keys.                                     *)

\* Counting to L.
LEMMA Counting ==
    ASSUME NEW L \in Nat, NEW T, 0 \in T, \A n \in 1..L : n - 1 \in T => n \in T
    PROVE  0..L \subseteq T
  <1> DEFINE Bad == {n \in 0..L : n \notin T}
  <1> SUFFICES ASSUME Bad # {}
               PROVE  FALSE
    OBVIOUS
  <1>1. Bad \in SUBSET Nat
    OBVIOUS
  <1>2. PICK n \in Bad : \A m \in Bad : n <= m
    <2> HIDE DEF Bad
    <2> QED
      BY <1>1, LeastNatural
  <1>3. n \in 1..L /\ n \notin T /\ n - 1 \in 0..L
    BY <1>2
  <1>4. n - 1 \in Bad
    BY <1>3
  <1>5. ~(n <= n - 1)
    BY <1>3
  <1> QED
    BY <1>2, <1>4, <1>5

\* One key more leaves what the program has of its type.
LEMMA TakeType ==
    ASSUME NEW s \in [mode : Mode, line : Seq(Word), sent : SUBSET Seq(Word), answered : SUBSET Job],
           NEW k \in [by : Job \cup {Hand}, key : Key], NEW paste \in BOOLEAN
    PROVE  /\ Take(s, k, paste)
                \in [mode : Mode, line : Seq(Word), sent : SUBSET Seq(Word), answered : SUBSET Job]
           /\ s.sent \subseteq Take(s, k, paste).sent
  <1> DEFINE T == [mode : Mode, line : Seq(Word), sent : SUBSET Seq(Word), answered : SUBSET Job]
  <1>1. <<>> \in Seq(Word) /\ \A w \in Word : Append(s.line, w) \in Seq(Word)
    OBVIOUS
  <1>2. Break \in Word /\ "composer" \in Mode
    BY Words DEF Mode
  <1>3. k.key \in {"C-u", "Enter", "Escape"} \/ k.key \in Word
    BY Words
  <1>4. CASE s.mode # "composer" /\ k.key \notin {"Enter", "Escape"}
    BY <1>4 DEF Take, DialogTakes
  <1>5. CASE s.mode # "composer" /\ k.key \in {"Enter", "Escape"}
    <2> DEFINE by == IF k.key = "Enter" /\ k.by # Hand THEN s.answered \cup {k.by} ELSE s.answered
    <2>1. by \in SUBSET Job
      OBVIOUS
    <2>2. Take(s, k, paste) = [s EXCEPT !.mode = "composer", !.answered = by]
      BY <1>5 DEF Take, DialogTakes
    <2> HIDE DEF by
    <2> QED
      BY <1>2, <2>1, <2>2
  <1>6. CASE s.mode = "composer" /\ k.key \in {"C-u", "Escape"}
    BY <1>1, <1>6 DEF Take, ComposerTakes
  <1>7. CASE s.mode = "composer" /\ k.key = "Enter" /\ paste
    <2>1. Take(s, k, paste) = [s EXCEPT !.line = Append(s.line, Break)]
      BY <1>7 DEF Take, ComposerTakes
    <2> QED
      BY <1>1, <1>2, <2>1
  <1>8. CASE s.mode = "composer" /\ k.key = "Enter" /\ ~paste
    <2>1. Take(s, k, paste) \in {s, [s EXCEPT !.sent = s.sent \cup {s.line}, !.line = <<>>]}
      BY <1>8 DEF Take, ComposerTakes
    <2>2. s.sent \cup {s.line} \in SUBSET Seq(Word)
      OBVIOUS
    <2>3. CASE Take(s, k, paste) = s
      BY <2>3
    <2>4. CASE Take(s, k, paste) = [s EXCEPT !.sent = s.sent \cup {s.line}, !.line = <<>>]
      <3> DEFINE more == s.sent \cup {s.line}
      <3> HIDE DEF more
      <3> QED
        BY <1>1, <2>2, <2>4 DEF more
    <2> QED
      BY <2>1, <2>3, <2>4
  <1>9. CASE s.mode = "composer" /\ k.key \notin {"C-u", "Enter", "Escape"}
    <2>1. Take(s, k, paste) = [s EXCEPT !.line = Append(s.line, k.key)]
      BY <1>9 DEF Take, ComposerTakes
    <2> QED
      BY <1>1, <1>3, <1>9, <2>1
  <1> QED
    BY <1>4, <1>5, <1>6, <1>7, <1>8, <1>9

\* What has been read of what there is is of its type.
LEMMA TakenType ==
    ASSUME ComposerTypeOK
    PROVE  \A n \in 0..Len(pty) :
             /\ Taken[n] \in [mode : Mode, line : Seq(Word), sent : SUBSET Seq(Word), answered : SUBSET Job]
             /\ sent \subseteq Taken[n].sent
  <1> DEFINE T == [mode : Mode, line : Seq(Word), sent : SUBSET Seq(Word), answered : SUBSET Job]
             Good == {n \in 0..Len(pty) : Taken[n] \in T /\ sent \subseteq Taken[n].sent}
  <1>1. pty \in Seq([by : Job \cup {Hand}, key : Key]) /\ Len(pty) \in Nat
    BY LenProperties DEF ComposerTypeOK
  <1>2. /\ Taken[0] = [mode |-> mode, line |-> line, sent |-> sent, answered |-> answered]
        /\ \A n \in 1..Len(pty) : Taken[n] = Take(Taken[n - 1], pty[n], Len(pty) > 1)
    BY <1>1, TakenIs
  <1>3. 0 \in Good
    <2>1. 0 \in 0..Len(pty)
      BY <1>1
    <2> QED
      BY <1>2, <2>1 DEF ComposerTypeOK
  <1>4. ASSUME NEW n \in 1..Len(pty), n - 1 \in Good
        PROVE  n \in Good
    <2>1. n \in 0..Len(pty)
      BY <1>1
    <2>4. pty[n] \in [by : Job \cup {Hand}, key : Key]
      BY <1>1, ElementOfSeq
    <2>0. (Len(pty) > 1) \in BOOLEAN
      OBVIOUS
    <2>2. Taken[n - 1] \in T
      BY <1>4
    <2>3. /\ Take(Taken[n - 1], pty[n], Len(pty) > 1) \in T
          /\ Taken[n - 1].sent \subseteq Take(Taken[n - 1], pty[n], Len(pty) > 1).sent
      BY <2>0, <2>2, <2>4, TakeType
    <2>5. sent \subseteq Taken[n - 1].sent
      BY <1>4
    <2> QED
      BY <1>2, <2>1, <2>3, <2>5
  <1>5. 0..Len(pty) \subseteq Good
    <2> HIDE DEF Good
    <2> QED
      BY <1>1, <1>3, <1>4, Counting
  <1> QED
    BY <1>5

\* What an operation types is a word, and a draft is of words.
LEMMA OfWords ==
    ASSUME ComposerTypeOK, NEW j \in Job, job[j].kind # "none"
    PROVE  /\ Text(j) \in Word /\ Text(j) # Break
           /\ Text(j) \notin {"C-u", "Enter", "Escape"}
           /\ job[j].draft \in Seq(Word) /\ Len(job[j].draft) \in Nat
           /\ Pressed(j) \in Nat /\ Pressed(j) <= 3 + Len(job[j].draft)
  <1>1. job[j].kind \in Kind /\ job[j].draft \in Seq(Word)
    BY DEF ComposerTypeOK
  <1>2. Text(j) \in Word /\ Text(j) # Break
    BY <1>1, Words DEF Text
  <1>3. Text(j) \notin {"C-u", "Enter", "Escape"}
    BY <1>2, Words
  <1>4. Len(job[j].draft) \in Nat
    BY <1>1, LenProperties
  <1>5. Pressed(j) \in {0, 1, 2, 3, 3 + Len(job[j].draft)}
    BY DEF Pressed
  <1> QED
    BY <1>1, <1>2, <1>3, <1>4, <1>5

\* What an Enter leaves is of words.
LEMMA OfLeft ==
    ASSUME ComposerTypeOK, NEW j \in Job, job[j].kind # "none", NEW lead \in Left(j)
    PROVE  lead \in Seq(Word)
  <1>1. Text(j) \in Word /\ Break \in Word
    BY OfWords, Words
  <1>2. <<>> \in Seq(Word) /\ <<Text(j), Break>> \in Seq(Word)
    BY <1>1
  <1> QED
    BY <1>2 DEF Left

\* What is appended to the second of two sequences is at the end of both.
LEMMA AppendConcat ==
    ASSUME NEW p \in Seq(Word), NEW q \in Seq(Word), NEW w \in Word
    PROVE  Append(p \o q, w) = p \o Append(q, w)
  <1>1. Len(p) \in Nat /\ Len(q) \in Nat
    BY LenProperties
  <1>2. /\ p \o q \in Seq(Word) /\ Len(p \o q) = Len(p) + Len(q)
        /\ \A n \in 1..(Len(p) + Len(q)) : (p \o q)[n] = IF n <= Len(p) THEN p[n] ELSE q[n - Len(p)]
    BY ConcatProperties
  <1>3. /\ Append(q, w) \in Seq(Word) /\ Len(Append(q, w)) = Len(q) + 1
        /\ \A n \in 1..Len(q) : Append(q, w)[n] = q[n]
        /\ Append(q, w)[Len(q) + 1] = w
    BY AppendProperties
  <1>4. /\ p \o Append(q, w) \in Seq(Word) /\ Len(p \o Append(q, w)) = Len(p) + (Len(q) + 1)
        /\ \A n \in 1..(Len(p) + (Len(q) + 1)) :
              (p \o Append(q, w))[n] = IF n <= Len(p) THEN p[n] ELSE Append(q, w)[n - Len(p)]
    BY <1>3, ConcatProperties
  <1>5. /\ Append(p \o q, w) \in Seq(Word) /\ Len(Append(p \o q, w)) = Len(p \o q) + 1
        /\ \A n \in 1..Len(p \o q) : Append(p \o q, w)[n] = (p \o q)[n]
        /\ Append(p \o q, w)[Len(p \o q) + 1] = w
    BY <1>2, AppendProperties
  <1>6. ASSUME NEW n \in 1..(Len(p) + (Len(q) + 1))
        PROVE  Append(p \o q, w)[n] = (p \o Append(q, w))[n]
    <2>1. CASE n <= Len(p)
      BY <1>1, <1>2, <1>4, <1>5, <2>1
    <2>2. CASE n > Len(p) /\ n <= Len(p) + Len(q)
      <3>1. n - Len(p) \in 1..Len(q)
        BY <1>1, <2>2
      <3> QED
        BY <1>1, <1>2, <1>3, <1>4, <1>5, <2>2, <3>1
    <2>3. CASE n = Len(p) + Len(q) + 1
      <3>1. n - Len(p) = Len(q) + 1 /\ ~(n <= Len(p))
        BY <1>1, <2>3
      <3> QED
        BY <1>2, <1>3, <1>4, <1>5, <2>3, <3>1
    <2> QED
      BY <1>1, <2>1, <2>2, <2>3
  <1>7. Len(Append(p \o q, w)) = Len(p) + (Len(q) + 1)
    BY <1>1, <1>2, <1>5
  <1> QED
    BY <1>4, <1>5, <1>6, <1>7, SeqEqual

\* One key's step: the line goes on, and only the third key may submit anything.
TookKey(j, i, lead, s, end) ==
    /\ end.mode = "composer" /\ end.line = LineAt(j, i, lead)
    /\ end.sent \in {s.sent, s.sent \cup {<<Text(j)>>}}
    /\ i # 3 => end.sent = s.sent

\* The program has read the first i - 1 keys of an operation and reads the next.
LEMMA KeyTakes ==
    ASSUME ComposerTypeOK, NEW j \in Job, job[j].kind # "none",
           NEW s \in [mode : Mode, line : Seq(Word), sent : SUBSET Seq(Word), answered : SUBSET Job],
           NEW k \in [by : Job \cup {Hand}, key : Key], NEW L \in Nat,
           NEW i \in 1..(3 + Len(job[j].draft)), NEW lead \in Left(j),
           s.mode = "composer", s.line = LineAt(j, i - 1, lead),
           k.key = KeyOf(j, i), i = 3 => lead = IF L > 1 THEN <<Text(j), Break>> ELSE <<>>
    PROVE  TookKey(j, i, lead, s, Take(s, k, L > 1))
  <1> USE DEF TookKey
  <1> DEFINE t == Text(j)
             d == job[j].draft
             end == Take(s, k, L > 1)
  <1>1. /\ t \in Word /\ t \notin {"C-u", "Enter", "Escape"}
        /\ d \in Seq(Word) /\ Len(d) \in Nat /\ i \in Nat
        /\ Break \in Word
    BY OfWords, Words
  <1>2. end = ComposerTakes(s, k, L > 1)
    BY DEF Take
  <1>3. CASE i = 1
    <2>1. k.key = "C-u" /\ LineAt(j, i, lead) = <<>>
      BY <1>3 DEF KeyOf, LineAt
    <2>2. end = [s EXCEPT !.line = <<>>]
      BY <1>2, <2>1 DEF ComposerTakes
    <2> QED
      BY <1>3, <2>1, <2>2
  <1>4. CASE i = 2
    <2>1. k.key = t /\ s.line = <<>> /\ LineAt(j, i, lead) = <<t>>
      BY <1>4 DEF KeyOf, LineAt
    <2>2. end = [s EXCEPT !.line = Append(s.line, t)]
      BY <1>1, <1>2, <2>1 DEF ComposerTakes
    <2>3. Append(<<>>, t) = <<t>>
      OBVIOUS
    <2> QED
      BY <1>4, <2>1, <2>2, <2>3
  <1>5. CASE i = 3
    <2>1. k.key = "Enter" /\ s.line = <<t>>
      BY <1>5 DEF KeyOf, LineAt
    <2>2. SubSeq(d, 1, 0) = <<>>
      BY <1>1, Prefix
    <2>3. LineAt(j, i, lead) = lead
      <3>1. i # 0 /\ i # 1 /\ i # 2 /\ i - 3 = 0
        BY <1>5
      <3>2. LineAt(j, i, lead) = lead \o SubSeq(d, 1, i - 3)
        BY <3>1 DEF LineAt
      <3>3. lead \in Seq(Word)
        BY OfLeft
      <3> QED
        BY <2>2, <3>1, <3>2, <3>3, ConcatEmptySeq
    <2>4. CASE L > 1
      <3>1. end = [s EXCEPT !.line = Append(s.line, Break)]
        BY <1>2, <2>1, <2>4 DEF ComposerTakes
      <3>2. Append(<<t>>, Break) = <<t, Break>>
        <4>1. <<t>> \in Seq(Word) /\ Break \in Word /\ Len(<<t>>) = 1
          BY <1>1
        <4>2. Append(<<t>>, Break) \in Seq(Word) /\ <<t, Break>> \in Seq(Word)
          BY <1>1, <4>1
        <4>3. /\ Len(Append(<<t>>, Break)) = 2 /\ Len(<<t, Break>>) = 2
              /\ Append(<<t>>, Break)[1] = t /\ Append(<<t>>, Break)[2] = Break
          BY <4>1
        <4>4. \A n \in 1..2 : n = 1 \/ n = 2
          OBVIOUS
        <4>5. \A n \in 1..2 : Append(<<t>>, Break)[n] = <<t, Break>>[n]
          BY <4>3, <4>4
        <4> QED
          BY <4>2, <4>3, <4>5, SeqEqual
      <3>3. lead = <<t, Break>>
        BY <1>5, <2>4
      <3> QED
        BY <1>5, <2>1, <2>3, <3>1, <3>2, <3>3
    <2>5. CASE ~(L > 1)
      <3>1. <<t>> # <<>>
        OBVIOUS
      <3>2. end = [s EXCEPT !.sent = s.sent \cup {s.line}, !.line = <<>>]
        BY <1>2, <2>1, <2>5, <3>1 DEF ComposerTakes
      <3>3. lead = <<>>
        BY <1>5, <2>5
      <3> QED
        BY <1>5, <2>1, <2>3, <3>2, <3>3
    <2> QED
      BY <2>4, <2>5
  <1>6. CASE i > 3
    <2>1. PICK n \in Nat : n = i - 4
      BY <1>1, <1>6
    <2>2. n \in 0..Len(d) /\ n < Len(d) /\ i - 3 = n + 1 /\ (i - 1) - 3 = n /\ i - 1 > 2 /\ n + 1 \in 1..Len(d)
      BY <1>1, <1>6, <2>1
    <2>3. i # 0 /\ i # 1 /\ i # 2 /\ i # 3 /\ i - 1 # 0 /\ i - 1 # 1 /\ i - 1 # 2
      BY <1>1, <1>6
    <2>4. PICK q \in Seq(Word) : q = SubSeq(d, 1, n)
      BY <1>1, <2>2, Prefix
    <2>5. PICK w \in Word : w = d[n + 1]
      BY <1>1, <2>2, ElementOfSeq
    <2>6. SubSeq(d, 1, n + 1) = Append(q, w)
      BY <1>1, <2>2, <2>4, <2>5, Prefix
    <2>7. s.line = lead \o q /\ LineAt(j, i, lead) = lead \o Append(q, w)
      <3>1. /\ LineAt(j, i, lead) = lead \o SubSeq(d, 1, i - 3)
            /\ LineAt(j, i - 1, lead) = lead \o SubSeq(d, 1, (i - 1) - 3)
        BY <2>3 DEF LineAt
      <3> QED
        BY <2>2, <2>4, <2>6, <3>1
    <2>8. k.key = w
      BY <2>2, <2>3, <2>5 DEF KeyOf
    <2>9. w \notin {"C-u", "Enter", "Escape"}
      BY <2>5, Words
    <2>10. end = [s EXCEPT !.line = Append(s.line, w)]
      BY <1>2, <2>8, <2>9 DEF ComposerTakes
    <2>11. lead \in Seq(Word)
      BY OfLeft
    <2>12. Append(lead \o q, w) = lead \o Append(q, w)
      BY <2>4, <2>5, <2>11, AppendConcat
    <2> QED
      BY <2>3, <2>7, <2>10, <2>12
  <1> QED
    BY <1>1, <1>3, <1>4, <1>5, <1>6

\* The program reads all there is of the keys of an operation that has the pane to
\* itself: it has come to the end of them, still at the input line, and it has
\* submitted nothing or the text alone.
LEMMA ReadsTyping ==
    ASSUME ComposerTypeOK, NEW j \in Job, job[j].kind # "none", Typing(j), Pane(j)
    PROVE  /\ Taken[Len(pty)].mode = "composer"
           /\ \E lead \in Left(j) : Taken[Len(pty)].line = LineAt(j, Pressed(j), lead)
           /\ Taken[Len(pty)].sent \in {sent, sent \cup {<<Text(j)>>}}
           /\ Pressed(j) < 3 => Taken[Len(pty)].sent = sent
  <1> DEFINE State == [mode : Mode, line : Seq(Word), sent : SUBSET Seq(Word), answered : SUBSET Job]
             L == Len(pty)
             P == Pressed(j)
             t == Text(j)
  <1>1. PICK r \in 0..P : \E lead \in Left(j) : Stands(j, r, lead)
    BY DEF Pane
  <1>2. PICK before \in Left(j) : Stands(j, r, before)
    BY <1>1
  <1>3. /\ P \in Nat /\ P <= 3 + Len(job[j].draft) /\ r \in Nat /\ r <= P
        /\ L = P - r /\ L \in Nat /\ Len(job[j].draft) \in Nat
    BY <1>2, OfWords DEF Stands
  <1>4. PICK lead \in Left(j) : /\ r > 2 => lead = before
                                /\ r <= 2 => lead = IF L > 1 THEN <<t, Break>> ELSE <<>>
    <2>1. CASE r > 2
      BY <1>2, <1>3, <2>1
    <2>2. CASE ~(r > 2)
      <3>1. (IF L > 1 THEN <<t, Break>> ELSE <<>>) \in Left(j)
        BY DEF Left
      <3> QED
        BY <2>2, <3>1
    <2> QED
      BY <2>1, <2>2
  <1>5. line = LineAt(j, r, lead)
    <2>1. r > 2 \/ r = 0 \/ r = 1 \/ r = 2
      BY <1>3
    <2> QED
      BY <1>2, <1>4, <2>1 DEF Stands, LineAt
  <1>6. pty \in Seq([by : Job \cup {Hand}, key : Key])
    BY DEF ComposerTypeOK
  <1>7. /\ Taken[0] = [mode |-> mode, line |-> line, sent |-> sent, answered |-> answered]
        /\ \A n \in 1..L : Taken[n] = Take(Taken[n - 1], pty[n], L > 1)
    BY <1>6, TakenIs
  <1> DEFINE Good == {n \in 0..L :
                        /\ Taken[n].mode = "composer" /\ Taken[n].line = LineAt(j, r + n, lead)
                        /\ \/ Taken[n].sent = sent
                           \/ r + n > 2 /\ Taken[n].sent = sent \cup {<<t>>}}
  <1>8. 0 \in Good
    <2>1. 0 \in 0..L /\ r + 0 = r
      BY <1>3
    <2>2. mode = "composer"
      BY DEF Pane
    <2> QED
      BY <1>5, <1>7, <2>1, <2>2
  <1>9. ASSUME NEW n \in 1..L, n - 1 \in Good
        PROVE  n \in Good
    <2>1. n \in 0..L /\ n - 1 \in 0..L /\ n \in Nat
      BY <1>3
    <2>2. PICK i \in 1..(3 + Len(job[j].draft)) : i = r + n
      BY <1>3
    <2>3. r + (n - 1) = i - 1 /\ r + n = i
      BY <1>3, <2>1, <2>2
    <2>4. PICK s \in State : s = Taken[n - 1]
      BY <2>1, TakenType
    <2>5. PICK k \in [by : Job \cup {Hand}, key : Key] : k = pty[n]
      BY <1>6, ElementOfSeq
    <2>6. k.key = KeyOf(j, i)
      BY <1>2, <2>3, <2>5 DEF Stands
    <2>7. i = 3 => lead = IF L > 1 THEN <<t, Break>> ELSE <<>>
      <3>1. i = 3 => r <= 2
        BY <1>3, <2>1, <2>3
      <3> QED
        BY <1>4, <3>1
    <2>8. Taken[n] = Take(s, k, L > 1)
      BY <1>7, <2>4, <2>5
    <2>9. s.mode = "composer" /\ s.line = LineAt(j, i - 1, lead)
      BY <1>9, <2>3, <2>4
    <2>10. /\ Take(s, k, L > 1).mode = "composer"
           /\ Take(s, k, L > 1).line = LineAt(j, i, lead)
           /\ Take(s, k, L > 1).sent \in {s.sent, s.sent \cup {<<t>>}}
           /\ i # 3 => Take(s, k, L > 1).sent = s.sent
      <3>1. PICK m \in Nat : m = L
        BY <1>3
      <3>2. i = 3 => lead = IF m > 1 THEN <<Text(j), Break>> ELSE <<>>
        BY <2>7, <3>1
      <3>3. TookKey(j, i, lead, s, Take(s, k, m > 1))
        BY <2>6, <2>9, <3>2, KeyTakes
      <3> QED
        BY <3>1, <3>3 DEF TookKey
    <2>11. s.sent = sent \/ (i - 1 > 2 /\ s.sent = sent \cup {<<t>>})
      BY <1>9, <2>3, <2>4
    <2>12. i \in Nat /\ (i - 1 > 2 => i > 2) /\ (i = 3 => i > 2)
      BY <2>2
    <2>13. Taken[n].sent = sent \/ (i > 2 /\ Taken[n].sent = sent \cup {<<t>>})
      <3>1. CASE i = 3
        BY <2>8, <2>10, <2>11, <2>12, <3>1
      <3>2. CASE i # 3
        BY <2>8, <2>10, <2>11, <2>12, <3>2
      <3> QED
        BY <3>1, <3>2
    <2> QED
      BY <2>1, <2>3, <2>8, <2>10, <2>13
  <1>10. L \in Good
    <2>1. 0..L \subseteq Good
      <3> HIDE DEF Good
      <3> QED
        BY <1>3, <1>8, <1>9, Counting
    <2> QED
      BY <1>3, <2>1
  <1>11. r + L = P
    BY <1>3
  <1>12. P < 3 => ~(r + L > 2)
    BY <1>3
  <1> QED
    BY <1>4, <1>10, <1>11, <1>12

\* An operation without the pane to itself has no more to say of it.
LEMMA DisturbedJob ==
    ASSUME NEW j \in Job, found'[j] = Disturbed, Begun(j)'
    PROVE  JobInv(j)'
  BY DEF JobInv, Pane, Seen, Typing

\* Nothing that is said of the pane has changed, but perhaps the screen.
LEMMA SamePane ==
    ASSUME NEW j \in Job, Pane(j), found'[j] = found[j], pty' = pty, line' = line, mode' = mode,
           job'[j].kind = job[j].kind, job'[j].draft = job[j].draft,
           Pressed(j)' = Pressed(j), Typing(j)' => Typing(j)
    PROVE  Pane(j)'
  <1>1. Left(j)' = Left(j)
    BY DEF Left, Text
  <1>2. \A i : KeyOf(j, i)' = KeyOf(j, i)
    BY DEF KeyOf, Text
  <1>3. \A r, lead : LineAt(j, r, lead)' = LineAt(j, r, lead)
    BY DEF LineAt, Text
  <1>4. ASSUME NEW r, NEW lead, Stands(j, r, lead)
        PROVE  Stands(j, r, lead)'
    BY <1>2, <1>3, <1>4 DEF Stands
  <1> QED
    BY <1>1, <1>4 DEF Pane, Row

\* Nothing that an operation speaks of has changed.
LEMMA SameJob ==
    ASSUME NEW j \in Job, JobInv(j), job'[j] = job[j], found'[j] = found[j],
           pty' = pty, line' = line, mode' = mode, sent' = sent, drawn' = drawn
    PROVE  JobInv(j)'
  <1>1. Begun(j)'
    BY DEF JobInv, Begun
  <1>2. Pane(j)'
    <2>1. Pressed(j)' = Pressed(j) /\ (Typing(j)' => Typing(j))
      BY DEF Pressed, Typing
    <2> QED
      BY <2>1, SamePane DEF JobInv
  <1>3. Seen(j)'
    BY DEF JobInv, Seen, EnterWaits, Text
  <1> QED
    BY <1>1, <1>2, <1>3 DEF JobInv

\* Nothing was typed yet.
LEMMA ComposerInvInit ==
    ASSUME ComposerInit
    PROVE  ComposerInv
  <1>1. \A d \in Drafts : d \in Seq(Word)
    <2>1. {"hand"} \subseteq Word
      BY DEF Word, Hand
    <2> QED
      BY <2>1, ComposerAssumption, SeqMonotonic
  <1>2. 0 \in 0..MaxEvents /\ <<>> \in Seq(Word) /\ line \in Seq(Word)
    BY <1>1, Words DEF ComposerInit
  <1>3. ComposerTypeOK
    BY <1>2 DEF ComposerInit, ComposerTypeOK, NoJob, Mode, Bottom, Stages
  <1>4. ScreenInv
    BY DEF ComposerInit, ScreenInv
  <1>5. ASSUME NEW j \in Job
        PROVE  JobInv(j)
    BY DEF ComposerInit, JobInv, Begun, Pane, Seen, Typing, NoJob
  <1> QED
    BY <1>3, <1>4, <1>5 DEF ComposerInv

-----------------------------------------------------------------------------
(* The program, and the person at it.                                      *)

\* The types after the program reads, and that nothing sent is taken back.
LEMMA ReadType ==
    ASSUME ComposerTypeOK, Read
    PROVE  ComposerTypeOK' /\ sent \subseteq sent'
  <1>1. Len(pty) \in Nat
    BY LenProperties DEF ComposerTypeOK
  <1>2. Len(pty) \in 0..Len(pty)
    BY <1>1
  <1>3. PICK end : end = Taken[Len(pty)]
    OBVIOUS
  <1>4. /\ end \in [mode : Mode, line : Seq(Word), sent : SUBSET Seq(Word), answered : SUBSET Job]
        /\ sent \subseteq end.sent
    BY <1>2, <1>3, TakenType
  <1>5. mode' \in {end.mode, "menu"} /\ line' = end.line /\ sent' = end.sent /\ answered' = end.answered
    BY <1>3 DEF Read
  <1>6. mode' \in Mode
    BY <1>4, <1>5 DEF Mode
  <1> QED
    BY <1>4, <1>5, <1>6 DEF ComposerTypeOK, Read

\* Who types alone finds all his keys read, in the order he pressed them.
LEMMA ReadPane ==
    ASSUME ComposerTypeOK, Read, NEW j \in Job, JobInv(j), Typing(j)
    PROVE  Pane(j)'
  <1>1. job[j].kind # "none"
    BY DEF JobInv, Begun, Typing
  <1>2. PICK end : end = Taken[Len(pty)]
    OBVIOUS
  <1>3. /\ end.mode = "composer"
        /\ \E lead \in Left(j) : end.line = LineAt(j, Pressed(j), lead)
        /\ end.sent \in {sent, sent \cup {<<Text(j)>>}}
        /\ Pressed(j) < 3 => end.sent = sent
    BY <1>1, <1>2, ReadsTyping DEF JobInv
  <1>4. <<Message.remote>> \notin end.sent \ sent
    <2>1. CASE job[j].kind = "deliver"
      <3>1. <<Message.remote>> # <<Text(j)>>
        BY <2>1, Words DEF Text
      <3> QED
        BY <1>3, <3>1
    <2>2. CASE job[j].kind # "deliver"
      <3>1. Pressed(j) \in {0, 1, 2}
        BY <2>2 DEF Typing, Pressed
      <3>2. Pressed(j) < 3
        BY <3>1
      <3> QED
        BY <1>3, <3>2
    <2> QED
      BY <2>1, <2>2
  <1>5. mode' = "composer" /\ line' = end.line
    BY <1>2, <1>3, <1>4 DEF Read
  <1>6. job' = job /\ found' = found /\ pty' = <<>>
    BY DEF Read
  <1>7. Pressed(j) \in Nat
    BY <1>1, OfWords
  <1>8. PICK lead \in Left(j) : line' = LineAt(j, Pressed(j), lead)
    BY <1>3, <1>5
  <1>9. Pressed(j)' = Pressed(j) /\ Left(j)' = Left(j)
    BY <1>6 DEF Pressed, Left, Text
  <1>10. Pressed(j) \in 0..Pressed(j) /\ Pressed(j) - Pressed(j) = 0 /\ Len(<<>>) = 0
    BY <1>7
  <1>11. Stands(j, Pressed(j), lead)'
    <2>1. line' = LineAt(j, Pressed(j), lead)'
      BY <1>6, <1>8, <1>9 DEF LineAt, Text
    <2>2. Len(pty') = Pressed(j)' - Pressed(j)'
      BY <1>6, <1>9, <1>10
    <2>3. \A i \in 1..Len(pty') : FALSE
      BY <1>6, <1>10
    <2> QED
      BY <2>1, <2>2, <2>3 DEF Stands
  <1>12. job[j].kind = "deliver" => job[j].draft = Row(found[j])
    BY DEF JobInv, Pane
  <1>13. \E r \in 0..Pressed(j)' : \E l \in Left(j)' : Stands(j, r, l)'
    BY <1>8, <1>9, <1>10, <1>11
  <1> QED
    BY <1>5, <1>6, <1>12, <1>13 DEF Pane, Row

\* A text that was seen is submitted when the Enter is read.
LEMMA ReadSeen ==
    ASSUME ComposerTypeOK, Read, NEW j \in Job, JobInv(j)
    PROVE  Seen(j)'
  <1> SUFFICES ASSUME found[j] # Disturbed, ~Seqs!Contains(found[j], Text(j))
               PROVE  Seen(j)'
    BY DEF Seen, Read, Text
  <1>1. pty # <<>> /\ job' = job /\ drawn' = drawn /\ Text(j)' = Text(j) /\ sent \subseteq sent'
    BY ReadType DEF Read, Text
  <1>2. ASSUME EnterWaits(j)
        PROVE  <<Text(j)>> \in sent'
    <2>1. Len(pty) = 1 /\ pty[1].key = "Enter" /\ line = <<Text(j)>> /\ mode = "composer"
      BY <1>2 DEF EnterWaits
    <2>2. /\ Taken[0] = [mode |-> mode, line |-> line, sent |-> sent, answered |-> answered]
          /\ Taken[1] = Take(Taken[0], pty[1], Len(pty) > 1)
      <3>1. pty \in Seq([by : Job \cup {Hand}, key : Key])
        BY DEF ComposerTypeOK
      <3> QED
        BY <2>1, <3>1, TakenIs
    <2>3. ~(Len(pty) > 1) /\ <<Text(j)>> # <<>>
      BY <2>1
    <2>4. Taken[1] = [Taken[0] EXCEPT !.sent = @ \cup {Taken[0].line}, !.line = <<>>]
      BY <2>1, <2>2, <2>3 DEF Take, ComposerTakes
    <2>5. sent' = Taken[1].sent
      BY <2>1 DEF Read
    <2> QED
      BY <2>1, <2>2, <2>4, <2>5
  <1> QED
    BY <1>1, <1>2 DEF JobInv, Seen

LEMMA ReadInv ==
    ASSUME ComposerInv, Read
    PROVE  ComposerInv'
  <1>1. ComposerTypeOK'
    BY ReadType DEF ComposerInv
  <1>2. ScreenInv'
    BY DEF ComposerInv, ScreenInv, Read
  <1>3. ASSUME NEW j \in Job
        PROVE  JobInv(j)'
    <2>1. Begun(j)'
      BY DEF ComposerInv, JobInv, Begun, Read
    <2>2. Pane(j)'
      <3>1. Typing(j)' => Typing(j)
        BY DEF Typing, Read
      <3> QED
        BY <3>1, ReadPane DEF ComposerInv, Pane
    <2>3. Seen(j)'
      BY ReadSeen DEF ComposerInv
    <2> QED
      BY <2>1, <2>2, <2>3 DEF JobInv
  <1> QED
    BY <1>1, <1>2, <1>3 DEF ComposerInv

\* What is typed onto a line that did not show the text shows it when the keys
\* before the Enter are read.
LEMMA TypedIsRead ==
    ASSUME ComposerTypeOK, NEW j \in Job, JobInv(j), found[j] # Disturbed,
           job[j].stage \in {"clear", "type", "await", "enter"},
           ~Seqs!Contains(found[j], Text(j)), Seqs!Contains(line, Text(j))
    PROVE  pty = <<>> /\ line = <<Text(j)>>
  <1>1. Typing(j) /\ Pressed(j) \in {0, 1, 2} /\ job[j].kind # "none"
    BY DEF Typing, Pressed, JobInv, Begun
  <1>2. PICK r \in 0..Pressed(j) : \E lead \in Left(j) : Stands(j, r, lead)
    BY <1>1 DEF JobInv, Pane
  <1>3. PICK lead \in Left(j) : Stands(j, r, lead)
    BY <1>2
  <1>4. r \in {0, 1, 2} /\ (r = 2 => Pressed(j) = 2)
    BY <1>1, <1>2
  <1>5. r # 0
    BY <1>3 DEF Stands, LineAt
  <1>6. r # 1
    <2>1. ~Seqs!Contains(<<>>, Text(j))
      <3>1. \A i \in 1..Len(<<>>) : FALSE
        OBVIOUS
      <3> QED
        BY <3>1 DEF Seqs!Contains
    <2> QED
      BY <1>3, <2>1 DEF Stands, LineAt
  <1>7. r = 2 /\ Pressed(j) = 2
    BY <1>4, <1>5, <1>6
  <1>8. Len(pty) = 0 /\ line = <<Text(j)>>
    BY <1>3, <1>7 DEF Stands, LineAt
  <1>9. pty = <<>>
    BY <1>8, EmptySeq DEF ComposerTypeOK
  <1> QED
    BY <1>8, <1>9

\* What is drawn is the line as it stands.
LEMMA DrawInv ==
    ASSUME ComposerInv, Draw
    PROVE  ComposerInv'
  <1>1. PICK b \in Bottom, g \in BOOLEAN :
          /\ drawn' = [mode |-> mode, bottom |-> b, ghost |-> g, line |-> line]
          /\ b = "row" => mode = "composer"
    BY DEF Draw, Bottom
  <1>2. ComposerTypeOK'
    BY <1>1 DEF ComposerInv, ComposerTypeOK, Draw, appVars, historyVars
  <1>3. ScreenInv'
    BY <1>1 DEF ScreenInv
  <1>4. ASSUME NEW j \in Job
        PROVE  JobInv(j)'
    <2>1. JobInv(j) /\ ComposerTypeOK
      BY DEF ComposerInv
    <2>2. /\ pty' = pty /\ line' = line /\ mode' = mode /\ sent' = sent
          /\ job' = job /\ found' = found
      BY DEF Draw, appVars, historyVars
    <2>3. Begun(j)'
      BY <2>1, <2>2 DEF JobInv, Begun
    <2>4. Pane(j)'
      <3>1. Pressed(j)' = Pressed(j) /\ (Typing(j)' => Typing(j))
        BY <2>2 DEF Pressed, Typing
      <3> QED
        BY <2>1, <2>2, <3>1, SamePane DEF JobInv
    <2>5. Seen(j)'
      <3> SUFFICES ASSUME found[j] # Disturbed, ~Seqs!Contains(found[j], Text(j))
                   PROVE  Seen(j)'
        BY <2>2 DEF Seen, Text
      <3>1. Text(j)' = Text(j) /\ drawn'.line = line /\ drawn'.mode = mode
        BY <1>1, <2>2 DEF Text
      <3>2. job[j].stage \in {"clear", "type", "await", "enter"} /\ Seqs!Contains(line, Text(j))
              => pty = <<>> /\ line = <<Text(j)>>
        BY <2>1, TypedIsRead
      <3>3. job[j].stage = "enter" => mode = "composer"
        BY <2>1 DEF JobInv, Pane, Typing
      <3>4. EnterWaits(j) => EnterWaits(j)'
        BY <2>2, <3>1 DEF EnterWaits
      <3> QED
        BY <2>1, <2>2, <3>1, <3>2, <3>3, <3>4 DEF JobInv, Seen
    <2> QED
      BY <2>3, <2>4, <2>5 DEF JobInv
  <1> QED
    BY <1>2, <1>3, <1>4 DEF ComposerInv

-----------------------------------------------------------------------------
(* Keys.                                                                   *)

\* Keys are put after those there are.
LEMMA KeysAre ==
    ASSUME ComposerTypeOK, NEW by \in Job \cup {Hand}, NEW keys \in Seq(Key), Keys(by, keys)
    PROVE  /\ pty' \in Seq([by : Job \cup {Hand}, key : Key])
           /\ found' \in [Job -> Seq(Word) \cup {Disturbed}]
           /\ \A i \in Job : found'[i] = IF i = by THEN found[i] ELSE Disturbed
           /\ Len(pty) \in Nat /\ Len(keys) \in Nat /\ Len(pty') = Len(pty) + Len(keys)
           /\ \A n \in 1..(Len(pty) + Len(keys)) :
                pty'[n] = IF n <= Len(pty) THEN pty[n] ELSE [by |-> by, key |-> keys[n - Len(pty)]]
  <1> DEFINE more == [i \in DOMAIN keys |-> [by |-> by, key |-> keys[i]]]
             K == [by : Job \cup {Hand}, key : Key]
  <1>1. pty \in Seq(K) /\ Len(pty) \in Nat /\ Len(keys) \in Nat /\ DOMAIN keys = 1..Len(keys)
    BY LenProperties DEF ComposerTypeOK
  <1>2. more \in [1..Len(keys) -> K]
    BY <1>1, ElementOfSeq
  <1>3. more \in Seq(K) /\ Len(more) = Len(keys)
    BY <1>1, <1>2
  <1>4. \A i \in 1..Len(keys) : more[i] = [by |-> by, key |-> keys[i]]
    BY <1>1
  <1>5. pty' = pty \o more
    BY DEF Keys
  <1> HIDE DEF more
  <1>6. /\ pty' \in Seq(K) /\ Len(pty') = Len(pty) + Len(keys)
        /\ \A n \in 1..(Len(pty) + Len(keys)) :
              pty'[n] = IF n <= Len(pty) THEN pty[n] ELSE more[n - Len(pty)]
    <2>1. pty \in Seq(K) /\ more \in Seq(K)
      BY <1>1, <1>3
    <2> HIDE DEF K
    <2>2. /\ pty \o more \in Seq(K) /\ Len(pty \o more) = Len(pty) + Len(more)
          /\ \A n \in 1..(Len(pty) + Len(more)) :
                (pty \o more)[n] = IF n <= Len(pty) THEN pty[n] ELSE more[n - Len(pty)]
      BY <2>1, ConcatProperties
    <2> QED
      BY <1>3, <1>5, <2>2
  <1>7. ASSUME NEW n \in 1..(Len(pty) + Len(keys)), ~(n <= Len(pty))
        PROVE  more[n - Len(pty)] = [by |-> by, key |-> keys[n - Len(pty)]]
    <2>1. n - Len(pty) \in 1..Len(keys)
      BY <1>1, <1>7
    <2> QED
      BY <1>4, <2>1
  <1>8. /\ found' \in [Job -> Seq(Word) \cup {Disturbed}]
        /\ \A i \in Job : found'[i] = IF i = by THEN found[i] ELSE Disturbed
    BY DEF Keys, ComposerTypeOK
  <1> QED
    BY <1>1, <1>6, <1>7, <1>8

\* One key is a sequence of keys.
LEMMA OneKey ==
    ASSUME NEW k \in Key
    PROVE  \E keys \in Seq(Key) : keys = <<k>>
  <1>1. <<k>> \in Seq(Key)
    OBVIOUS
  <1> QED
    BY <1>1

\* A person's key, or a dialog, ends what is known of the pane.
LEMMA HandInv ==
    ASSUME ComposerInv, DialogOpens \/ \E k \in {Hand, "Enter"} : Press(k)
    PROVE  ComposerInv'
  <1>1. ComposerTypeOK
    BY DEF ComposerInv
  <1>2. MaxEvents \in Nat
    BY Words
  <1>3. /\ ComposerTypeOK' /\ job' = job /\ drawn' = drawn
        /\ \A j \in Job : found'[j] = Disturbed
    <2>1. CASE DialogOpens
      <3>1. events' \in 0..MaxEvents /\ "dialog" \in Mode
        BY <1>1, <1>2, <2>1 DEF DialogOpens, Event, ComposerTypeOK, Mode
      <3>2. found' \in [Job -> Seq(Word) \cup {Disturbed}] /\ \A j \in Job : found'[j] = Disturbed
        BY <2>1 DEF DialogOpens
      <3> QED
        BY <1>1, <2>1, <3>1, <3>2 DEF DialogOpens, ComposerTypeOK
    <2>2. CASE \E k \in {Hand, "Enter"} : Press(k)
      <3>1. PICK k \in {Hand, "Enter"} : Press(k)
        BY <2>2
      <3>2. PICK keys \in Seq(Key) : keys = <<k>>
        <4>1. k \in Key
          BY Words
        <4> QED
          BY <4>1, OneKey
      <3>3. Keys(Hand, keys) /\ Hand \in Job \cup {Hand}
        BY <3>1, <3>2 DEF Press
      <3>4. /\ pty' \in Seq([by : Job \cup {Hand}, key : Key])
            /\ found' \in [Job -> Seq(Word) \cup {Disturbed}]
            /\ \A i \in Job : found'[i] = IF i = Hand THEN found[i] ELSE Disturbed
        BY <1>1, <3>3, KeysAre
      <3>5. events' \in 0..MaxEvents
        BY <1>1, <1>2, <3>1 DEF Press, Event, ComposerTypeOK
      <3>6. \A i \in Job : i # Hand
        BY Words
      <3>7. UNCHANGED <<appVars, drawn, job, answered>>
        BY <3>1 DEF Press
      <3> QED
        BY <1>1, <3>4, <3>5, <3>6, <3>7 DEF ComposerTypeOK, appVars
    <2> QED
      BY <2>1, <2>2
  <1>4. ScreenInv'
    BY <1>3 DEF ComposerInv, ScreenInv
  <1>5. ASSUME NEW j \in Job
        PROVE  JobInv(j)'
    <2>1. Begun(j)'
      BY <1>3 DEF ComposerInv, JobInv, Begun
    <2> QED
      BY <1>3, <2>1, DisturbedJob
  <1> QED
    BY <1>3, <1>4, <1>5 DEF ComposerInv

\* The keys of an operation with the pane to itself come after those it pressed.
LEMMA PressPane ==
    ASSUME ComposerTypeOK, NEW j \in Job, JobInv(j), Typing(j), job[j].kind # "none",
           NEW keys \in Seq(Key), Keys(j, keys), UNCHANGED line,
           Text(j)' = Text(j), job'[j].draft = job[j].draft,
           Pressed(j)' = Pressed(j) + Len(keys),
           \A n \in 1..Len(keys) : keys[n] = KeyOf(j, Pressed(j) + n)
    PROVE  \E r \in 0..Pressed(j)' : \E lead \in Left(j)' : Stands(j, r, lead)'
  <1>1. PICK r \in 0..Pressed(j) : \E lead \in Left(j) : Stands(j, r, lead)
    BY DEF JobInv, Pane
  <1>2. PICK lead \in Left(j) : Stands(j, r, lead)
    BY <1>1
  <1>3. Pressed(j) \in Nat /\ r \in Nat /\ r <= Pressed(j)
    BY OfWords
  <1>4. /\ Len(pty) \in Nat /\ Len(keys) \in Nat /\ Len(pty') = Len(pty) + Len(keys)
        /\ \A n \in 1..(Len(pty) + Len(keys)) :
             pty'[n] = IF n <= Len(pty) THEN pty[n] ELSE [by |-> j, key |-> keys[n - Len(pty)]]
        /\ found'[j] = found[j]
    BY KeysAre
  <1>5. Len(pty) = Pressed(j) - r
    BY <1>2 DEF Stands
  <1>6. Len(pty') = Pressed(j)' - r /\ r \in 0..Pressed(j)'
    BY <1>3, <1>4, <1>5
  <1>7. \A i : KeyOf(j, i)' = KeyOf(j, i)
    BY DEF KeyOf
  <1>8. LineAt(j, r, lead)' = LineAt(j, r, lead) /\ Left(j)' = Left(j)
    BY <1>4 DEF LineAt, Left
  <1>9. ASSUME NEW n \in 1..Len(pty')
        PROVE  pty'[n].by = j /\ pty'[n].key = KeyOf(j, r + n)
    <2>1. CASE n <= Len(pty)
      <3>1. n \in 1..Len(pty)
        BY <1>4, <2>1
      <3> QED
        BY <1>2, <1>4, <2>1, <3>1 DEF Stands
    <2>2. CASE ~(n <= Len(pty))
      <3>1. n - Len(pty) \in 1..Len(keys) /\ Pressed(j) + (n - Len(pty)) = r + n
        BY <1>3, <1>4, <1>5, <2>2
      <3>2. keys[n - Len(pty)] = KeyOf(j, r + n)
        BY <3>1
      <3> QED
        BY <1>4, <2>2, <3>2
    <2> QED
      BY <2>1, <2>2
  <1>10. Stands(j, r, lead)'
    <2>1. line' = LineAt(j, r, lead)'
      BY <1>2, <1>8 DEF Stands
    <2> QED
      BY <1>6, <1>7, <1>9, <2>1 DEF Stands
  <1> QED
    BY <1>2, <1>6, <1>8, <1>10

\* Types, screen and the other operations, when one has pressed keys and goes on.
GoneOn(j, stage) ==
    /\ ComposerTypeOK' /\ ScreenInv' /\ \A i \in Job \ {j} : JobInv(i)'
    /\ job'[j].kind = job[j].kind /\ job'[j].stage = stage
    /\ job'[j].draft = job[j].draft /\ job'[j].saw = job[j].saw
    /\ Text(j)' = Text(j) /\ found'[j] = found[j]
    /\ UNCHANGED <<mode, line, sent, drawn>>

\* Whoever presses keys takes the pane from all others.
LEMMA PressesOthers ==
    ASSUME ComposerInv, NEW j \in Job, job[j].kind # "none", NEW from, NEW keys \in Seq(Key),
           NEW stage \in Stages \ {"idle"}, Presses(j, from, keys, stage)
    PROVE  GoneOn(j, stage)
  <1>1. ComposerTypeOK /\ ScreenInv
    BY DEF ComposerInv
  <1>2. Keys(j, keys) /\ job' = [job EXCEPT ![j].stage = stage] /\ UNCHANGED <<mode, line, sent, drawn, events, answered>>
    BY DEF Presses, Goes, appVars
  <1>3. /\ pty' \in Seq([by : Job \cup {Hand}, key : Key])
        /\ found' \in [Job -> Seq(Word) \cup {Disturbed}]
        /\ \A i \in Job : found'[i] = IF i = j THEN found[i] ELSE Disturbed
    BY <1>1, <1>2, KeysAre
  <1>4. job' \in [Job -> [kind : Kind \cup {"none"}, stage : Stages, draft : Seq(Word), saw : BOOLEAN]]
    BY <1>1, <1>2 DEF ComposerTypeOK
  <1>5. /\ job'[j] = [job[j] EXCEPT !.stage = stage]
        /\ \A i \in Job : i # j => job'[i] = job[i]
    BY <1>1, <1>2 DEF ComposerTypeOK
  <1>6. /\ job'[j].kind = job[j].kind /\ job'[j].stage = stage
        /\ job'[j].draft = job[j].draft /\ job'[j].saw = job[j].saw
    BY <1>1, <1>5 DEF ComposerTypeOK
  <1>7. \A i \in Job : job'[i].stage = "idle" <=> job'[i].kind = "none"
    <2>1. \A i \in Job : job[i].stage = "idle" <=> job[i].kind = "none"
      BY <1>1 DEF ComposerTypeOK
    <2>2. stage # "idle"
      OBVIOUS
    <2> QED
      BY <1>5, <1>6, <2>1, <2>2
  <1>8. ComposerTypeOK'
    BY <1>1, <1>2, <1>3, <1>4, <1>7 DEF ComposerTypeOK
  <1>9. ScreenInv'
    BY <1>1, <1>2 DEF ScreenInv
  <1>10. ASSUME NEW i \in Job \ {j}
         PROVE  JobInv(i)'
    <2>1. Begun(i)'
      BY <1>3, <1>5 DEF ComposerInv, JobInv, Begun
    <2> QED
      BY <1>3, <2>1, DisturbedJob
  <1> QED
    BY <1>2, <1>3, <1>5, <1>6, <1>8, <1>9, <1>10 DEF GoneOn, Text

\* A text that is not on the line and was not typed is not on the screen.
LEMMA NotYetShown ==
    ASSUME ComposerTypeOK, NEW j \in Job, JobInv(j), found[j] # Disturbed,
           job[j].stage \in {"clear", "type"}, ~Seqs!Contains(found[j], Text(j))
    PROVE  ~Seqs!Contains(drawn.line, Text(j))
  <1> SUFFICES ASSUME Seqs!Contains(drawn.line, Text(j))
               PROVE  FALSE
    OBVIOUS
  <1>1. pty = <<>> /\ line = <<Text(j)>>
    BY DEF JobInv, Seen
  <1>2. Typing(j) /\ Pressed(j) \in {0, 1}
    BY DEF Typing, Pressed
  <1>3. PICK r \in 0..Pressed(j) : \E lead \in Left(j) : Stands(j, r, lead)
    BY <1>2 DEF JobInv, Pane
  <1>4. r \in {0, 1} /\ (line = found[j] \/ line = <<>>)
    BY <1>2, <1>3 DEF Stands, LineAt
  <1>5. Seqs!Contains(<<Text(j)>>, Text(j)) /\ <<Text(j)>> # <<>>
    <2>1. 1 \in 1..Len(<<Text(j)>>) /\ <<Text(j)>>[1] = Text(j)
      OBVIOUS
    <2> QED
      BY <2>1 DEF Seqs!Contains
  <1> QED
    BY <1>1, <1>4, <1>5

\* The four that press keys: which keys they are in their order.
LEMMA ClearInv ==
    ASSUME ComposerInv, NEW j \in Job, Clear(j)
    PROVE  ComposerInv'
  <1>1. PICK keys \in Seq(Key) : keys = <<"C-u">>
    <2>1. "C-u" \in Key
      BY DEF Key
    <2> QED
      BY <2>1, OneKey
  <1>2. ComposerTypeOK /\ JobInv(j) /\ job[j].stage = "clear" /\ Presses(j, "clear", keys, "type")
    BY <1>1 DEF ComposerInv, Clear, Presses
  <1>3. job[j].kind # "none" /\ "type" \in Stages \ {"idle"}
    BY <1>2 DEF ComposerTypeOK, Stages
  <1>4. GoneOn(j, "type")
    BY <1>2, <1>3, PressesOthers
  <1>5. Begun(j)'
    BY <1>3, <1>4 DEF Begun, GoneOn
  <1>6. Pane(j)'
    <2> SUFFICES ASSUME found[j] # Disturbed
                 PROVE  Pane(j)'
      BY <1>4 DEF Pane, Typing, GoneOn
    <2>1. Typing(j) /\ Keys(j, keys)
      BY <1>2 DEF Typing, Presses
    <2>2. /\ Pressed(j)' = Pressed(j) + Len(keys)
          /\ \A n \in 1..Len(keys) : keys[n] = KeyOf(j, Pressed(j) + n)
      <3>1. Pressed(j) = 0 /\ Pressed(j)' = 1 /\ Len(keys) = 1 /\ keys[1] = "C-u"
        BY <1>1, <1>2, <1>4 DEF Pressed, GoneOn
      <3>2. KeyOf(j, 1) = "C-u"
        BY DEF KeyOf
      <3> QED
        BY <3>1, <3>2
    <2>3. \E r \in 0..Pressed(j)' : \E lead \in Left(j)' : Stands(j, r, lead)'
      BY <1>2, <1>3, <1>4, <2>1, <2>2, PressPane DEF GoneOn
    <2> QED
      BY <1>2, <1>4, <2>1, <2>3 DEF JobInv, Pane, Row, GoneOn
  <1>7. Seen(j)'
    BY <1>2, <1>4, NotYetShown DEF Seen, GoneOn
  <1> QED
    BY <1>4, <1>5, <1>6, <1>7 DEF ComposerInv, JobInv, GoneOn

LEMMA TypeInv ==
    ASSUME ComposerInv, NEW j \in Job, Type(j)
    PROVE  ComposerInv'
  <1>1. ComposerTypeOK /\ JobInv(j) /\ job[j].stage = "type"
    BY DEF ComposerInv, Type, Presses
  <1>2. job[j].kind # "none" /\ {"await", "refused"} \subseteq Stages \ {"idle"}
    BY <1>1 DEF ComposerTypeOK, Stages
  <1>3. PICK keys \in Seq(Key) : keys = <<Text(j)>>
    <2>1. Text(j) \in Key
      BY <1>1, <1>2, OfWords, Words
    <2> QED
      BY <2>1, OneKey
  <1>4. CASE Presses(j, "type", <<Text(j)>>, "await")
    <2>1. GoneOn(j, "await") /\ Keys(j, keys)
      <3>1. Presses(j, "type", keys, "await")
        BY <1>3, <1>4
      <3> QED
        BY <1>1, <1>2, <3>1, PressesOthers DEF Presses
    <2>2. Begun(j)'
      BY <1>2, <2>1 DEF Begun, GoneOn
    <2>3. Pane(j)'
      <3> SUFFICES ASSUME found[j] # Disturbed
                   PROVE  Pane(j)'
        BY <2>1 DEF Pane, Typing, GoneOn
      <3>1. Typing(j)
        BY <1>1 DEF Typing
      <3>2. /\ Pressed(j)' = Pressed(j) + Len(keys)
            /\ \A n \in 1..Len(keys) : keys[n] = KeyOf(j, Pressed(j) + n)
        <4>1. Pressed(j) = 1 /\ Pressed(j)' = 2 /\ Len(keys) = 1 /\ keys[1] = Text(j)
          BY <1>1, <1>3, <2>1 DEF Pressed, GoneOn
        <4>2. KeyOf(j, 2) = Text(j)
          BY DEF KeyOf
        <4> QED
          BY <4>1, <4>2
      <3>3. \E r \in 0..Pressed(j)' : \E lead \in Left(j)' : Stands(j, r, lead)'
        BY <1>1, <1>2, <2>1, <3>1, <3>2, PressPane DEF GoneOn
      <3> QED
        BY <1>1, <2>1, <3>1, <3>3 DEF JobInv, Pane, Row, GoneOn
    <2>4. Seen(j)'
      BY <1>1, <2>1, NotYetShown DEF Seen, GoneOn
    <2> QED
      BY <2>1, <2>2, <2>3, <2>4 DEF ComposerInv, JobInv, GoneOn
  <1>5. CASE Presses(j, "type", <<Text(j)>>, "refused")
    <2>1. GoneOn(j, "refused")
      <3>1. Presses(j, "type", keys, "refused")
        BY <1>3, <1>5
      <3> QED
        BY <1>1, <1>2, <3>1, PressesOthers
    <2>2. JobInv(j)'
      BY <1>2, <2>1 DEF JobInv, Begun, Pane, Typing, Seen, GoneOn
    <2> QED
      BY <2>1, <2>2 DEF ComposerInv, GoneOn
  <1> QED
    BY <1>4, <1>5 DEF Type

LEMMA EnterInv ==
    ASSUME ComposerInv, NEW j \in Job, Enter(j)
    PROVE  ComposerInv'
  <1>1. PICK stage \in {"restore", "dismiss", "nudged"} :
          /\ Presses(j, "enter", <<"Enter">>, stage)
          /\ stage = "restore" <=> job[j].draft # <<>>
          /\ stage = "dismiss" => job[j].kind = "remote"
    <2> DEFINE to == CASE job[j].draft # <<>> -> "restore"
                       [] job[j].draft = <<>> /\ job[j].kind = "remote" -> "dismiss"
                       [] OTHER -> "nudged"
    <2>1. Presses(j, "enter", <<"Enter">>, to)
      BY DEF Enter
    <2>2. to \in {"restore", "dismiss", "nudged"}
      OBVIOUS
    <2>3. (to = "restore" <=> job[j].draft # <<>>) /\ (to = "dismiss" => job[j].kind = "remote")
      <3>1. CASE job[j].draft # <<>>
        BY <3>1
      <3>2. CASE job[j].draft = <<>> /\ job[j].kind = "remote"
        BY <3>2
      <3>3. CASE job[j].draft = <<>> /\ job[j].kind # "remote"
        BY <3>3
      <3> QED
        BY <3>1, <3>2, <3>3
    <2> HIDE DEF to
    <2> QED
      BY <2>1, <2>2, <2>3
  <1>2. PICK keys \in Seq(Key) : keys = <<"Enter">>
    <2>1. "Enter" \in Key
      BY DEF Key
    <2> QED
      BY <2>1, OneKey
  <1>3. ComposerTypeOK /\ JobInv(j) /\ job[j].stage = "enter" /\ Presses(j, "enter", keys, stage)
    BY <1>1, <1>2 DEF ComposerInv, Presses
  <1>4. job[j].kind # "none" /\ stage \in Stages \ {"idle"}
    BY <1>1, <1>3 DEF ComposerTypeOK, Stages
  <1>5. GoneOn(j, stage) /\ Keys(j, keys)
    BY <1>3, <1>4, PressesOthers DEF Presses
  <1>6. Begun(j)'
    BY <1>1, <1>4, <1>5 DEF Begun, GoneOn
  <1>7. Pane(j)'
    <2> SUFFICES ASSUME Typing(j)'
                 PROVE  Pane(j)'
      BY DEF Pane
    <2>1. Typing(j)
      BY <1>3, <1>5 DEF Typing, GoneOn
    <2>2. stage \in {"restore", "nudged"}
      BY <1>1, <1>5 DEF Typing, GoneOn
    <2>3. Pressed(j) = 2 /\ Pressed(j)' = 3 /\ Len(keys) = 1 /\ keys[1] = "Enter"
      <3>1. Pressed(j) = 2 /\ Len(keys) = 1 /\ keys[1] = "Enter"
        BY <1>2, <1>3 DEF Pressed
      <3>2. CASE stage = "restore"
        BY <1>5, <3>1, <3>2 DEF Pressed, GoneOn
      <3>3. CASE stage = "nudged"
        <4>1. job'[j].draft = <<>> /\ Len(<<>>) = 0
          BY <1>1, <1>5, <3>3 DEF GoneOn
        <4>2. Pressed(j)' = 3 + Len(<<>>)
          BY <1>5, <3>3, <4>1 DEF Pressed, GoneOn
        <4> QED
          BY <3>1, <4>1, <4>2
      <3> QED
        BY <2>2, <3>2, <3>3
    <2>4. /\ Pressed(j)' = Pressed(j) + Len(keys)
          /\ \A n \in 1..Len(keys) : keys[n] = KeyOf(j, Pressed(j) + n)
      <3>1. KeyOf(j, 3) = "Enter"
        BY DEF KeyOf
      <3> QED
        BY <2>3, <3>1
    <2>5. \E r \in 0..Pressed(j)' : \E lead \in Left(j)' : Stands(j, r, lead)'
      BY <1>3, <1>4, <1>5, <2>1, <2>4, PressPane DEF GoneOn
    <2> QED
      BY <1>3, <1>5, <2>1, <2>5 DEF JobInv, Pane, Row, GoneOn
  <1>8. Seen(j)'
    <2> SUFFICES ASSUME found[j] # Disturbed, ~Seqs!Contains(found[j], Text(j)), job[j].saw
                 PROVE  EnterWaits(j)'
      BY <1>1, <1>5 DEF Seen, GoneOn
    <2>1. pty = <<>> /\ line = <<Text(j)>> /\ drawn.mode = "composer" /\ mode = "composer"
      BY <1>3 DEF JobInv, Seen, Pane, Typing
    <2>2. Len(pty) = 0 /\ Len(keys) = 1 /\ keys[1] = "Enter"
      BY <1>2, <2>1
    <2>3. /\ Len(pty') = Len(pty) + Len(keys)
          /\ \A n \in 1..(Len(pty) + Len(keys)) :
               pty'[n] = IF n <= Len(pty) THEN pty[n] ELSE [by |-> j, key |-> keys[n - Len(pty)]]
      BY <1>3, <1>5, KeysAre
    <2>4. Len(pty') = 1 /\ pty'[1] = [by |-> j, key |-> "Enter"]
      BY <2>2, <2>3
    <2> QED
      BY <1>5, <2>1, <2>4 DEF EnterWaits, GoneOn
  <1> QED
    BY <1>5, <1>6, <1>7, <1>8 DEF ComposerInv, JobInv, GoneOn

LEMMA RestoreInv ==
    ASSUME ComposerInv, NEW j \in Job, Restore(j)
    PROVE  ComposerInv'
  <1>1. ComposerTypeOK /\ JobInv(j) /\ job[j].stage = "restore" /\ job[j].draft # <<>>
    BY DEF ComposerInv, JobInv, Begun, Restore, Presses
  <1>2. job[j].kind # "none" /\ "nudged" \in Stages \ {"idle"}
    BY <1>1 DEF ComposerTypeOK, Stages
  <1>3. PICK keys \in Seq(Key) : keys = job[j].draft
    <2>1. job[j].draft \in Seq(Word) /\ Word \subseteq Key
      BY <1>1, <1>2, OfWords, Words
    <2> QED
      BY <2>1, SeqMonotonic
  <1>4. GoneOn(j, "nudged") /\ Keys(j, keys)
    <2>1. Presses(j, "restore", keys, "nudged")
      BY <1>3 DEF Restore
    <2> QED
      BY <1>1, <1>2, <2>1, PressesOthers DEF Presses
  <1>5. Begun(j)'
    BY <1>2, <1>4 DEF Begun, GoneOn
  <1>6. Pane(j)'
    <2> SUFFICES ASSUME Typing(j)'
                 PROVE  Pane(j)'
      BY DEF Pane
    <2>1. Typing(j)
      BY <1>1, <1>4 DEF Typing, GoneOn
    <2>2. Pressed(j) = 3 /\ Pressed(j)' = 3 + Len(keys) /\ Len(keys) \in Nat
      BY <1>1, <1>3, <1>4, LenProperties DEF Pressed, GoneOn
    <2>3. ASSUME NEW n \in 1..Len(keys)
          PROVE  keys[n] = KeyOf(j, Pressed(j) + n)
      <3>1. 3 + n # 1 /\ 3 + n # 2 /\ 3 + n # 3 /\ (3 + n) - 3 = n
        BY <2>2
      <3>2. KeyOf(j, 3 + n) = job[j].draft[n]
        BY <3>1 DEF KeyOf
      <3> QED
        BY <1>3, <2>2, <3>2
    <2>4. \E r \in 0..Pressed(j)' : \E lead \in Left(j)' : Stands(j, r, lead)'
      BY <1>1, <1>2, <1>4, <2>1, <2>2, <2>3, PressPane DEF GoneOn
    <2> QED
      BY <1>1, <1>4, <2>1, <2>4 DEF JobInv, Pane, Row, GoneOn
  <1>7. Seen(j)'
    BY <1>1, <1>4 DEF Seen, GoneOn
  <1> QED
    BY <1>4, <1>5, <1>6, <1>7 DEF ComposerInv, JobInv, GoneOn

-----------------------------------------------------------------------------
(* What presses no key.                                                    *)

\* One operation changes what it remembers, and nothing else is touched.
LEMMA OnlyJob ==
    ASSUME ComposerInv, NEW j \in Job, NEW w, w.stage # "idle", w.kind # "none",
           w \in [kind : Kind \cup {"none"}, stage : Stages, draft : Seq(Word), saw : BOOLEAN],
           job' = [job EXCEPT ![j] = w], events' \in 0..MaxEvents,
           found'[j] \in Seq(Word) \cup {Disturbed}, found' = [found EXCEPT ![j] = found'[j]],
           UNCHANGED <<pty, appVars, drawn, answered>>, JobInv(j)'
    PROVE  ComposerInv'
  <1>1. ComposerTypeOK /\ ScreenInv
    BY DEF ComposerInv
  <1>2. /\ job'[j] = w /\ \A i \in Job : i # j => job'[i] = job[i] /\ found'[i] = found[i]
    BY <1>1 DEF ComposerTypeOK
  <1>3. job' \in [Job -> [kind : Kind \cup {"none"}, stage : Stages, draft : Seq(Word), saw : BOOLEAN]]
    BY <1>1 DEF ComposerTypeOK
  <1>4. \A i \in Job : job'[i].stage = "idle" <=> job'[i].kind = "none"
    <2>1. \A i \in Job : job[i].stage = "idle" <=> job[i].kind = "none"
      BY <1>1 DEF ComposerTypeOK
    <2> QED
      BY <1>2, <2>1
  <1>5. found' \in [Job -> Seq(Word) \cup {Disturbed}]
    BY <1>1 DEF ComposerTypeOK
  <1>6. ComposerTypeOK'
    BY <1>1, <1>3, <1>4, <1>5 DEF ComposerTypeOK, appVars
  <1>7. ScreenInv'
    BY <1>1 DEF ScreenInv
  <1>8. ASSUME NEW i \in Job
        PROVE  JobInv(i)'
    <2>1. CASE i = j
      BY <2>1
    <2>2. CASE i # j
      BY <1>2, <2>2, SameJob DEF ComposerInv, appVars
    <2> QED
      BY <2>1, <2>2
  <1> QED
    BY <1>6, <1>7, <1>8 DEF ComposerInv

\* An operation begins: with a look at a pane at rest it has the pane to itself.
LEMMA StartsInv ==
    ASSUME ComposerInv, NEW j \in Job, job[j] = NoJob, NEW kind \in Kind,
           NEW stage \in {"clear", "refused"}, NEW draft \in Seq(Word),
           Starts(j, kind, stage, draft), events' \in 0..MaxEvents,
           IF stage = "clear" THEN Looked(j) ELSE UNCHANGED found,
           kind = "deliver" /\ stage = "clear" => draft = Row(drawn.line),
           UNCHANGED <<pty, appVars, drawn, answered>>
    PROVE  ComposerInv'
  <1> DEFINE w == [NoJob EXCEPT !.kind = kind, !.stage = stage, !.draft = draft]
  <1>1. ComposerTypeOK /\ JobInv(j)
    BY DEF ComposerInv
  <1>2. found[j] = Disturbed /\ found \in [Job -> Seq(Word) \cup {Disturbed}]
    BY <1>1 DEF JobInv, Begun, NoJob, ComposerTypeOK
  <1>3. job' = [job EXCEPT ![j] = w] /\ job'[j] = w
    BY <1>1 DEF Starts, ComposerTypeOK
  <1>4. /\ w \in [kind : Kind \cup {"none"}, stage : Stages, draft : Seq(Word), saw : BOOLEAN]
        /\ w.stage # "idle" /\ w.kind # "none"
        /\ w.kind = kind /\ w.stage = stage /\ w.draft = draft /\ w.saw = FALSE
    <2>1. kind # "none" /\ stage \in Stages
      BY Words DEF Stages
    <2>2. <<>> \in Seq(Word)
      OBVIOUS
    <2> QED
      BY <2>1, <2>2 DEF NoJob, Stages
  <1> HIDE DEF w
  <1>5. /\ found' = [found EXCEPT ![j] = found'[j]]
        /\ \/ found'[j] = Disturbed
           \/ stage = "clear" /\ found'[j] = line /\ pty = <<>> /\ drawn.line = line /\ mode = "composer"
    BY <1>2 DEF Looked
  <1>6. found'[j] \in Seq(Word) \cup {Disturbed}
    BY <1>1, <1>5 DEF ComposerTypeOK
  <1>7. /\ job'[j].kind = kind /\ job'[j].stage = stage /\ job'[j].draft = draft /\ job'[j].saw = FALSE
    BY <1>3, <1>4
  <1>8. Begun(j)'
    BY <1>4, <1>7 DEF Begun
  <1>9. CASE found'[j] = Disturbed
    BY <1>3, <1>4, <1>5, <1>6, <1>8, <1>9, DisturbedJob, OnlyJob
  <1>10. CASE found'[j] # Disturbed
    <2>1. stage = "clear" /\ found'[j] = line /\ pty = <<>> /\ drawn.line = line /\ mode = "composer"
      BY <1>5, <1>10
    <2>2. pty' = <<>> /\ line' = line /\ mode' = "composer" /\ drawn' = drawn
      BY <2>1 DEF appVars
    <2>3. Pane(j)'
      <3>1. Pressed(j)' = 0 /\ <<>> \in Left(j)'
        BY <1>7, <2>1 DEF Pressed, Left
      <3>2. Stands(j, 0, <<>>)'
        <4>1. LineAt(j, 0, <<>>)' = line
          BY <2>1 DEF LineAt
        <4>2. Len(<<>>) = 0 /\ 0 - 0 = 0 /\ \A i \in 1..0 : FALSE
          OBVIOUS
        <4> QED
          BY <2>2, <3>1, <4>1, <4>2 DEF Stands
      <3>3. 0 \in 0..Pressed(j)'
        BY <3>1
      <3> QED
        BY <1>7, <2>1, <2>2, <3>1, <3>2, <3>3 DEF Pane, Row
    <2>4. Seen(j)'
      BY <1>7, <2>1, <2>2 DEF Seen
    <2>5. JobInv(j)'
      BY <1>8, <2>3, <2>4 DEF JobInv
    <2> QED
      BY <1>3, <1>4, <1>5, <1>6, <2>5, OnlyJob
  <1> QED
    BY <1>9, <1>10

\* The nudge's look, and the operator's.
LEMMA LookInv ==
    ASSUME ComposerInv, NEW j \in Job, LookToNudge(j) \/ \E kind \in Kind : Guard(j, kind)
    PROVE  ComposerInv'
  <1>1. ComposerTypeOK
    BY DEF ComposerInv
  <1>2. drawn.line \in Seq(Word) /\ <<>> \in Seq(Word)
    BY <1>1 DEF ComposerTypeOK
  <1>3. events \in 0..MaxEvents /\ (Event => events' \in 0..MaxEvents)
    BY <1>1, Words DEF Event, ComposerTypeOK
  <1>4. CASE LookToNudge(j)
    <2>1. "deliver" \in Kind /\ job[j] = NoJob /\ UNCHANGED <<pty, appVars, drawn, answered>>
      BY <1>4 DEF LookToNudge
    <2>2. CASE Starts(j, "deliver", "clear", Draft(drawn)) /\ Looked(j) /\ UNCHANGED events
      <3>1. Draft(drawn) = Row(drawn.line) /\ Draft(drawn) \in Seq(Word)
        BY <1>2, RowIs DEF Draft
      <3> QED
        BY <1>3, <2>1, <2>2, <3>1, StartsInv
    <2>3. CASE Starts(j, "deliver", "refused", <<>>) /\ UNCHANGED found /\ (Event \/ UNCHANGED events)
      BY <1>2, <1>3, <2>1, <2>3, StartsInv
    <2> QED
      BY <1>4, <2>2, <2>3 DEF LookToNudge
  <1>5. CASE \E kind \in Kind : Guard(j, kind)
    <2>1. PICK kind \in Kind : Guard(j, kind)
      BY <1>5
    <2>2. kind # "deliver" /\ job[j] = NoJob /\ UNCHANGED <<pty, appVars, drawn, answered>>
      BY <2>1 DEF Guard
    <2>3. CASE Starts(j, kind, "clear", <<>>) /\ Looked(j) /\ (Event \/ UNCHANGED events)
      BY <1>2, <1>3, <2>2, <2>3, StartsInv
    <2>4. CASE Starts(j, kind, "refused", <<>>) /\ UNCHANGED <<events, found>>
      BY <1>2, <1>3, <2>2, <2>4, StartsInv
    <2> QED
      BY <2>1, <2>3, <2>4 DEF Guard
  <1> QED
    BY <1>4, <1>5

\* What is seen on the row was read, and the Enter can only come alone.
LEMMA AwaitInv ==
    ASSUME ComposerInv, NEW j \in Job, Await(j)
    PROVE  ComposerInv'
  <1>1. ComposerTypeOK /\ JobInv(j) /\ ScreenInv /\ job[j].stage = "await"
    BY DEF ComposerInv, Await
  <1>2. PICK saw \in {FALSE, Holds(drawn, Text(j))} :
          job' = [job EXCEPT ![j].stage = "enter", ![j].saw = saw]
    BY DEF Await
  <1>3. saw \in BOOLEAN /\ (saw => Holds(drawn, Text(j)))
    BY <1>2 DEF Holds
  <1>4. UNCHANGED <<pty, appVars, drawn, events, found, answered>>
    BY DEF Await, historyVars
  <1> DEFINE w == [job[j] EXCEPT !.stage = "enter", !.saw = saw]
  <1>5. job' = [job EXCEPT ![j] = w] /\ job'[j] = w
    BY <1>1, <1>2 DEF ComposerTypeOK
  <1>6. /\ w \in [kind : Kind \cup {"none"}, stage : Stages, draft : Seq(Word), saw : BOOLEAN]
        /\ w.stage = "enter" /\ w.kind = job[j].kind /\ w.draft = job[j].draft /\ w.saw = saw
    BY <1>1, <1>3 DEF ComposerTypeOK, Stages
  <1>7. job[j].kind # "none"
    BY <1>1 DEF ComposerTypeOK
  <1> HIDE DEF w
  <1>8. Begun(j)'
    BY <1>5, <1>6, <1>7 DEF Begun
  <1>9. Pane(j)'
    <2>1. Pressed(j)' = Pressed(j) /\ (Typing(j)' => Typing(j))
      BY <1>1, <1>4, <1>5, <1>6 DEF Pressed, Typing
    <2> QED
      BY <1>1, <1>4, <1>5, <1>6, <2>1, SamePane DEF JobInv, appVars
  <1>10. Seen(j)'
    <2>1. Text(j)' = Text(j)
      BY <1>5, <1>6 DEF Text
    <2>2. saw => Seqs!Contains(drawn.line, Text(j)) /\ drawn.mode = "composer"
      <3>1. drawn.line \in Seq(Word)
        BY <1>1 DEF ComposerTypeOK
      <3> QED
        BY <1>1, <1>3, <3>1, RowIs DEF Holds, Draft, ScreenInv
    <2> QED
      BY <1>1, <1>4, <1>5, <1>6, <2>1, <2>2 DEF JobInv, Seen, appVars
  <1>11. events' \in 0..MaxEvents /\ found' = [found EXCEPT ![j] = found'[j]]
         /\ found'[j] \in Seq(Word) \cup {Disturbed}
    BY <1>1, <1>4 DEF ComposerTypeOK
  <1> QED
    BY <1>4, <1>5, <1>6, <1>7, <1>8, <1>9, <1>10, <1>11, OnlyJob DEF JobInv

\* What broke off says nothing more of the pane.
LEMMA BreaksInv ==
    ASSUME ComposerInv, NEW j \in Job, Breaks(j)
    PROVE  ComposerInv'
  <1> DEFINE w == [NoJob EXCEPT !.kind = job[j].kind, !.stage = "failed"]
  <1>1. ComposerTypeOK /\ job[j].stage # "idle"
    BY DEF ComposerInv, Breaks
  <1>2. job' = [job EXCEPT ![j] = w] /\ job'[j] = w
    BY <1>1 DEF Breaks, ComposerTypeOK
  <1>3. /\ w \in [kind : Kind \cup {"none"}, stage : Stages, draft : Seq(Word), saw : BOOLEAN]
        /\ w.stage = "failed" /\ w.kind # "none"
    <2>1. <<>> \in Seq(Word)
      OBVIOUS
    <2> QED
      BY <1>1, <2>1 DEF NoJob, ComposerTypeOK, Stages
  <1>4. events' \in 0..MaxEvents
    BY <1>1, Words DEF Breaks, Event, ComposerTypeOK
  <1>5. UNCHANGED <<pty, appVars, drawn, found, answered>>
    BY DEF Breaks, historyVars
  <1> HIDE DEF w
  <1>6. JobInv(j)'
    BY <1>2, <1>3 DEF JobInv, Begun, Pane, Typing, Seen
  <1>7. found' = [found EXCEPT ![j] = found'[j]] /\ found'[j] \in Seq(Word) \cup {Disturbed}
    BY <1>1, <1>5 DEF ComposerTypeOK
  <1> QED
    BY <1>2, <1>3, <1>4, <1>5, <1>6, <1>7, OnlyJob

\* The menu cannot be on the screen before the Enter is read.
LEMMA DismissInv ==
    ASSUME ComposerInv, NEW j \in Job, Dismiss(j)
    PROVE  ComposerInv'
  <1>1. ComposerTypeOK /\ JobInv(j) /\ job[j].stage = "dismiss" /\ job[j].kind = "remote"
    BY DEF ComposerInv, JobInv, Begun, Dismiss, Presses
  <1>2. CASE drawn.mode = "menu" /\ Presses(j, "dismiss", <<"Escape">>, "nudged")
    <2>1. PICK keys \in Seq(Key) : keys = <<"Escape">>
      <3>1. "Escape" \in Key
        BY DEF Key
      <3> QED
        BY <3>1, OneKey
    <2>2. Presses(j, "dismiss", keys, "nudged") /\ "nudged" \in Stages \ {"idle"}
      BY <1>2, <2>1 DEF Stages
    <2>3. GoneOn(j, "nudged")
      BY <1>1, <2>2, PressesOthers
    <2>4. Begun(j)' /\ Pane(j)'
      BY <1>1, <2>3 DEF GoneOn, Begun, Pane, Typing
    <2>5. ~EnterWaits(j)
      BY <1>2 DEF EnterWaits
    <2>6. Seen(j)'
      BY <1>1, <2>3, <2>5 DEF JobInv, Seen, GoneOn
    <2> QED
      BY <2>3, <2>4, <2>6 DEF ComposerInv, JobInv, GoneOn
  <1>3. CASE Goes(j, "nudged") /\ UNCHANGED <<pty, appVars, drawn, events, historyVars>>
    <2> DEFINE w == [job[j] EXCEPT !.stage = "nudged"]
    <2>1. job' = [job EXCEPT ![j] = w] /\ job'[j] = w
      BY <1>1, <1>3 DEF Goes, ComposerTypeOK
    <2>2. /\ w \in [kind : Kind \cup {"none"}, stage : Stages, draft : Seq(Word), saw : BOOLEAN]
          /\ w.stage = "nudged" /\ w.kind = "remote" /\ w.draft = job[j].draft /\ w.saw = job[j].saw
      BY <1>1 DEF ComposerTypeOK, Stages
    <2> HIDE DEF w
    <2>3. UNCHANGED <<pty, appVars, drawn, events, found, answered>>
      BY <1>3 DEF historyVars
    <2>4. Begun(j)' /\ Pane(j)'
      BY <2>1, <2>2 DEF Begun, Pane, Typing
    <2>5. Seen(j)'
      <3>1. Text(j)' = Text(j)
        BY <1>1, <2>1, <2>2 DEF Text
      <3>2. EnterWaits(j)' = EnterWaits(j)
        BY <2>3, <3>1 DEF EnterWaits, appVars
      <3> QED
        BY <1>1, <2>1, <2>2, <2>3, <3>1, <3>2 DEF JobInv, Seen, appVars
    <2>6. events' \in 0..MaxEvents /\ found' = [found EXCEPT ![j] = found'[j]]
          /\ found'[j] \in Seq(Word) \cup {Disturbed}
      BY <1>1, <2>3 DEF ComposerTypeOK
    <2> QED
      BY <2>1, <2>2, <2>3, <2>4, <2>5, <2>6, OnlyJob DEF JobInv
  <1> QED
    BY <1>2, <1>3 DEF Dismiss

LEMMA ComposerInvNext ==
    ASSUME ComposerInv, [ComposerNext]_composerVars
    PROVE  ComposerInv'
  <1>1. CASE Read
    BY <1>1, ReadInv
  <1>2. CASE Draw
    BY <1>2, DrawInv
  <1>3. CASE DialogOpens \/ \E k \in {Hand, "Enter"} : Press(k)
    BY <1>3, HandInv
  <1>4. ASSUME NEW j \in Job, Work(j) \/ Breaks(j)
        PROVE  ComposerInv'
    BY <1>4, LookInv, ClearInv, TypeInv, AwaitInv, EnterInv, RestoreInv, DismissInv, BreaksInv DEF Work
  <1>5. CASE UNCHANGED composerVars
    <2>1. ComposerTypeOK' /\ ScreenInv'
      BY <1>5 DEF ComposerInv, ComposerTypeOK, ScreenInv, composerVars, appVars, historyVars
    <2>2. ASSUME NEW j \in Job
          PROVE  JobInv(j)'
      BY <1>5, SameJob DEF ComposerInv, composerVars, appVars, historyVars
    <2> QED
      BY <2>1, <2>2 DEF ComposerInv
  <1> QED
    BY <1>1, <1>2, <1>3, <1>4, <1>5 DEF ComposerNext

\* Whoever looked at a pane at rest and has shared it with nobody since knows what
\* of his keys was read and what the line holds, whatever was drawn and when.
THEOREM ComposerInvariant == ComposerSpec => []ComposerInv
  BY ComposerInvInit, ComposerInvNext, PTL DEF ComposerSpec

\* Types of the pane and of the operations on it.
THEOREM ComposerTypes == ComposerSpec => []ComposerTypeOK
  <1>1. ComposerInv => ComposerTypeOK
    BY DEF ComposerInv
  <1> QED
    BY <1>1, ComposerInvariant, PTL

\* A message that was waited for and seen is submitted as a line of its own:
\* awaitComposer's Enter is never in one read with the text.
THEOREM SeenMeansSubmitted == ComposerSpec => []SeenIsSubmitted
  <1>1. ASSUME ComposerInv
        PROVE  SeenIsSubmitted
    <2> SUFFICES ASSUME NEW j \in Job, Settled(j), job[j].saw, job[j].draft = <<>>,
                        ~Seqs!Contains(found[j], Text(j))
                 PROVE  <<Text(j)>> \in sent
      BY DEF SeenIsSubmitted
    <2>1. JobInv(j) /\ job[j].stage = "nudged" /\ found[j] # Disturbed /\ pty = <<>>
      BY <1>1 DEF ComposerInv, Settled
    <2>2. ~EnterWaits(j)
      <3>1. Len(<<>>) # 1
        OBVIOUS
      <3> QED
        BY <2>1, <3>1 DEF EnterWaits
    <2> QED
      BY <2>1, <2>2 DEF JobInv, Seen
  <1> QED
    BY <1>1, ComposerInvariant, PTL

\* A nudge leaves the draft it came upon on the line, unsent
\* (SendCommandPreservingDraft), after no more than its own text and a break.
THEOREM DraftSurvivesNudge == ComposerSpec => []NudgeKeepsDraft
  <1>1. ASSUME ComposerInv
        PROVE  NudgeKeepsDraft
    <2> SUFFICES ASSUME NEW j \in Job, Settled(j), job[j].kind = "deliver", Row(found[j]) = found[j]
                 PROVE  line \in {found[j], <<Text(j), Break>> \o found[j]}
      BY DEF NudgeKeepsDraft
    <2>1. /\ ComposerTypeOK /\ Pane(j) /\ job[j].stage = "nudged" /\ found[j] # Disturbed /\ pty = <<>>
          /\ job[j].kind # "none"
      BY <1>1 DEF ComposerInv, JobInv, Settled
    <2>2. PICK d \in Seq(Word) : d = job[j].draft /\ d = found[j]
      BY <2>1, OfWords DEF Pane, Typing
    <2>3. Len(d) \in Nat
      BY <2>2, LenProperties
    <2>4. Pressed(j) = 3 + Len(d)
      BY <2>1, <2>2 DEF Pressed
    <2>5. PICK r \in 0..Pressed(j) : \E lead \in Left(j) : Stands(j, r, lead)
      BY <2>1 DEF Pane, Typing
    <2>6. PICK lead \in Left(j) : Stands(j, r, lead)
      BY <2>5
    <2>7. r = 3 + Len(d)
      <3>1. Len(pty) = Pressed(j) - r /\ Len(pty) = 0
        BY <2>1, <2>6 DEF Stands
      <3> QED
        BY <2>3, <2>4, <2>5, <3>1
    <2>8. r # 0 /\ r # 1 /\ r # 2 /\ r - 3 = Len(d)
      BY <2>3, <2>7
    <2>9. line = lead \o SubSeq(d, 1, Len(d))
      BY <2>2, <2>6, <2>8 DEF Stands, LineAt
    <2>10. SubSeq(d, 1, Len(d)) = d
      BY <2>2, SubSeqFull
    <2>11. <<>> \o d = d
      BY <2>2, ConcatEmptySeq
    <2> QED
      BY <2>2, <2>6, <2>9, <2>10, <2>11 DEF Left
  <1> QED
    BY <1>1, ComposerInvariant, PTL
=============================================================================
