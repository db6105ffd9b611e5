---------------------------- MODULE InboxProofs ----------------------------
(***************************************************************************)
(* Theorems about Inbox, for any messages, sessions, readers and limits:   *)
(* types, the bound on a backlog, what a trim sheds, and that the store    *)
(* and the hook implement Mailbox.                                         *)
(***************************************************************************)
EXTENDS Inbox, FiniteSetTheorems, TLAPS

\* How far a send has come, against the copies it has put.
SendPuts(m) ==
    /\ send[m] \in {"idle", "begun"} => \A s \in Session : <<m, s>> \notin put
    /\ send[m] = "begun" => todo[m] = to[m]
    /\ todo[m] \subseteq to[m]
    /\ send[m] \in {"fanOut", "ok"} => \A s \in to[m] : s \in todo[m] \/ <<m, s>> \in put
    /\ send[m] = "ok" => todo[m] = {}
    /\ \A s \in Session : <<m, s>> \in put => s \in to[m] \ todo[m]
SendsPut == \A m \in Msg : SendPuts(m)

\* A copy is in one place at a time: a row, one reply under way, or printed once.
OnlyWaiting == undrained \subseteq put
OnlyTaken ==
    \A r \in Reader :
        /\ batch[r] \subseteq put \ undrained
        /\ batch[r] \subseteq Msg \X {Of[r]}
        /\ hook[r] # "answered" => batch[r] = {}
        /\ \A q \in Reader : q # r => batch[q] \cap batch[r] = {}
OnlyPrinted ==
    \A x \in Copy :
        /\ printed[x] \in {0, 1}
        /\ printed[x] = 1 => x \in put \ undrained /\ \A r \in Reader : x \notin batch[r]

CopyInv == OnlyWaiting /\ OnlyTaken /\ OnlyPrinted
Inv == TypeOK /\ SendsPut /\ CopyInv

-----------------------------------------------------------------------------
(* Types and the inductive invariant.                                      *)

LEMMA InvInit == Init => Inv
  <1> USE InboxAssumption DEF Init
  <1>1. Init => TypeOK
    BY DEF TypeOK, SendPC, HookPC
  <1>2. Init => SendsPut
    BY DEF SendsPut, SendPuts
  <1>3. Init => CopyInv
    BY DEF CopyInv, OnlyWaiting, OnlyTaken, OnlyPrinted
  <1> QED
    BY <1>1, <1>2, <1>3 DEF Inv

\* Every step keeps the types; the foreign key is why a delivery has a message.
LEMMA TypeStep == TypeOK /\ [Next]_vars => TypeOK'
  <1> SUFFICES ASSUME TypeOK, [Next]_vars
               PROVE  TypeOK'
    OBVIOUS
  <1> USE InboxAssumption DEF TypeOK, sendVars, rowVars, hookVars, SendPC, HookPC, Copy
  <1>1. CASE UNCHANGED vars
    BY <1>1 DEF vars
  <1>2. ASSUME NEW m \in Msg, NEW S \in SUBSET Session, Begin(m, S)
        PROVE  TypeOK'
    BY <1>2 DEF Begin
  <1>3. ASSUME NEW m \in Msg, InsertMessage(m)
        PROVE  TypeOK'
    BY <1>3 DEF InsertMessage
  <1>4. ASSUME NEW m \in Msg, NEW s \in Session, InsertDelivery(m, s)
        PROVE  TypeOK'
    BY <1>4 DEF InsertDelivery
  <1>5. ASSUME NEW m \in Msg, Trim(m)
        PROVE  TypeOK'
    BY <1>5 DEF Trim
  <1>6. ASSUME NEW m \in Msg, Finish(m) \/ Fail(m)
        PROVE  TypeOK'
    BY <1>6 DEF Finish, Fail
  <1>7. ASSUME NEW r \in Reader, Ask(r) \/ DrainFails(r) \/ GiveUp(r)
        PROVE  TypeOK'
    BY <1>7 DEF Ask, DrainFails, GiveUp
  <1>8. ASSUME NEW r \in Reader, Drain(r)
        PROVE  TypeOK'
    <2>1. Of[r] \in Session /\ Mail(Of[r]) \subseteq Msg
      BY DEF Mail
    <2>2. undrained' \subseteq undrained
      BY <1>8 DEF Drain
    <2>3. batch' \in [Reader -> SUBSET Copy] /\ hook' \in [Reader -> HookPC]
      BY <1>8, <2>1 DEF Drain
    <2> QED
      BY <1>8, <2>2, <2>3 DEF Drain
  <1>9. ASSUME NEW r \in Reader, Show(r)
        PROVE  TypeOK'
    BY <1>9 DEF Show
  <1>10. CASE Tick
    BY <1>10 DEF Tick
  <1>11. CASE Vacuum
    BY <1>11 DEF Vacuum, Cascade
  <1> QED
    BY <1>1, <1>2, <1>3, <1>4, <1>5, <1>6, <1>7, <1>8, <1>9, <1>10, <1>11
    DEF Next, SendStep, HookStep

\* A send puts a copy for each recipient in turn, and says "ok" after the last.
LEMMA SendsStep == TypeOK /\ SendsPut /\ [Next]_vars => SendsPut'
  <1> SUFFICES ASSUME TypeOK, SendsPut, [Next]_vars
               PROVE  SendsPut'
    OBVIOUS
  <1> USE DEF TypeOK, SendsPut, SendPuts, sendVars
  <1>1. CASE UNCHANGED vars
    BY <1>1 DEF vars
  <1>2. ASSUME NEW m \in Msg, NEW S \in SUBSET Session, Begin(m, S)
        PROVE  SendsPut'
    BY <1>2 DEF Begin
  <1>3. ASSUME NEW m \in Msg, InsertMessage(m)
        PROVE  SendsPut'
    BY <1>3 DEF InsertMessage
  <1>4. ASSUME NEW m \in Msg, NEW s \in Session, InsertDelivery(m, s)
        PROVE  SendsPut'
    <2>1. \A n \in Msg \ {m} : SendPuts(n)'
      BY <1>4 DEF InsertDelivery
    <2>2. SendPuts(m)'
      BY <1>4 DEF InsertDelivery
    <2> QED
      BY <2>1, <2>2
  <1>5. ASSUME NEW m \in Msg, Trim(m) \/ Finish(m) \/ Fail(m)
        PROVE  SendsPut'
    BY <1>5 DEF Trim, Finish, Sent, Fail, SendPC
  <1>6. ASSUME NEW r \in Reader, HookStep(r)
        PROVE  SendsPut'
    BY <1>6 DEF HookStep, Ask, Drain, DrainFails, Show, GiveUp
  <1>7. CASE Tick \/ Vacuum
    BY <1>7 DEF Tick, Vacuum
  <1> QED
    BY <1>1, <1>2, <1>3, <1>4, <1>5, <1>6, <1>7 DEF Next, SendStep

\* A copy moves from row to reply to screen and is never in two of them.
LEMMA CopyStep == TypeOK /\ SendsPut /\ CopyInv /\ [Next]_vars => CopyInv'
  <1> SUFFICES ASSUME TypeOK, SendsPut, CopyInv, [Next]_vars
               PROVE  CopyInv'
    OBVIOUS
  <1> USE DEF TypeOK, CopyInv, OnlyWaiting, OnlyTaken, OnlyPrinted, sendVars, rowVars, hookVars
  <1>1. ASSUME UNCHANGED <<hook, batch, put, printed>>, undrained' \subseteq undrained
        PROVE  CopyInv'
    BY <1>1
  <1>2. CASE UNCHANGED vars \/ Tick \/ Vacuum
    BY <1>1, <1>2 DEF vars, Tick, Vacuum
  <1>3. ASSUME NEW m \in Msg, NEW S \in SUBSET Session, Begin(m, S)
        PROVE  CopyInv'
    BY <1>1, <1>3 DEF Begin
  <1>4. ASSUME NEW m \in Msg, InsertMessage(m) \/ Finish(m) \/ Fail(m)
        PROVE  CopyInv'
    BY <1>1, <1>4 DEF InsertMessage, Finish, Fail
  <1>5. ASSUME NEW m \in Msg, Trim(m)
        PROVE  CopyInv'
    BY <1>1, <1>5 DEF Trim
  <1>6. ASSUME NEW m \in Msg, NEW s \in Session, InsertDelivery(m, s)
        PROVE  CopyInv'
    <2>1. <<m, s>> \notin put
      BY <1>6 DEF InsertDelivery, SendsPut, SendPuts
    <2> QED
      BY <1>6, <2>1 DEF InsertDelivery, Copy
  <1>7. ASSUME NEW r \in Reader, Ask(r) \/ DrainFails(r) \/ GiveUp(r)
        PROVE  CopyInv'
    BY <1>7 DEF Ask, DrainFails, GiveUp
  <1>8. ASSUME NEW r \in Reader, Drain(r)
        PROVE  CopyInv'
    <2> DEFINE taken == Mail(Of[r]) \X {Of[r]}
    <2>1. undrained' = undrained \ taken /\ UNCHANGED <<put, printed>>
      BY <1>8 DEF Drain, Acked
    <2>2. taken \subseteq undrained
      BY DEF Mail
    <2>3. /\ batch'[r] \subseteq taken /\ \A q \in Reader \ {r} : batch'[q] = batch[q]
          /\ hook'[r] # "answered" => batch'[r] = {}
          /\ \A q \in Reader \ {r} : hook'[q] = hook[q]
      BY <1>8, SMTT(40) DEF Drain, Mail
    <2>4. taken \subseteq Msg \X {Of[r]}
      BY DEF Mail
    <2> HIDE DEF taken
    <2>5. OnlyTaken'
      BY <2>1, <2>2, <2>3, <2>4
    <2>6. OnlyPrinted'
      BY <2>1, <2>2, <2>3
    <2> QED
      BY <2>1, <2>5, <2>6
  <1>9. ASSUME NEW r \in Reader, Show(r)
        PROVE  CopyInv'
    <2>1. /\ UNCHANGED <<undrained, put>>
          /\ batch' = [batch EXCEPT ![r] = {}] /\ hook' = [hook EXCEPT ![r] = "idle"]
          /\ printed' = [x \in Copy |-> IF x \in batch[r] THEN printed[x] + 1 ELSE printed[x]]
      BY <1>9 DEF Show
    <2>2. OnlyTaken'
      BY <2>1
    <2>3. ASSUME NEW x \in Copy
          PROVE  /\ printed'[x] \in {0, 1}
                 /\ printed'[x] = 1 => x \in put' \ undrained' /\ \A q \in Reader : x \notin batch'[q]
      <3>1. CASE x \in batch[r]
        <4>1. printed[x] = 0 /\ x \in put \ undrained
          BY <3>1
        <4>2. \A q \in Reader : x \notin batch'[q]
          BY <2>1, <3>1
        <4> QED
          BY <2>1, <3>1, <4>1, <4>2
      <3>2. CASE x \notin batch[r]
        BY <2>1, <3>2
      <3> QED
        BY <3>1, <3>2
    <2> QED
      BY <2>1, <2>2, <2>3
  <1> QED
    BY <1>2, <1>3, <1>4, <1>5, <1>6, <1>7, <1>8, <1>9 DEF Next, SendStep, HookStep

\* The inductive invariant of the store and the hook.
THEOREM Invariance == Spec => []Inv
  <1>1. Inv /\ [Next]_vars => Inv'
    BY TypeStep, SendsStep, CopyStep DEF Inv
  <1> QED
    BY InvInit, <1>1, PTL DEF Spec

\* Every variable keeps its type, and no delivery outlives its message.
THEOREM TypesCorrect == Spec => []TypeOK
  <1>1. Inv => TypeOK
    BY DEF Inv
  <1> QED
    BY Invariance, <1>1, PTL

-----------------------------------------------------------------------------
(* The bound on a backlog, and what a trim sheds.                          *)

Untrimmed(s) == {m \in Msg : untrimmed[m] = s}

\* One more undrained copy is one more send with a copy to trim; a trim leaves
\* at most Cap.
LEMMA BacklogStep == TypeOK /\ BacklogBounded /\ [Next]_vars => BacklogBounded'
  <1> SUFFICES ASSUME TypeOK, BacklogBounded, [Next]_vars, NEW s \in Session
               PROVE  Cardinality(Mail(s))' <= Cap + Cardinality(Untrimmed(s))'
    BY DEF BacklogBounded, Untrimmed
  <1> USE InboxAssumption DEF TypeOK, sendVars, rowVars
  <1>1. /\ IsFiniteSet(Mail(s)) /\ IsFiniteSet(Mail(s)')
        /\ IsFiniteSet(Untrimmed(s)) /\ IsFiniteSet(Untrimmed(s)')
    BY FS_Subset DEF Mail, Untrimmed
  <1>2. /\ Cardinality(Mail(s)) \in Nat /\ Cardinality(Mail(s)') \in Nat
        /\ Cardinality(Untrimmed(s)) \in Nat /\ Cardinality(Untrimmed(s)') \in Nat
    BY <1>1, FS_CardinalityType
  <1>3. Cardinality(Mail(s)) <= Cap + Cardinality(Untrimmed(s))
    BY DEF BacklogBounded, Untrimmed
  <1>4. ASSUME undrained' \subseteq undrained, untrimmed' = untrimmed
        PROVE  Cardinality(Mail(s))' <= Cap + Cardinality(Untrimmed(s))'
    <2>1. Mail(s)' \subseteq Mail(s) /\ Untrimmed(s)' = Untrimmed(s)
      BY <1>4 DEF Mail, Untrimmed
    <2>2. Cardinality(Mail(s)') <= Cardinality(Mail(s))
      BY <1>1, <2>1, FS_Subset
    <2> QED
      BY <1>2, <1>3, <2>1, <2>2
  <1>5. ASSUME NEW m \in Msg, NEW t \in Session, InsertDelivery(m, t)
        PROVE  Cardinality(Mail(s))' <= Cap + Cardinality(Untrimmed(s))'
    <2>1. CASE s = t
      <3>1. Mail(s)' = Mail(s) \cup {m} /\ Untrimmed(s)' = Untrimmed(s) \cup {m}
        BY <1>5, <2>1 DEF InsertDelivery, Mail, Untrimmed
      <3>2. m \notin Untrimmed(s)
        BY <1>5 DEF InsertDelivery, Untrimmed
      <3> HIDE DEF TypeOK
      <3>3. Cardinality(Mail(s)') <= Cardinality(Mail(s)) + 1
        <4>1. \/ Cardinality(Mail(s) \cup {m}) = Cardinality(Mail(s))
              \/ Cardinality(Mail(s) \cup {m}) = Cardinality(Mail(s)) + 1
          BY <1>1, FS_AddElement
        <4> QED
          BY <1>2, <3>1, <4>1
      <3>4. Cardinality(Untrimmed(s)') = Cardinality(Untrimmed(s)) + 1
        <4>1. Cardinality(Untrimmed(s) \cup {m}) = Cardinality(Untrimmed(s)) + 1
          BY <1>1, <3>2, FS_AddElement
        <4> QED
          BY <3>1, <4>1
      <3> QED
        BY <1>2, <1>3, <3>3, <3>4
    <2>2. CASE s # t
      <3>1. Mail(s)' = Mail(s) /\ Untrimmed(s)' = Untrimmed(s)
        BY <1>5, <2>2 DEF InsertDelivery, Mail, Untrimmed
      <3> QED
        BY <1>3, <3>1
    <2> QED
      BY <2>1, <2>2
  <1>6. ASSUME NEW m \in Msg, Trim(m)
        PROVE  Cardinality(Mail(s))' <= Cap + Cardinality(Untrimmed(s))'
    <2>1. CASE s = untrimmed[m]
      <3>1. Mail(s) \cap messages = Mail(s)
        BY DEF Mail
      <3>2. PICK K \in SUBSET Mail(s) :
              /\ Cardinality(K) <= Cap
              /\ undrained' = undrained \ ((Mail(s) \ K) \X {s})
        BY <1>6, <2>1, <3>1 DEF Trim
      <3>3. Mail(s)' = K
        BY <3>2 DEF Mail
      <3> QED
        BY <1>2, <3>2, <3>3
    <2>2. CASE s # untrimmed[m]
      <3>1. Mail(s)' = Mail(s) /\ Untrimmed(s)' = Untrimmed(s)
        BY <1>6, <2>2 DEF Trim, Mail, Untrimmed
      <3> QED
        BY <1>3, <3>1
    <2> QED
      BY <2>1, <2>2
  <1>7. ASSUME NEW m \in Msg, NEW S \in SUBSET Session, Begin(m, S)
        PROVE  Cardinality(Mail(s))' <= Cap + Cardinality(Untrimmed(s))'
    BY <1>4, <1>7 DEF Begin
  <1>8. ASSUME NEW m \in Msg, InsertMessage(m) \/ Finish(m) \/ Fail(m)
        PROVE  Cardinality(Mail(s))' <= Cap + Cardinality(Untrimmed(s))'
    BY <1>4, <1>8 DEF InsertMessage, Finish, Fail
  <1>9. ASSUME NEW r \in Reader, HookStep(r)
        PROVE  Cardinality(Mail(s))' <= Cap + Cardinality(Untrimmed(s))'
    BY <1>4, <1>9 DEF HookStep, Ask, Drain, DrainFails, Show, GiveUp
  <1>10. CASE UNCHANGED vars \/ Tick \/ Vacuum
    BY <1>4, <1>10 DEF vars, Tick, Vacuum
  <1> QED
    BY <1>5, <1>6, <1>7, <1>8, <1>9, <1>10 DEF Next, SendStep

\* However sends, trims, drains and failures interleave, a session's backlog is
\* within the cap but for the sends that still owe it a trim.
THEOREM BacklogCorrect == Spec => []BacklogBounded
  <1>1. Init => BacklogBounded
    <2> SUFFICES ASSUME Init, NEW s \in Session
                 PROVE  Cardinality(Mail(s)) <= Cap + Cardinality(Untrimmed(s))
      BY DEF BacklogBounded, Untrimmed
    <2>1. Mail(s) = {} /\ IsFiniteSet(Untrimmed(s))
      BY InboxAssumption, FS_Subset DEF Init, Mail, Untrimmed
    <2>2. Cardinality(Mail(s)) = 0 /\ Cardinality(Untrimmed(s)) \in Nat
      BY <2>1, FS_EmptySet, FS_CardinalityType
    <2> QED
      BY <2>2, InboxAssumption
  <1> QED
    BY TypesCorrect, <1>1, BacklogStep, PTL DEF Spec

\* A trim that sheds anything leaves Cap messages, none older than what it shed.
LEMMA ShedStep ==
  ASSUME TypeOK, Next, NEW x \in Shed
  PROVE  \E K \in SUBSET Mail(x[2])' :
            Cardinality(K) = Cap /\ \A k \in K : made[k] >= made[x[1]]
  <1> USE DEF TypeOK
  <1>1. PICK m \in Msg : Trim(m)
    BY DEF Shed
  <1> DEFINE s == untrimmed[m]
  <1>2. s \in Session /\ Mail(s) \cap messages = Mail(s)
    BY <1>1 DEF Trim, Mail
  <1>3. PICK K \in SUBSET Mail(s) :
          /\ K = Mail(s) \/ Cardinality(K) = Cap
          /\ NewestOf(K, Mail(s))
          /\ undrained' = undrained \ ((Mail(s) \ K) \X {s})
    BY <1>1, <1>2 DEF Trim
  <1>4. x \in (Mail(s) \ K) \X {s}
    BY <1>3 DEF Shed
  <1>5. x[2] = s /\ x[1] \in Mail(s) \ K
    BY <1>4
  <1>6. Mail(x[2])' = K
    BY <1>2, <1>3, <1>5 DEF Mail
  <1>7. Cardinality(K) = Cap
    BY <1>3, <1>5
  <1>8. \A k \in K : made[k] >= made[x[1]]
    BY <1>3, <1>5 DEF NewestOf
  <1> QED
    BY <1>5, <1>6, <1>7, <1>8

\* Live mail is shed only for Cap messages at least as new.
THEOREM ShedsCorrect == Spec => ShedsOldest
  <1>1. ASSUME TypeOK, [Next]_vars
        PROVE  [\A x \in Shed :
                   \E K \in SUBSET Mail(x[2])' :
                       Cardinality(K) = Cap /\ \A k \in K : made[k] >= made[x[1]]]_vars
    BY <1>1, ShedStep
  <1> QED
    BY TypesCorrect, <1>1, PTL DEF Spec, ShedsOldest

-----------------------------------------------------------------------------
(* Refinement of Mailbox.                                                  *)

\* What each state of a copy says of the rows, the replies and the screen.
StatusMeans(x) ==
    /\ StatusOf(x) \in {"none", "waiting", "taken", "read", "gone"}
    /\ StatusOf(x) = "none" <=> x \notin put
    /\ StatusOf(x) = "waiting" <=> x \in undrained
    /\ StatusOf(x) = "taken" <=> \E r \in Reader : x \in batch[r]
    /\ StatusOf(x) = "read" <=> printed[x] = 1
StatusesMean == \A x \in Copy : StatusMeans(x)

LEMMA StatusIs == Inv => StatusesMean
  <1> SUFFICES ASSUME Inv, NEW x \in Copy
               PROVE  StatusMeans(x)
    BY DEF StatusesMean
  <1> USE DEF Inv, TypeOK, CopyInv, OnlyWaiting, OnlyTaken, OnlyPrinted
  <1>1. CASE printed[x] = 1
    <2>1. StatusOf(x) = "read"
      BY <1>1 DEF StatusOf
    <2>2. x \in put /\ x \notin undrained /\ ~ \E r \in Reader : x \in batch[r]
      BY <1>1
    <2> QED
      BY <1>1, <2>1, <2>2 DEF StatusMeans
  <1>2. CASE printed[x] = 0 /\ x \in undrained
    <2>1. StatusOf(x) = "waiting"
      BY <1>2 DEF StatusOf
    <2>2. x \in put /\ ~ \E r \in Reader : x \in batch[r]
      BY <1>2
    <2> QED
      BY <1>2, <2>1, <2>2 DEF StatusMeans
  <1>3. CASE printed[x] = 0 /\ x \notin undrained
    <2>1. StatusOf(x) = IF \E r \in Reader : x \in batch[r] THEN "taken"
                        ELSE IF x \in put THEN "gone" ELSE "none"
      BY <1>3 DEF StatusOf
    <2>2. x \notin put => ~ \E r \in Reader : x \in batch[r]
      BY <1>3
    <2> QED
      BY <1>3, <2>1, <2>2 DEF StatusMeans
  <1> QED
    BY <1>1, <1>2, <1>3

\* A step that leaves rows, replies and screen alone moves no copy.
LEMMA StatusFrame ==
  UNCHANGED <<undrained, batch, put, printed>> => \A x \in Copy : StatusOf(x)' = StatusOf(x)
  BY DEF StatusOf

\* Every step of the store and the hook is a step of the mailbox, or none.
LEMMA RefinementStep ==
  Inv /\ StatusesMean /\ Inv' /\ StatusesMean' /\ [Next]_vars => [MB!Next]_(MB!vars)
  <1> DEFINE copies == [x \in Copy |-> StatusOf(x)]
             verdicts == [m \in Msg |-> ToldOf(m)]
  <1> SUFFICES ASSUME TypeOK, SendsPut, CopyInv, StatusesMean, StatusesMean', [Next]_vars
               PROVE  MB!Next \/ UNCHANGED <<copies, to, verdicts>>
    BY DEF MB!vars, Inv
  <1> USE DEF TypeOK, StatusesMean, StatusMeans
  <1>1. ASSUME UNCHANGED send
        PROVE  verdicts' = verdicts
    BY <1>1 DEF ToldOf
  <1>2. ASSUME UNCHANGED <<undrained, batch, put, printed>>
        PROVE  copies' = copies
    BY <1>2, StatusFrame
  <1>3. CASE UNCHANGED vars \/ Tick
    BY <1>1, <1>2, <1>3 DEF vars, Tick, sendVars, rowVars, hookVars
  <1>4. ASSUME NEW m \in Msg, NEW S \in SUBSET Session, Begin(m, S)
        PROVE  MB!Next
    <2>1. copies' = copies
      BY <1>2, <1>4 DEF Begin, rowVars, hookVars
    <2>2. verdicts[m] = "none" /\ verdicts' = [verdicts EXCEPT ![m] = "open"]
      BY <1>4 DEF Begin, ToldOf
    <2>3. MB!Post(m, S)
      BY <1>4, <2>1, <2>2 DEF Begin, MB!Post
    <2> QED
      BY <2>3 DEF MB!Next
  <1>5. ASSUME NEW m \in Msg, InsertMessage(m)
        PROVE  UNCHANGED <<copies, to, verdicts>>
    <2>1. verdicts' = verdicts
      BY <1>5 DEF InsertMessage, ToldOf
    <2> QED
      BY <1>2, <1>5, <2>1 DEF InsertMessage, hookVars
  <1>6. ASSUME NEW m \in Msg, NEW s \in Session, InsertDelivery(m, s)
        PROVE  MB!Next
    <2> DEFINE c == <<m, s>>
    <2>1. c \notin put /\ s \in to[m]
      BY <1>6 DEF InsertDelivery, SendsPut, SendPuts
    <2>2. StatusOf(c) = "none" /\ StatusOf(c)' = "waiting"
      BY <1>6, <2>1 DEF InsertDelivery, Copy
    <2>3. \A x \in Copy \ {c} : StatusOf(x)' = StatusOf(x)
      BY <1>6 DEF InsertDelivery, StatusOf, hookVars
    <2>4. verdicts[m] = "open" /\ UNCHANGED <<to, verdicts>>
      BY <1>1, <1>6 DEF InsertDelivery, ToldOf
    <2>5. MB!Put(m, s)
      BY <2>1, <2>2, <2>3, <2>4 DEF MB!Put, MB!Move, MB!Copy, Copy
    <2> QED
      BY <2>5 DEF MB!Next
  <1>7. ASSUME NEW C \in SUBSET Copy, UNCHANGED <<to, send>>,
               \/ /\ \A x \in C : StatusOf(x) = "taken"
                  /\ \A x \in C : StatusOf(x)' = "read"
               \/ /\ \A x \in C : StatusOf(x) \in {"waiting", "taken"}
                  /\ \A x \in C : StatusOf(x)' = "gone",
               \A x \in Copy \ C : StatusOf(x)' = StatusOf(x)
        PROVE  MB!Next
    <2>1. verdicts' = verdicts
      BY <1>1, <1>7
    <2>2. MB!Move(C, {"taken"}, "read") \/ MB!Move(C, {"waiting", "taken"}, "gone")
      BY <1>7, <2>1 DEF MB!Move, MB!Copy, Copy
    <2> QED
      BY <2>2 DEF MB!Next, MB!Copy, Copy
  <1>8. ASSUME undrained' \subseteq undrained, UNCHANGED <<to, send, batch, put, printed>>
        PROVE  MB!Next
    <2> DEFINE C == undrained \ undrained'
    <2>1. C \in SUBSET Copy /\ \A x \in C : StatusOf(x) = "waiting"
      BY DEF Copy
    <2>2. \A x \in C : StatusOf(x)' = "gone"
      <3> SUFFICES ASSUME NEW x \in C
                   PROVE  StatusOf(x)' = "gone"
        OBVIOUS
      <3>1. x \in put' /\ x \notin undrained' /\ printed'[x] # 1 /\ ~ \E r \in Reader : x \in batch'[r]
        BY <1>8, <2>1 DEF CopyInv, OnlyWaiting, OnlyTaken, OnlyPrinted
      <3> QED
        BY <2>1, <3>1
    <2>3. \A x \in Copy \ C : StatusOf(x)' = StatusOf(x)
      BY <1>8 DEF StatusOf
    <2> HIDE DEF C
    <2> QED
      BY <1>7, <1>8, <2>1, <2>2, <2>3
  <1>9. ASSUME NEW m \in Msg, Trim(m)
        PROVE  MB!Next
    BY <1>8, <1>9 DEF Trim, hookVars
  <1>10. ASSUME NEW m \in Msg, Finish(m) \/ Fail(m)
         PROVE  MB!Next
    <2>1. copies' = copies /\ to' = to
      BY <1>2, <1>10 DEF Finish, Fail, rowVars, hookVars
    <2>2. PICK v \in {"ok", "error"} :
            /\ send' = [send EXCEPT ![m] = v]
            /\ send[m] \in {"begun", "fanOut"}
            /\ v = "ok" => send[m] = "fanOut" /\ todo[m] = {}
      BY <1>10 DEF Finish, Sent, Fail
    <2>3. verdicts[m] = "open" /\ verdicts' = [verdicts EXCEPT ![m] = v]
      BY <2>2 DEF ToldOf
    <2>4. v = "ok" => \A s \in to[m] : copies[<<m, s>>] # "none"
      BY <2>2 DEF SendsPut, SendPuts, Copy
    <2>5. MB!Tell(m, v)
      BY <2>1, <2>3, <2>4 DEF MB!Tell, Copy
    <2> QED
      BY <2>5 DEF MB!Next
  <1>11. ASSUME NEW r \in Reader, Ask(r) \/ DrainFails(r)
         PROVE  UNCHANGED <<copies, to, verdicts>>
    BY <1>1, <1>2, <1>11 DEF Ask, DrainFails, sendVars, rowVars
  <1>12. ASSUME NEW r \in Reader, Drain(r)
         PROVE  MB!Next
    <2> DEFINE s == Of[r]
               C == batch'[r]
    <2>1. /\ s \in Session
          /\ undrained' = undrained \ (Mail(s) \X {s})
          /\ UNCHANGED <<send, to, put, printed>>
          /\ \A q \in Reader \ {r} : batch'[q] = batch[q]
      BY <1>12, InboxAssumption DEF Drain, Acked, sendVars
    <2>2. C \subseteq Mail(s) \X {s} /\ batch[r] = {}
      BY <1>12 DEF Drain, Mail, CopyInv, OnlyTaken
    <2>3. \A x \in Mail(s) \X {s} : x \in Copy /\ StatusOf(x) = "waiting"
      BY <2>1 DEF Mail, Copy
    <2>4. \A x \in C : StatusOf(x)' = "taken"
      BY <2>2, <2>3
    <2>5. ASSUME NEW x \in Copy, x \notin C
          PROVE  StatusOf(x)' = IF x[2] = s /\ StatusOf(x) = "waiting" THEN "gone" ELSE StatusOf(x)
      <3>1. (\E q \in Reader : x \in batch'[q]) <=> (\E q \in Reader : x \in batch[q])
        BY <2>1, <2>2, <2>5
      <3>2. CASE x[2] = s /\ x \in undrained
        <4>1. x \in put /\ printed[x] # 1 /\ ~ \E q \in Reader : x \in batch[q]
          BY <3>2 DEF CopyInv, OnlyWaiting, OnlyTaken, OnlyPrinted
        <4>2. x \notin undrained'
          BY <2>1, <3>2 DEF Mail, Copy
        <4> QED
          BY <2>1, <3>1, <3>2, <4>1, <4>2
      <3>3. CASE ~(x[2] = s /\ x \in undrained)
        <4>1. x \in undrained' <=> x \in undrained
          BY <2>1, <3>3
        <4>2. StatusOf(x)' = StatusOf(x)
          BY <2>1, <3>1, <4>1 DEF StatusOf
        <4> QED
          BY <3>3, <4>2
      <3> QED
        BY <3>2, <3>3
    <2>6. C \subseteq Msg \X {s}
      BY <2>2 DEF Mail
    <2>7. UNCHANGED <<to, verdicts>>
      BY <1>1, <2>1
    <2> HIDE DEF C
    <2>8. MB!Take(s, C)
      <3>1. \A x \in C : x \in Copy /\ copies[x] = "waiting"
        BY <2>2, <2>3
      <3>2. copies' = [x \in Copy |->
                         IF x \in C THEN "taken"
                         ELSE IF x[2] = s /\ copies[x] = "waiting" THEN "gone" ELSE copies[x]]
        BY <2>4, <2>5, <3>1
      <3> QED
        BY <2>6, <2>7, <3>1, <3>2 DEF MB!Take, MB!Copy, Copy
    <2>9. C \in SUBSET Copy
      BY <2>2, <2>3
    <2> QED
      BY <2>1, <2>8, <2>9 DEF MB!Next, MB!Copy, Copy
  <1>13. ASSUME NEW r \in Reader, Show(r) \/ GiveUp(r)
         PROVE  MB!Next
    <2> DEFINE C == batch[r]
    <2>1. /\ UNCHANGED <<send, to, undrained, put>>
          /\ batch' = [batch EXCEPT ![r] = {}]
      BY <1>13 DEF Show, GiveUp, sendVars, rowVars
    <2>2. C \in SUBSET Copy /\ \A x \in C : StatusOf(x) = "taken"
      OBVIOUS
    <2>3. \A x \in C : x \in put /\ x \notin undrained /\ printed[x] = 0
                       /\ ~ \E q \in Reader : x \in batch'[q]
      BY <2>1, <2>2 DEF CopyInv, OnlyTaken, OnlyPrinted
    <2>4. \A x \in Copy \ C : printed'[x] = printed[x]
      BY <1>13 DEF Show, GiveUp
    <2>5. \A x \in Copy \ C : StatusOf(x)' = StatusOf(x)
      <3>1. \A x \in Copy \ C : (\E q \in Reader : x \in batch'[q]) <=> (\E q \in Reader : x \in batch[q])
        BY <2>1
      <3> QED
        BY <2>1, <2>4, <3>1 DEF StatusOf
    <2>6. CASE Show(r)
      <3>1. \A x \in C : StatusOf(x)' = "read"
        BY <2>2, <2>3, <2>6 DEF Show
      <3> QED
        BY <1>7, <2>1, <2>2, <2>5, <3>1
    <2>7. CASE GiveUp(r)
      <3>1. \A x \in C : StatusOf(x)' = "gone"
        BY <2>1, <2>2, <2>3, <2>7 DEF GiveUp
      <3> QED
        BY <1>7, <2>1, <2>2, <2>5, <3>1
    <2> QED
      BY <1>13, <2>6, <2>7
  <1>14. CASE Vacuum
    BY <1>8, <1>14 DEF Vacuum, sendVars, hookVars
  <1> QED
    BY <1>3, <1>4, <1>5, <1>6, <1>9, <1>10, <1>11, <1>12, <1>13, <1>14
    DEF Next, SendStep, HookStep

\* The store and the hook implement Mailbox: a copy is printed at most once, what
\* was drained or shed never waits again, and "ok" means every copy was put.
THEOREM DeliveredOnce == Spec => DeliversOnce
  <1>1. Init => MB!Init
    BY DEF Init, MB!Init, MB!Copy, Copy, StatusOf, ToldOf
  <1>2. Inv' => StatusesMean'
    BY StatusIs, PTL
  <1> QED
    BY Invariance, <1>1, <1>2, StatusIs, RefinementStep, PTL
    DEF Spec, DeliversOnce, MB!Spec

=============================================================================
