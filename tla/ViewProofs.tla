----------------------------- MODULE ViewProofs -----------------------------
(***************************************************************************)
(* Theorems about what a client is shown: LiveView, for any nodes,         *)
(* browsers, views and bounds; Paging, for any finite sets of tasks, log   *)
(* lines and nodes, and pages of any length; Transcript, for any         *)
(* transcripts, callers, lengths and pages.  The first part is of          *)
(* LiveView alone; the second holds the lemmas about sequences and sets    *)
(* in order that the other two rest on.                                    *)
(***************************************************************************)
EXTENDS LiveView, Transcript, Paging, FiniteSetTheorems, SequenceTheorems, WellFoundedInduction, TLAPS

-----------------------------------------------------------------------------
(* LiveView: reports, blockers, prompts and event streams.                  *)

\* What a reader sees as listed is outstanding.
ListedInv == \A n \in Node : rows[n].blocker = "listed" => n \in waiting

\* Only an entry that has just been told of stands for a raised prompt.
RaisedInv == \A n \in raised : entry[n] = "told"

\* A stream that is behind is about to read, has a signal, will have one, or
\* failed to read.
BehindInv ==
    \A b \in behind :
        \/ b \in signal
        \/ b \in missed /\ stream[b] # "aging"
        \/ stream[b] \in {"coalescing", "reading"}
        \/ Unannounced

\* A view has a blocker without its time only while it is read, when its row is
\* still there to be read, or when it is behind.
AgesInv ==
    \A b \in Browser :
        /\ stream[b] = "aging" /\ b \notin behind =>
              \A n \in unaged[b] : rows[n].blocker = "listed"
        /\ stream[b] = "off" => unaged[b] = {}
        /\ stream[b] # "aging" /\ unaged[b] # {} => b \in behind \cup missed

OnWay(h) == report[h].stage \in {"posted", "taken"}

\* A report on its way that lists a blocker is of a host where it still stands, if
\* it is not counted among the others, and so is what was begun after it.
SinceInv ==
    \A h \in Handler :
        /\ h \in since => OnWay(h)
        /\ OnWay(h) /\ report[h].view.blocker = "listed" /\ h \notin since =>
              /\ host[report[h].node].blocker # "done"
              /\ h = Late /\ OnWay(report[h].node) =>
                    report[report[h].node].view.blocker # "done"

\* What stands is not called done by its host, nor by the report it makes of it.
StoodInv ==
    \A n \in stood : /\ host[n].blocker # "done"
                     /\ OnWay(n) => report[n].view.blocker # "done"

Inv == TypeOK /\ ListedInv /\ RaisedInv /\ BehindInv /\ AgesInv /\ SinceInv /\ StoodInv

-----------------------------------------------------------------------------

\* A view has a blocker that is listed, done or not reported.
LEMMA ViewType ==
    ASSUME NEW v \in Views
    PROVE  v.blocker \in {"listed", "done", "none"} /\ v.prompt \in BOOLEAN
  <1>1. CASE v \in Shown
    BY <1>1, LiveViewAssumption
  <1>2. CASE v = NoWindow
    BY <1>2 DEF NoWindow
  <1>3. CASE v = Quiet
    BY <1>3 DEF Quiet
  <1> QED
    BY <1>1, <1>2, <1>3 DEF Views

LEMMA LateIsNoNode == Late \notin Node
  BY LiveViewAssumption

LEMMA ReportType ==
    /\ NoReport \in Report
    /\ \A r \in Report : /\ r.stage \in {"free", "posted", "taken", "stored", "observed"}
                         /\ r.node \in Node \cup {Late} /\ r.view \in Views
                         /\ r.after \subseteq {"row", "other"}
  BY DEF NoReport, Report, Views

LEMMA InvInit == Init => Inv
  <1> SUFFICES ASSUME Init
               PROVE  Inv
    OBVIOUS
  <1>1. MaxChanges \in Nat /\ MaxFaults \in Nat
    BY LiveViewAssumption
  <1>2. TypeOK
    <2>1. report \in [Handler -> Report]
      BY ReportType DEF Init
    <2>2. \A h \in Handler : report[h].stage = "free" /\ report[h].node = Late
      BY DEF Init, NoReport
    <2> QED
      BY <1>1, <2>1, <2>2, LateIsNoNode DEF Init, TypeOK, Views, Handler
  <1>3. ListedInv
    BY DEF Init, ListedInv, NoWindow
  <1>4. SinceInv
    BY DEF Init, SinceInv, OnWay, NoReport
  <1> QED
    BY <1>2, <1>3, <1>4 DEF Init, Inv, RaisedInv, BehindInv, AgesInv, StoodInv

\* A step that leaves the store, the streams and what is unannounced keeps what is
\* said of them.
LEMMA ReportKept ==
    ASSUME Inv, UNCHANGED <<rows, waiting, watchVars, streamVars>>, Unannounced => Unannounced'
    PROVE  ListedInv' /\ RaisedInv' /\ BehindInv' /\ AgesInv'
  BY DEF Inv, ListedInv, RaisedInv, BehindInv, AgesInv, watchVars, streamVars

\* One that leaves the hosts and the reports on their way keeps what is said of
\* those.
LEMMA WayKept ==
    ASSUME Inv, UNCHANGED <<host, since, stood>>,
           \A h \in Handler : /\ OnWay(h)' => OnWay(h) /\ report'[h].node = report[h].node
                                              /\ report'[h].view = report[h].view
                              /\ h \in since => OnWay(h)'
    PROVE  SinceInv' /\ StoodInv'
  <1>1. \A h \in Handler : OnWay(h) => report[h].node \in Handler
    BY DEF Inv, TypeOK, Handler, Report, OnWay
  <1>2. SinceInv'
    <2> SUFFICES ASSUME NEW h \in Handler
                 PROVE  /\ h \in since' => OnWay(h)'
                        /\ OnWay(h)' /\ report'[h].view.blocker = "listed" /\ h \notin since' =>
                              /\ host'[report'[h].node].blocker # "done"
                              /\ h = Late /\ OnWay(report[h].node)' =>
                                    report'[report'[h].node].view.blocker # "done"
      <3>1. ASSUME NEW h \in Handler, OnWay(h)'
            PROVE  report'[h].node = report[h].node
        BY <3>1
      <3> QED
        BY <3>1 DEF SinceInv, OnWay
    <2> QED
      BY <1>1 DEF Inv, SinceInv
  <1>3. StoodInv'
    <2>1. stood \subseteq Handler
      BY DEF Inv, TypeOK, Handler
    <2> QED
      BY <2>1 DEF Inv, StoodInv
  <1> QED
    BY <1>2, <1>3

\* The node's side.
LEMMA NodeInv ==
    ASSUME Inv, NEW n \in Node, Connect(n) \/ Drop(n) \/ Post(n) \/ GiveUp(n)
    PROVE  Inv'
  <1>1. MaxChanges \in Nat /\ MaxFaults \in Nat /\ n \in Handler /\ n # Late /\ Late \in Handler
    BY LiveViewAssumption DEF Handler
  <1>2. CASE Connect(n)
    <2>1. TypeOK'
      BY <1>2 DEF Connect, NotifyAll, Subscribed, Inv, TypeOK, hostVars, reportVars, storeVars,
                  watchVars
    <2>2. ListedInv' /\ RaisedInv' /\ AgesInv'
      BY <1>2 DEF Connect, Inv, ListedInv, RaisedInv, AgesInv, storeVars, watchVars
    <2>3. behind' \subseteq signal'
      BY <1>2 DEF Connect, NotifyAll, Subscribed, Inv, TypeOK
    <2>4. SinceInv' /\ StoodInv'
      BY <1>2 DEF Connect, Inv, SinceInv, StoodInv, OnWay, hostVars, reportVars, storeVars
    <2> QED
      BY <2>1, <2>2, <2>3, <2>4 DEF Inv, BehindInv
  <1>3. CASE Drop(n)
    <2>1. TypeOK'
      BY <1>1, <1>3 DEF Drop, Fault, Inv, TypeOK, hostVars, reportVars, storeVars, watchVars,
                        streamVars
    <2>2. Unannounced => Unannounced'
      BY <1>3 DEF Drop, Unannounced, reportVars
    <2>3. SinceInv' /\ StoodInv'
      BY <1>3 DEF Drop, Inv, SinceInv, StoodInv, OnWay, hostVars, reportVars, storeVars
    <2> QED
      BY <1>3, <2>1, <2>2, <2>3, ReportKept DEF Drop, Inv, storeVars
  <1>4. CASE Post(n)
    <2>1. PICK r \in Report : /\ r.stage = "posted" /\ r.node = n /\ r.view = host[n]
                              /\ report' = [report EXCEPT ![n] = r]
      <3>1. [NoReport EXCEPT !.stage = "posted", !.node = n, !.view = host[n]] \in Report
        BY DEF NoReport, Report, Inv, TypeOK
      <3> QED
        BY <1>4, <3>1 DEF Post, NoReport
    <2>2. report[n].stage = "free"
      BY <1>4 DEF Post, NoReport
    <2>3. /\ report'[n] = r
          /\ \A h \in Handler \ {n} : report'[h] = report[h]
          /\ report' \in [Handler -> Report]
      BY <1>1, <2>1 DEF Inv, TypeOK
    <2>4. UNCHANGED <<hostVars, since, online, storeVars, watchVars, streamVars, faults>>
      BY <1>4 DEF Post
    <2>5. TypeOK'
      <3>1. \A h \in Handler : report'[h].stage = "free" <=> report'[h].node = Late
        BY <1>1, <2>1, <2>3 DEF Inv, TypeOK
      <3>2. \A x \in Node : report'[x].node \in {x, Late}
        BY <1>1, <2>1, <2>3 DEF Inv, TypeOK, Handler
      <3> QED
        BY <2>3, <2>4, <3>1, <3>2 DEF Inv, TypeOK, hostVars, storeVars, watchVars, streamVars
    <2>6. Unannounced => Unannounced'
      BY <2>2, <2>3 DEF Unannounced
    <2>7. StoodInv'
      <3>1. ASSUME NEW x \in stood
            PROVE  host[x].blocker # "done"
                   /\ (report'[x].stage \in {"posted", "taken"} => report'[x].view.blocker # "done")
        <4>1. x \in Handler /\ host[x].blocker # "done"
          BY DEF Inv, TypeOK, StoodInv, Handler
        <4> QED
          BY <2>1, <2>3, <4>1 DEF Inv, StoodInv, OnWay
      <3> QED
        BY <2>4, <3>1 DEF StoodInv, OnWay, hostVars, storeVars
    <2>8. SinceInv'
      <3> SUFFICES ASSUME NEW h \in Handler
                   PROVE  /\ h \in since => report'[h].stage \in {"posted", "taken"}
                          /\ report'[h].stage \in {"posted", "taken"}
                             /\ report'[h].view.blocker = "listed" /\ h \notin since =>
                                /\ host[report'[h].node].blocker # "done"
                                /\ h = Late /\ report'[report'[h].node].stage \in {"posted", "taken"} =>
                                      report'[report'[h].node].view.blocker # "done"
        BY <2>4 DEF SinceInv, OnWay, hostVars
      <3>1. CASE h = n
        BY <1>1, <2>1, <2>2, <2>3, <3>1 DEF Inv, SinceInv, OnWay
      <3>2. CASE h # n
        <4>1. report'[h] = report[h]
          BY <2>3, <3>2
        <4>2. OnWay(h) => report[h].node \in Handler
          BY DEF Inv, TypeOK, Handler, Report, OnWay
        <4>3. CASE report[h].node = n
          BY <2>1, <2>3, <4>1, <4>3 DEF Inv, SinceInv, OnWay
        <4>4. CASE report[h].node # n
          BY <2>3, <4>1, <4>2, <4>4 DEF Inv, SinceInv, OnWay
        <4> QED
          BY <4>3, <4>4
      <3> QED
        BY <3>1, <3>2
    <2> QED
      BY <2>4, <2>5, <2>6, <2>7, <2>8, ReportKept DEF Inv, storeVars
  <1>5. CASE GiveUp(n)
    <2>1. /\ report[n].stage # "free" /\ report[n].node = n /\ report[Late].stage = "free"
          /\ report' = [report EXCEPT ![n] = NoReport, ![Late] = report[n]]
          /\ since' = IF n \in since THEN (since \ {n}) \cup {Late} ELSE since
          /\ UNCHANGED <<hostVars, online, storeVars, watchVars, streamVars>>
          /\ faults' \in 0..MaxFaults
      <3>1. report[n].stage # "free" /\ report[Late].stage = "free"
        BY <1>5 DEF GiveUp
      <3>2. report[n].stage # "free" /\ report[n].node = n
        <4>1. report[n] \in Report /\ report[n].node \in {n, Late}
          BY <1>1 DEF Inv, TypeOK
        <4>2. report[n].stage = "free" <=> report[n].node = Late
          BY <1>1 DEF Inv, TypeOK
        <4> QED
          BY <3>1, <4>1, <4>2
      <3> QED
        BY <1>1, <1>5, <3>1, <3>2 DEF GiveUp, NoReport, Fault, Inv, TypeOK
    <2>2. /\ report'[n] = NoReport /\ report'[Late] = report[n]
          /\ \A h \in Handler \ {n, Late} : report'[h] = report[h]
          /\ report' \in [Handler -> Report]
      BY <1>1, <2>1, ReportType DEF Inv, TypeOK
    <2>3. Late \notin since
      BY <1>1, <2>1 DEF Inv, SinceInv, OnWay
    <2>4. TypeOK'
      <3>1. \A h \in Handler : report'[h].stage = "free" <=> report'[h].node = Late
        BY <1>1, <2>1, <2>2 DEF Inv, TypeOK, NoReport
      <3>2. \A x \in Node : report'[x].node \in {x, Late}
        BY <1>1, <2>2, LateIsNoNode DEF Inv, TypeOK, NoReport, Handler
      <3>3. since' \subseteq Handler
        BY <1>1, <2>1 DEF Inv, TypeOK
      <3> QED
        BY <2>1, <2>2, <3>1, <3>2, <3>3
           DEF Inv, TypeOK, hostVars, storeVars, watchVars, streamVars
    <2>5. Unannounced => Unannounced'
      BY <1>1, <2>1, <2>2 DEF Unannounced
    <2>6. StoodInv'
      <3>1. ASSUME NEW x \in stood
            PROVE  host[x].blocker # "done"
                   /\ (report'[x].stage \in {"posted", "taken"} => report'[x].view.blocker # "done")
        <4>1. x \in Handler /\ x # Late
          BY LateIsNoNode DEF Inv, TypeOK, Handler
        <4> QED
          BY <2>2, <4>1 DEF Inv, StoodInv, OnWay, NoReport
      <3> QED
        BY <2>1, <3>1 DEF StoodInv, OnWay, hostVars, storeVars
    <2>7. SinceInv'
      <3> SUFFICES ASSUME NEW h \in Handler
                   PROVE  /\ h \in since' => report'[h].stage \in {"posted", "taken"}
                          /\ report'[h].stage \in {"posted", "taken"}
                             /\ report'[h].view.blocker = "listed" /\ h \notin since' =>
                                /\ host[report'[h].node].blocker # "done"
                                /\ h = Late /\ report'[report'[h].node].stage \in {"posted", "taken"} =>
                                      report'[report'[h].node].view.blocker # "done"
        BY <2>1 DEF SinceInv, OnWay, hostVars
      <3>1. CASE h = Late
        BY <1>1, <2>1, <2>2, <2>3, <3>1 DEF Inv, SinceInv, OnWay, NoReport
      <3>2. CASE h = n
        BY <1>1, <2>1, <2>2, <2>3, <3>2 DEF NoReport
      <3>3. CASE h \notin {n, Late}
        BY <2>1, <2>2, <3>3 DEF Inv, SinceInv, OnWay
      <3> QED
        BY <3>1, <3>2, <3>3
    <2> QED
      BY <2>1, <2>4, <2>5, <2>6, <2>7, ReportKept DEF Inv, storeVars
  <1> QED
    BY <1>2, <1>3, <1>4, <1>5

\* A window changes.
LEMMA ChangeInv ==
    ASSUME Inv, NEW n \in Changing, NEW v \in Views, Change(n, v)
    PROVE  Inv'
  <1>1. MaxChanges \in Nat /\ n \in Node
    BY LiveViewAssumption
  <1>2. /\ host' = [host EXCEPT ![n] = v] /\ changes' \in 0..MaxChanges /\ told' \subseteq Node
        /\ IF v.blocker = "done" THEN since' = since \cup Reporting(n) /\ stood' = stood \ {n}
                                 ELSE UNCHANGED <<since, stood>>
        /\ UNCHANGED <<report, online, rows, waiting, watchVars, streamVars, faults>>
    BY <1>1 DEF Change, Inv, TypeOK
  <1>3. TypeOK'
    BY <1>1, <1>2 DEF Inv, TypeOK, Reporting, watchVars, streamVars
  <1>4. Unannounced => Unannounced'
    BY <1>2 DEF Unannounced
  <1>5. \A x \in Node : host'[x].blocker = "done" => \/ host[x].blocker = "done"
                                                     \/ x = n /\ v.blocker = "done"
    BY <1>2 DEF Inv, TypeOK
  <1>6. StoodInv'
    BY <1>2, <1>5 DEF Inv, TypeOK, StoodInv, OnWay
  <1>7. SinceInv'
    <2>1. ASSUME NEW h \in Handler, OnWay(h), report[h].view.blocker = "listed", h \notin since'
          PROVE  /\ host'[report[h].node].blocker # "done"
                 /\ h = Late /\ OnWay(report[h].node) =>
                       report[report[h].node].view.blocker # "done"
      <3>1. h \notin since /\ report[h].node \in Node
        BY <1>2, <2>1 DEF Inv, TypeOK, Report, OnWay
      <3>2. ~(report[h].node = n /\ v.blocker = "done")
        BY <1>2, <2>1 DEF Reporting, OnWay
      <3> QED
        BY <1>5, <2>1, <3>1, <3>2 DEF Inv, SinceInv
    <2>2. \A h \in since' : h \in Handler => OnWay(h)
      BY <1>2 DEF Inv, SinceInv, Reporting, OnWay
    <2> QED
      BY <1>2, <2>1, <2>2 DEF SinceInv, OnWay
  <1> QED
    BY <1>2, <1>3, <1>4, <1>6, <1>7, ReportKept DEF Inv

\* A handler's report moves to another stage, or ends.
LEMMA HandlerType ==
    ASSUME Inv, NEW h \in Handler, report[h].stage # "free",
           NEW s \in {"taken", "stored", "observed"}, NEW a \in SUBSET {"row", "other"},
           \/ report' = [report EXCEPT ![h].stage = s]
           \/ report' = [report EXCEPT ![h].stage = s, ![h].after = a]
           \/ report' = [report EXCEPT ![h] = NoReport]
    PROVE  /\ report' \in [Handler -> Report]
           /\ \A x \in Handler : report'[x].stage = "free" <=> report'[x].node = Late
           /\ \A n \in Node : report'[n].node \in {n, Late}
           /\ report'[h] # NoReport => report'[h].stage = s /\ report'[h].node = report[h].node
                                       /\ report'[h].view = report[h].view
           /\ \A x \in Handler \ {h} : report'[x] = report[x]
  <1>1. report[h] \in Report /\ NoReport.stage = "free" /\ NoReport.node = Late
    BY DEF Inv, TypeOK, NoReport
  <1>2. CASE report' = [report EXCEPT ![h].stage = s]
    <2>1. [report[h] EXCEPT !.stage = s] \in Report
      BY <1>1 DEF Report
    <2>2. report' = [report EXCEPT ![h] = [report[h] EXCEPT !.stage = s]]
      BY <1>2 DEF Inv, TypeOK
    <2>3. /\ report' \in [Handler -> Report] /\ report'[h] = [report[h] EXCEPT !.stage = s]
          /\ \A x \in Handler \ {h} : report'[x] = report[x]
      BY <2>1, <2>2 DEF Inv, TypeOK
    <2>4. report'[h].stage = s /\ report'[h].node = report[h].node /\ report'[h].view = report[h].view
      BY <1>1, <2>3 DEF Report
    <2>6. report[h].node # Late
      BY DEF Inv, TypeOK
    <2>7. \A x \in Handler : report'[x].node = report[x].node
      BY <2>3, <2>4
    <2>8. \A x \in Handler : report'[x].stage = "free" <=> report'[x].node = Late
      <3>1. s # "free"
        OBVIOUS
      <3>2. \A x \in Handler \ {h} : report[x].stage = "free" <=> report[x].node = Late
        BY DEF Inv, TypeOK
      <3> QED
        BY <2>3, <2>4, <2>6, <3>1, <3>2
    <2> QED
      BY <2>3, <2>4, <2>7, <2>8 DEF Inv, TypeOK, Handler
  <1>3. CASE report' = [report EXCEPT ![h].stage = s, ![h].after = a]
    <2>1. [report[h] EXCEPT !.stage = s, !.after = a] \in Report
      BY <1>1 DEF Report
    <2>2. report' = [report EXCEPT ![h] = [report[h] EXCEPT !.stage = s, !.after = a]]
      BY <1>3 DEF Inv, TypeOK
    <2>3. /\ report' \in [Handler -> Report]
          /\ report'[h] = [report[h] EXCEPT !.stage = s, !.after = a]
          /\ \A x \in Handler \ {h} : report'[x] = report[x]
      BY <2>1, <2>2 DEF Inv, TypeOK
    <2>4. report'[h].stage = s /\ report'[h].node = report[h].node /\ report'[h].view = report[h].view
      BY <1>1, <2>3 DEF Report
    <2>6. report[h].node # Late
      BY DEF Inv, TypeOK
    <2>7. \A x \in Handler : report'[x].node = report[x].node
      BY <2>3, <2>4
    <2>8. \A x \in Handler : report'[x].stage = "free" <=> report'[x].node = Late
      <3>1. s # "free"
        OBVIOUS
      <3>2. \A x \in Handler \ {h} : report[x].stage = "free" <=> report[x].node = Late
        BY DEF Inv, TypeOK
      <3> QED
        BY <2>3, <2>4, <2>6, <3>1, <3>2
    <2> QED
      BY <2>3, <2>4, <2>7, <2>8 DEF Inv, TypeOK, Handler
  <1>4. CASE report' = [report EXCEPT ![h] = NoReport]
    <2>1. /\ report' \in [Handler -> Report] /\ report'[h] = NoReport
          /\ \A x \in Handler \ {h} : report'[x] = report[x]
      BY <1>4, ReportType DEF Inv, TypeOK
    <2> QED
      BY <1>1, <2>1 DEF Inv, TypeOK, Handler
  <1> QED
    BY <1>2, <1>3, <1>4

\* The transaction, committed or not, changes what the other reports are later
\* than, and nothing else of them.
LEMMA StoreType ==
    ASSUME Inv, NEW h \in Handler, Store(h)
    PROVE  /\ report' \in [Handler -> Report]
           /\ \/ report'[h].stage = "stored" /\ report'[h].node = report[h].node
              \/ report'[h] = NoReport
           /\ \A x \in Handler \ {h} : /\ report'[x].stage = report[x].stage
                                       /\ report'[x].node = report[x].node
                                       /\ report'[x].view = report[x].view
  <1>1. \A x \in Handler : report[x] \in Report
    BY DEF Inv, TypeOK
  <1>2. CASE report' = [x \in Handler |->
                IF x = h THEN [report[h] EXCEPT !.stage = "stored", !.after = {}]
                ELSE [report[x] EXCEPT !.after = AfterStore(x, h)]]
    <2>1. [report[h] EXCEPT !.stage = "stored", !.after = {}] \in Report
      BY <1>1 DEF Report
    <2>2. ASSUME NEW x \in Handler
          PROVE  [report[x] EXCEPT !.after = AfterStore(x, h)] \in Report
      <3>1. report[x].after \subseteq {"row", "other"}
        BY <1>1, ReportType
      <3>2. AfterStore(x, h) \subseteq {"row", "other"}
        BY <3>1 DEF AfterStore
      <3> QED
        BY <1>1, <3>2 DEF Report
    <2>3. report' \in [Handler -> Report]
      BY <1>2, <2>1, <2>2
    <2>4. report'[h].stage = "stored" /\ report'[h].node = report[h].node
      BY <1>1, <1>2 DEF Report
    <2>5. ASSUME NEW x \in Handler \ {h}
          PROVE  /\ report'[x].stage = report[x].stage /\ report'[x].node = report[x].node
                 /\ report'[x].view = report[x].view
      <3>1. report'[x] = [report[x] EXCEPT !.after = AfterStore(x, h)]
        BY <1>2
      <3> QED
        BY <1>1, <3>1 DEF Report
    <2> QED
      BY <2>3, <2>4, <2>5
  <1>3. CASE report' = [x \in Handler |->
                IF x = h THEN NoReport
                ELSE IF h \in Others(x) THEN [report[x] EXCEPT !.after = @ \ {"other"}]
                ELSE report[x]]
    <2>1. ASSUME NEW x \in Handler
          PROVE  [report[x] EXCEPT !.after = @ \ {"other"}] \in Report
      <3>1. report[x].after \subseteq {"row", "other"}
        BY <1>1, ReportType
      <3> QED
        BY <1>1, <3>1 DEF Report
    <2>2. report' \in [Handler -> Report] /\ report'[h] = NoReport
      BY <1>1, <1>3, <2>1, ReportType
    <2>3. ASSUME NEW x \in Handler \ {h}
          PROVE  /\ report'[x].stage = report[x].stage /\ report'[x].node = report[x].node
                 /\ report'[x].view = report[x].view
      <3>1. \/ report'[x] = [report[x] EXCEPT !.after = @ \ {"other"}]
            \/ report'[x] = report[x]
        BY <1>3
      <3> QED
        BY <1>1, <3>1 DEF Report
    <2> QED
      BY <2>2, <2>3
  <1> QED
    BY <1>2, <1>3 DEF Store

LEMMA OutstandingType ==
    ASSUME Inv, NEW h \in Handler, report[h].stage # "free"
    PROVE  /\ Outstanding(h) \subseteq Node
           /\ report[h].view.blocker = "listed" => Outstanding(h) = waiting \cup {report[h].node}
           /\ report[h].view.blocker # "listed" =>
                 /\ Outstanding(h) \subseteq waiting
                 /\ waiting \ Outstanding(h) \subseteq {report[h].node}
                 /\ waiting # Outstanding(h) =>
                       report[h].view.blocker = "done" /\ "row" \in report[h].after
  <1>1. report[h].node \in Node /\ report[h].view.blocker \in {"listed", "done", "none"}
    <2>1. report[h] \in Report /\ report[h].node # Late
      BY DEF Inv, TypeOK
    <2> QED
      BY <2>1, ReportType, ViewType
  <1>2. waiting \subseteq Node
    BY DEF Inv, TypeOK
  <1> QED
    BY <1>1, <1>2 DEF Outstanding

\* The transaction keeps the invariant.
LEMMA StoreInv ==
    ASSUME Inv, NEW h \in Handler, Store(h)
    PROVE  Inv'
  <1> DEFINE n == report[h].node
             v == report[h].view
  <1>1. report[h].stage = "taken" /\ since' = since \ {h}
        /\ UNCHANGED <<hostVars, online, watchVars, stream, unaged, signal, missed>>
    BY DEF Store
  <1>2. n \in Node /\ v \in Views /\ MaxFaults \in Nat /\ n \in Handler /\ n # Late
        /\ (h = n \/ h = Late)
    BY <1>1, LiveViewAssumption DEF Inv, TypeOK, Report, Handler
  <1>3. v.blocker \in {"listed", "done", "none"}
    BY <1>2, ViewType
  <1>4. TypeOK'
    <2>1. rows' \in [Node -> Views] /\ waiting' \subseteq Node
      BY <1>1, <1>2, OutstandingType DEF Store, storeVars, Inv, TypeOK
    <2>2. stood' \subseteq Node
      BY <1>1, <1>2 DEF Store, Stood, storeVars, Inv, TypeOK
    <2>3. behind' \subseteq {b \in Browser : stream[b] # "off"}
      BY DEF Store, Subscribed, Inv, TypeOK
    <2>4. faults' \in 0..MaxFaults
      BY <1>2 DEF Store, Fault, Inv, TypeOK
    <2>5. \A x \in Handler : report'[x].stage = "free" <=> report'[x].node = Late
      BY <1>1, StoreType DEF Inv, TypeOK, NoReport
    <2>6. \A x \in Node : report'[x].node \in {x, Late}
      BY StoreType DEF Inv, TypeOK, NoReport, Handler
    <2> QED
      BY <1>1, <2>1, <2>2, <2>3, <2>4, <2>5, <2>6, StoreType DEF Inv, TypeOK, hostVars, watchVars
  <1>5. ListedInv'
    <2>1. CASE UNCHANGED storeVars
      BY <2>1 DEF Inv, ListedInv, storeVars
    <2>2. CASE rows' = [rows EXCEPT ![n] = v] /\ waiting' = Outstanding(h)
      <3>1. ASSUME NEW x \in Node, rows'[x].blocker = "listed"
            PROVE  x \in waiting'
        <4>1. CASE x = n
          <5>1. v.blocker = "listed"
            BY <1>2, <2>2, <3>1, <4>1 DEF Inv, TypeOK
          <5> QED
            BY <1>1, <2>2, <4>1, <5>1, OutstandingType
        <4>2. CASE x # n
          <5>1. x \in waiting
            BY <2>2, <3>1, <4>2 DEF Inv, TypeOK, ListedInv
          <5> QED
            BY <1>1, <2>2, <4>2, <5>1, OutstandingType
        <4> QED
          BY <4>1, <4>2
      <3> QED
        BY <3>1 DEF ListedInv
    <2> QED
      BY <2>1, <2>2 DEF Store
  <1>6. RaisedInv'
    BY <1>1 DEF watchVars, Inv, RaisedInv
  <1>7. BehindInv' /\ AgesInv'
    <2>1. CASE rows' = [rows EXCEPT ![n] = v] /\ behind' = (IF v = rows[n] THEN behind ELSE Subscribed)
               /\ report'[h].stage = "stored"
      <3>1. BehindInv'
        BY <2>1 DEF BehindInv, Unannounced
      <3>2. CASE v = rows[n]
        <4>1. rows' = rows /\ behind' = behind
          BY <2>1, <3>2 DEF Inv, TypeOK
        <4> QED
          BY <1>1, <3>1, <4>1 DEF Inv, AgesInv
      <3>3. CASE v # rows[n]
        <4>1. \A b \in Browser : stream[b] # "off" => b \in behind'
          BY <2>1, <3>3 DEF Subscribed
        <4> QED
          BY <1>1, <3>1, <4>1 DEF Inv, AgesInv
      <3> QED
        BY <3>2, <3>3
    <2>2. CASE UNCHANGED <<storeVars, behind>> /\ report'[h] = NoReport
      <3>1. Unannounced => Unannounced'
        BY <1>1, StoreType DEF Unannounced
      <3> QED
        BY <1>1, <2>2, <3>1 DEF Inv, BehindInv, AgesInv, storeVars
    <2>3. \/ rows' = [rows EXCEPT ![n] = v] /\ behind' = (IF v = rows[n] THEN behind ELSE Subscribed)
             /\ report'[h].stage = "stored"
          \/ UNCHANGED <<storeVars, behind>> /\ report'[h] = NoReport
      <3>1. CASE /\ rows' = [rows EXCEPT ![n] = v]
                 /\ behind' = IF v = rows[n] THEN behind ELSE Subscribed
                 /\ report' = [x \in Handler |->
                       IF x = h THEN [report[h] EXCEPT !.stage = "stored", !.after = {}]
                       ELSE [report[x] EXCEPT !.after = AfterStore(x, h)]]
        <4>1. report[h] \in Report /\ report'[h] = [report[h] EXCEPT !.stage = "stored", !.after = {}]
          BY <3>1 DEF Inv, TypeOK
        <4>2. report'[h].stage = "stored"
          BY <4>1 DEF Report
        <4> QED
          BY <3>1, <4>2
      <3>2. CASE /\ UNCHANGED <<storeVars, behind>>
                 /\ report' = [x \in Handler |->
                       IF x = h THEN NoReport
                       ELSE IF h \in Others(x) THEN [report[x] EXCEPT !.after = @ \ {"other"}]
                       ELSE report[x]]
        BY <3>2
      <3> QED
        BY <3>1, <3>2 DEF Store
    <2> QED
      BY <2>1, <2>2, <2>3
  <1>8. ASSUME NEW x \in Handler
        PROVE  /\ report'[x].stage \in {"posted", "taken"} <=> x # h /\ OnWay(x)
               /\ x # h => report'[x].node = report[x].node /\ report'[x].view = report[x].view
    BY StoreType DEF OnWay, NoReport
  <1>9. SinceInv'
    <2> SUFFICES ASSUME NEW x \in Handler
                 PROVE  /\ x \in since' => report'[x].stage \in {"posted", "taken"}
                        /\ report'[x].stage \in {"posted", "taken"}
                           /\ report'[x].view.blocker = "listed" /\ x \notin since' =>
                              /\ host[report'[x].node].blocker # "done"
                              /\ x = Late /\ report'[report'[x].node].stage \in {"posted", "taken"} =>
                                    report'[report'[x].node].view.blocker # "done"
      BY <1>1 DEF SinceInv, OnWay, hostVars
    <2>1. OnWay(x) => report[x].node \in Handler
      BY DEF Inv, TypeOK, Handler, Report, OnWay
    <2>2. x \in since' => report'[x].stage \in {"posted", "taken"}
      BY <1>1, <1>8 DEF Inv, SinceInv
    <2>3. ASSUME report'[x].stage \in {"posted", "taken"}, report'[x].view.blocker = "listed",
                 x \notin since'
          PROVE  /\ host[report'[x].node].blocker # "done"
                 /\ x = Late /\ report'[report'[x].node].stage \in {"posted", "taken"} =>
                       report'[report'[x].node].view.blocker # "done"
      <3>1. x # h /\ OnWay(x) /\ x \notin since /\ report'[x].node = report[x].node
            /\ report[x].view.blocker = "listed"
        BY <1>1, <1>8, <2>3
      <3>2. /\ host[report[x].node].blocker # "done"
            /\ x = Late /\ OnWay(report[x].node) => report[report[x].node].view.blocker # "done"
        BY <3>1 DEF Inv, SinceInv
      <3> QED
        BY <1>8, <2>1, <3>1, <3>2
    <2> QED
      BY <2>2, <2>3
  <1>10. StoodInv'
    <2>1. ASSUME NEW x \in stood', x \in stood
          PROVE  /\ host[x].blocker # "done"
                 /\ report'[x].stage \in {"posted", "taken"} => report'[x].view.blocker # "done"
      <3>1. x \in Handler
        BY <2>1 DEF Inv, TypeOK, Handler
      <3> QED
        BY <1>8, <2>1, <3>1 DEF Inv, StoodInv
    <2>2. ASSUME NEW x \in stood', x \notin stood
          PROVE  /\ host[x].blocker # "done"
                 /\ report'[x].stage \in {"posted", "taken"} => report'[x].view.blocker # "done"
      <3>1. x = n /\ h \notin since /\ v.blocker = "listed"
        BY <2>2 DEF Store, Stood, storeVars
      <3>2. host[n].blocker # "done" /\ (h = Late /\ OnWay(n) => report[n].view.blocker # "done")
        BY <1>1, <3>1 DEF Inv, SinceInv, OnWay
      <3> QED
        BY <1>2, <1>8, <3>1, <3>2
    <2> QED
      BY <1>1, <2>1, <2>2 DEF StoodInv, OnWay, hostVars
  <1> QED
    BY <1>4, <1>5, <1>6, <1>7, <1>9, <1>10 DEF Inv

LEMMA TakeInv ==
    ASSUME Inv, NEW h \in Handler, Take(h)
    PROVE  Inv'
  <1>1. report[h].stage = "posted"
        /\ UNCHANGED <<hostVars, since, online, storeVars, watchVars, streamVars, faults>>
    BY DEF Take
  <1>2. PICK a \in SUBSET {"row", "other"} :
            report' = [report EXCEPT ![h].stage = "taken", ![h].after = a]
    BY DEF Take
  <1>3. /\ report' \in [Handler -> Report]
        /\ \A x \in Handler : report'[x].stage = "free" <=> report'[x].node = Late
        /\ \A n \in Node : report'[n].node \in {n, Late}
        /\ \A x \in Handler \ {h} : report'[x] = report[x]
    BY <1>1, <1>2, HandlerType
  <1>4. report'[h].stage = "taken" /\ report'[h].node = report[h].node
        /\ report'[h].view = report[h].view
    BY <1>2 DEF Inv, TypeOK, Report
  <1>5. TypeOK'
    BY <1>1, <1>3 DEF Inv, TypeOK, hostVars, storeVars, watchVars, streamVars
  <1>6. Unannounced => Unannounced'
    BY <1>1, <1>3 DEF Unannounced
  <1>7. SinceInv' /\ StoodInv'
    <2>1. ASSUME NEW x \in Handler
          PROVE  /\ OnWay(x)' => OnWay(x) /\ report'[x].node = report[x].node
                                 /\ report'[x].view = report[x].view
                 /\ x \in since => OnWay(x)'
      BY <1>1, <1>3, <1>4 DEF OnWay, Inv, SinceInv
    <2> QED
      BY <1>1, <2>1, WayKept DEF hostVars, storeVars
  <1> QED
    BY <1>1, <1>5, <1>6, <1>7, ReportKept DEF Inv, storeVars

LEMMA HandleInv ==
    ASSUME Inv, NEW h \in Handler, Handle(h)
    PROVE  Inv'
  <1> DEFINE n == report[h].node
             v == report[h].view
  <1>1. report[h].stage # "free"
    BY DEF Handle, Take, Store, ObserveBlocked, Notify
  <1>2. n \in Node /\ v \in Views
    BY <1>1 DEF Inv, TypeOK, Report
  <1>3. v.blocker \in {"listed", "done", "none"} /\ v.prompt \in BOOLEAN
    BY <1>2, ViewType
  <1>6. CASE ObserveBlocked(h)
    <2> DEFINE due == v.prompt /\ Due(entry[n])
    <2>1. /\ entry' = [x \in Node |->
                IF x # n THEN Kept(n, x)
                ELSE IF ~v.prompt THEN "none"
                ELSE IF due THEN "told"
                ELSE IF entry[n] = "none" THEN "fresh" ELSE entry[n]]
          /\ sending' = IF due THEN sending \cup {n} ELSE sending
          /\ raised' = IF due THEN raised \cup {n}
                       ELSE IF v.prompt THEN raised ELSE raised \ {n}
          /\ report' = [report EXCEPT ![h].stage = "observed"]
          /\ report[h].stage = "stored"
          /\ UNCHANGED <<hostVars, since, online, storeVars, streamVars, faults>>
      BY <1>6 DEF ObserveBlocked
    <2>2. entry' \in [Node -> {"none", "fresh", "stuck", "told", "old"}]
      BY <1>2, <2>1 DEF Kept, Inv, TypeOK
    <2>3. sending' \subseteq Node /\ raised' \subseteq Node
      BY <1>2, <2>1 DEF Inv, TypeOK
    <2>4. /\ report' \in [Handler -> Report]
          /\ \A x \in Handler : report'[x].stage = "free" <=> report'[x].node = Late
          /\ \A x \in Node : report'[x].node \in {x, Late}
          /\ report'[h].stage = "observed"
          /\ \A x \in Handler \ {h} : report'[x] = report[x]
      <3>1. report'[h].stage = "observed"
        BY <2>1 DEF Inv, TypeOK, Report
      <3> QED
        BY <1>1, <2>1, <3>1, HandlerType
    <2>5. TypeOK'
      BY <2>1, <2>2, <2>3, <2>4 DEF Inv, TypeOK, hostVars, storeVars, streamVars
    <2>6. ListedInv' /\ AgesInv'
      BY <2>1 DEF Inv, ListedInv, AgesInv, storeVars, streamVars
    <2>7. RaisedInv'
      <3>1. ASSUME NEW x \in raised'
            PROVE  entry'[x] = "told"
        <4>1. CASE x # n
          <5>1. x \in raised /\ x \in Node
            BY <2>1, <2>3, <4>1
          <5> QED
            BY <2>1, <4>1, <5>1 DEF Kept, Inv, RaisedInv
        <4>2. CASE x = n
          <5>1. v.prompt
            BY <1>3, <2>1, <4>2
          <5>2. CASE due
            BY <1>2, <2>1, <4>2, <5>2
          <5>3. CASE ~due
            <6>1. entry[n] = "told"
              BY <2>1, <4>2, <5>1, <5>3 DEF Inv, RaisedInv
            <6> QED
              BY <1>2, <2>1, <4>2, <5>1, <5>3, <6>1
          <5> QED
            BY <5>2, <5>3
        <4> QED
          BY <4>1, <4>2
      <3> QED
        BY <3>1 DEF RaisedInv
    <2>8. Unannounced'
      BY <2>4 DEF Unannounced
    <2>9. SinceInv' /\ StoodInv'
      <3>1. ASSUME NEW x \in Handler
            PROVE  /\ OnWay(x)' => OnWay(x) /\ report'[x].node = report[x].node
                                   /\ report'[x].view = report[x].view
                   /\ x \in since => OnWay(x)'
        BY <2>1, <2>4 DEF OnWay, Inv, SinceInv
      <3> QED
        BY <2>1, <3>1, WayKept DEF hostVars, storeVars
    <2> QED
      BY <2>5, <2>6, <2>7, <2>8, <2>9 DEF Inv, BehindInv
  <1>7. CASE Notify(h)
    <2>1. /\ signal' = Subscribed /\ report[h].stage = "observed"
          /\ report' = [report EXCEPT ![h] = NoReport]
          /\ UNCHANGED <<hostVars, since, online, storeVars, watchVars, stream, unaged, behind,
                         missed, faults>>
      BY <1>7 DEF Notify, NotifyAll
    <2>2. /\ report' \in [Handler -> Report]
          /\ \A x \in Handler : report'[x].stage = "free" <=> report'[x].node = Late
          /\ \A x \in Node : report'[x].node \in {x, Late}
          /\ report'[h].stage = "free"
          /\ \A x \in Handler \ {h} : report'[x] = report[x]
      <3>1. report'[h].stage = "free"
        BY <2>1 DEF Inv, TypeOK, NoReport
      <3> QED
        BY <1>1, <2>1, <3>1, HandlerType
    <2>3. TypeOK'
      BY <2>1, <2>2 DEF Subscribed, Inv, TypeOK, hostVars, storeVars, watchVars
    <2>4. ListedInv' /\ RaisedInv' /\ AgesInv'
      BY <2>1 DEF Inv, ListedInv, RaisedInv, AgesInv, storeVars, watchVars
    <2>5. behind' \subseteq signal'
      BY <2>1 DEF Subscribed, Inv, TypeOK
    <2>6. SinceInv' /\ StoodInv'
      <3>1. ASSUME NEW x \in Handler
            PROVE  /\ OnWay(x)' => OnWay(x) /\ report'[x].node = report[x].node
                                   /\ report'[x].view = report[x].view
                   /\ x \in since => OnWay(x)'
        BY <2>1, <2>2 DEF OnWay, Inv, SinceInv
      <3> QED
        BY <2>1, <3>1, WayKept DEF hostVars, storeVars
    <2> QED
      BY <2>3, <2>4, <2>5, <2>6 DEF Inv, BehindInv
  <1> QED
    BY <1>6, <1>7, TakeInv, StoreInv DEF Handle

\* The notifications, and the watcher's clock.
LEMMA WatchInv ==
    ASSUME Inv, NEW n \in Node, Send(n) \/ GracePasses(n) \/ RepeatPasses(n)
    PROVE  Inv'
  <1>1. MaxFaults \in Nat
    BY LiveViewAssumption
  <1>2. ListedInv' /\ BehindInv' /\ AgesInv'
    BY DEF Send, GracePasses, RepeatPasses, Inv, ListedInv, BehindInv, AgesInv, Unannounced,
           reportVars, storeVars, streamVars
  <1>3. SinceInv' /\ StoodInv'
    BY DEF Send, GracePasses, RepeatPasses, Inv, SinceInv, StoodInv, OnWay, hostVars,
           reportVars, storeVars
  <1>4. TypeOK'
    BY <1>1 DEF Send, GracePasses, RepeatPasses, Fault, Inv, TypeOK, hostVars, reportVars,
                storeVars, streamVars
  <1>5. RaisedInv'
    <2>1. CASE Send(n)
      BY <2>1 DEF Send, Inv, RaisedInv
    <2>2. CASE GracePasses(n)
      BY <2>2 DEF GracePasses, Inv, TypeOK, RaisedInv
    <2>3. CASE RepeatPasses(n)
      BY <2>3 DEF RepeatPasses, Inv, TypeOK, RaisedInv
    <2> QED
      BY <2>1, <2>2, <2>3
  <1> QED
    BY <1>2, <1>3, <1>4, <1>5 DEF Inv

\* The streams.
LEMMA StreamInv ==
    ASSUME Inv, NEW b \in Browser, Subscribe(b) \/ Stream(b) \/ Leave(b)
    PROVE  Inv'
  <1>1. MaxFaults \in Nat
    BY LiveViewAssumption
  <1>2. /\ ListedInv' /\ RaisedInv' /\ SinceInv' /\ StoodInv' /\ (Unannounced' <=> Unannounced)
        /\ UNCHANGED <<rows, waiting>>
    BY DEF Subscribe, Stream, Wake, Drain, ReadView, ReadAges, Leave, Inv, ListedInv,
           RaisedInv, SinceInv, StoodInv, OnWay, Unannounced, hostVars, reportVars, storeVars,
           watchVars
  <1>3. \E s \in {"off", "idle", "coalescing", "reading", "aging"} : At(b, s)
    BY DEF Subscribe, Stream, Wake, Drain, ReadView, ReadAges, Leave
  <1>4. /\ stream' \in [Browser -> {"off", "idle", "coalescing", "reading", "aging"}]
        /\ \A x \in Browser \ {b} : stream'[x] = stream[x]
    BY <1>3 DEF At, Inv, TypeOK
  <1>5. unaged' \in [Browser -> SUBSET Node] /\ \A x \in Browser \ {b} : unaged'[x] = unaged[x]
    BY DEF Subscribe, Stream, Wake, Drain, ReadView, ReadAges, Leave, Inv, TypeOK
  <1>6. TypeOK'
    <2>1. /\ UNCHANGED <<hostVars, reportVars, online, storeVars, watchVars>>
          /\ faults' \in 0..MaxFaults
      BY <1>1 DEF Subscribe, Stream, Wake, Drain, ReadView, ReadAges, Leave, Fault, Inv,
                  TypeOK
    <2>2. /\ missed' \subseteq Browser
          /\ signal' \subseteq {x \in Browser : stream'[x] # "off"}
          /\ behind' \subseteq {x \in Browser : stream'[x] # "off"}
      BY <1>4 DEF Subscribe, Stream, Wake, Drain, ReadView, ReadAges, Leave, At, Inv, TypeOK
    <2> QED
      BY <1>4, <1>5, <2>1, <2>2 DEF Inv, TypeOK, hostVars, reportVars, storeVars, watchVars
  <1>7. \A x \in Browser \ {b} : /\ x \in behind' <=> x \in behind
                                 /\ x \in missed' <=> x \in missed
                                 /\ x \in signal' <=> x \in signal
    <2>1. CASE Subscribe(b) \/ Leave(b)
      BY <2>1 DEF Subscribe, Leave
    <2>2. CASE Wake(b) \/ Drain(b)
      BY <2>2 DEF Wake, Drain
    <2>3. CASE ReadView(b)
      BY <2>3 DEF ReadView
    <2>4. CASE ReadAges(b)
      BY <2>4 DEF ReadAges
    <2> QED
      BY <2>1, <2>2, <2>3, <2>4 DEF Stream
  <1>8. ASSUME b \in behind'
        PROVE  \/ b \in signal'
               \/ b \in missed' /\ stream'[b] # "aging"
               \/ stream'[b] \in {"coalescing", "reading"}
               \/ Unannounced
    <2>1. CASE Subscribe(b)
      BY <2>1 DEF Subscribe, At, Inv, TypeOK
    <2>2. CASE Wake(b) \/ Drain(b)
      BY <2>2 DEF Wake, Drain, At, Inv, TypeOK
    <2>3. CASE ReadView(b)
      BY <1>8, <2>3 DEF ReadView, At, Inv, TypeOK
    <2>4. CASE ReadAges(b)
      BY <1>8, <2>4 DEF ReadAges, At, Inv, TypeOK, BehindInv
    <2>5. CASE Leave(b)
      BY <1>8, <2>5 DEF Leave
    <2> QED
      BY <2>1, <2>2, <2>3, <2>4, <2>5 DEF Stream
  <1>9. BehindInv'
    <2>1. behind \subseteq Browser /\ behind' \subseteq Browser
      BY <1>6 DEF Inv, TypeOK
    <2>2. ASSUME NEW x \in behind', x # b
          PROVE  \/ x \in signal'
                 \/ x \in missed' /\ stream'[x] # "aging"
                 \/ stream'[x] \in {"coalescing", "reading"}
                 \/ Unannounced
      BY <1>4, <1>7, <2>1, <2>2 DEF Inv, BehindInv
    <2> QED
      BY <1>2, <1>8, <2>2 DEF BehindInv
  <1>10. /\ stream'[b] = "aging" /\ b \notin behind' => \A n \in unaged'[b] : rows[n].blocker = "listed"
         /\ stream'[b] = "off" => unaged'[b] = {}
         /\ stream'[b] # "aging" /\ unaged'[b] # {} => b \in behind' \cup missed'
    <2>1. CASE Subscribe(b) \/ Leave(b)
      BY <2>1 DEF Subscribe, Leave, At, Inv, TypeOK
    <2>2. CASE Wake(b) \/ Drain(b)
      BY <2>2 DEF Wake, Drain, At, Inv, TypeOK, AgesInv
    <2>3. CASE ReadView(b)
      <3>1. stream[b] = "reading"
        BY <2>3 DEF ReadView
      <3> QED
        BY <2>3, <3>1 DEF ReadView, At, Inv, TypeOK, AgesInv
    <2>4. CASE ReadAges(b)
      <3>1. stream[b] = "aging" /\ stream'[b] = "idle" /\ behind' = behind
        BY <2>4 DEF ReadAges, At, Inv, TypeOK
      <3>2. CASE b \in missed'
        BY <3>1, <3>2
      <3>3. CASE b \notin missed'
        <4>1. unaged'[b] = unaged[b] \ waiting
          BY <2>4, <3>3 DEF ReadAges, Inv, TypeOK
        <4>2. b \notin behind => unaged[b] \subseteq waiting
          BY <3>1 DEF Inv, TypeOK, AgesInv, ListedInv
        <4> QED
          BY <3>1, <4>1, <4>2
      <3> QED
        BY <3>2, <3>3
    <2> QED
      BY <2>1, <2>2, <2>3, <2>4 DEF Stream
  <1>11. AgesInv'
    <2>1. ASSUME NEW x \in Browser, x # b
          PROVE  /\ stream'[x] = "aging" /\ x \notin behind' =>
                       \A n \in unaged'[x] : rows'[n].blocker = "listed"
                 /\ stream'[x] = "off" => unaged'[x] = {}
                 /\ stream'[x] # "aging" /\ unaged'[x] # {} => x \in behind' \cup missed'
      <3>1. /\ stream'[x] = stream[x] /\ unaged'[x] = unaged[x]
            /\ x \in behind' <=> x \in behind
            /\ x \in missed' <=> x \in missed
        BY <1>4, <1>5, <1>7, <2>1
      <3> QED
        BY <1>2, <3>1 DEF Inv, AgesInv
    <2> QED
      BY <1>2, <1>10, <2>1 DEF AgesInv
  <1> QED
    BY <1>2, <1>6, <1>9, <1>11 DEF Inv

LEMMA InvNext == Inv /\ [Next]_vars => Inv'
  <1> SUFFICES ASSUME Inv, [Next]_vars
               PROVE  Inv'
    OBVIOUS
  <1>1. CASE UNCHANGED vars
    BY <1>1 DEF vars, Inv, TypeOK, ListedInv, RaisedInv, BehindInv, AgesInv, SinceInv, StoodInv,
                OnWay, Unannounced, hostVars, reportVars, storeVars, watchVars, streamVars
  <1>2. ASSUME NEW n \in Changing, (\E v \in Views : Change(n, v)) \/ Drop(n) \/ GiveUp(n)
        PROVE  Inv'
    BY <1>2, ChangeInv, NodeInv, LiveViewAssumption
  <1>3. ASSUME NEW n \in Node, \/ Connect(n) \/ Post(n)
                               \/ Send(n) \/ GracePasses(n) \/ RepeatPasses(n)
        PROVE  Inv'
    BY <1>3, NodeInv, WatchInv
  <1>4. CASE \E h \in Handler : Handle(h)
    BY <1>4, HandleInv
  <1>5. CASE \E b \in Browser : Subscribe(b) \/ Stream(b) \/ Leave(b)
    BY <1>5, StreamInv
  <1> QED
    BY <1>1, <1>2, <1>3, <1>4, <1>5 DEF Next

-----------------------------------------------------------------------------
\* Every variable keeps its type, late handlers and lost connections included.
THEOREM ViewTypeCorrect == Spec => []TypeOK
  <1>1. Inv => TypeOK
    BY DEF Inv
  <1> QED
    BY <1>1, InvInit, InvNext, PTL DEF Spec

\* For any nodes, handlers and browsers, a stream that waits without a signal
\* shows what is stored, the time of each blocker included: it subscribes before it
\* reads, drains its channel before it reads again, and reads the rows first
\* (events.go handleEvents, store.go ListSessions).
THEOREM IdleScreenCurrent == Spec => []IdleScreenIsCurrent
  <1>1. Inv => IdleScreenIsCurrent
    <2> SUFFICES ASSUME Inv, NEW b \in Browser, stream[b] = "idle",
                        b \notin signal \cup missed, ~Unannounced
                 PROVE  b \notin behind /\ unaged[b] = {}
      BY DEF IdleScreenIsCurrent
    <2>1. b \notin behind
      BY DEF Inv, BehindInv
    <2> QED
      BY <2>1 DEF Inv, AgesInv
  <1> QED
    BY <1>1, InvInit, InvNext, PTL DEF Spec

\* A blocker is resolved by a report of its node that calls it done, and once it
\* has been listed again by no report that was begun before, but for one that the
\* node had given up and whose second was taken later all the same (waitingage.go
\* reconcileWaiting: only what was last seen before the report's second).
THEOREM ProjectResolves == Spec => OnlyItsProjectResolves
  <1> DEFINE A == \A n \in waiting \ waiting' :
                     rows'[n].blocker = "done" /\ (n \in stood => OvertakenBegin(n))
  <1>1. Inv /\ [Next]_vars => [A]_vars
    <2> SUFFICES ASSUME Inv, Next, NEW n \in waiting \ waiting'
                 PROVE  rows'[n].blocker = "done" /\ (n \in stood => OvertakenBegin(n))
      OBVIOUS
    <2>1. PICK h \in Handler : Store(h)
      <3>1. PICK h \in Handler : Handle(h)
        <4>1. ASSUME NEW c \in Changing, (\E w \in Views : Change(c, w)) \/ Drop(c) \/ GiveUp(c)
              PROVE  FALSE
          BY <4>1 DEF Change, Drop, GiveUp, storeVars
        <4>2. ASSUME NEW c \in Node, \/ Connect(c) \/ Post(c)
                                    \/ Send(c) \/ GracePasses(c) \/ RepeatPasses(c)
              PROVE  FALSE
          BY <4>2 DEF Connect, Post, Send, GracePasses, RepeatPasses, storeVars
        <4>3. ASSUME NEW b \in Browser, Subscribe(b) \/ Stream(b) \/ Leave(b)
              PROVE  FALSE
          BY <4>3 DEF Subscribe, Stream, Wake, Drain, ReadView, ReadAges, Leave, storeVars
        <4> QED
          BY <4>1, <4>2, <4>3 DEF Next
      <3> QED
        BY <3>1 DEF Handle, Take, ObserveBlocked, Notify, storeVars
    <2>2. /\ rows' = [rows EXCEPT ![report[h].node] = report[h].view]
          /\ waiting' = Outstanding(h)
          /\ report' = [x \in Handler |->
                IF x = h THEN [report[h] EXCEPT !.stage = "stored", !.after = {}]
                ELSE [report[x] EXCEPT !.after = AfterStore(x, h)]]
      <3>1. waiting' # waiting
        OBVIOUS
      <3> QED
        BY <2>1, <3>1 DEF Store, storeVars
    <2>3. report[h].stage = "taken" /\ report[h] \in Report /\ report[h].node \in Node
          /\ (h = report[h].node \/ h = Late)
      BY <2>1 DEF Store, Inv, TypeOK, Report, Handler
    <2>4. n = report[h].node /\ report[h].view.blocker = "done" /\ "row" \in report[h].after
      BY <2>2, <2>3, OutstandingType
    <2>5. rows'[n].blocker = "done"
      BY <2>2, <2>3, <2>4 DEF Inv, TypeOK
    <2>6. ASSUME n \in stood
          PROVE  OvertakenBegin(n)
      <3>1. h # n
        BY <2>3, <2>4, <2>6 DEF Inv, StoodInv, OnWay
      <3>2. report'[h].stage = "stored"
        BY <2>2, <2>3 DEF Report
      <3> QED
        BY <2>3, <2>4, <3>1, <3>2 DEF OvertakenBegin
    <2> QED
      BY <2>5, <2>6
  <1> QED
    BY <1>1, InvInit, InvNext, PTL DEF Spec, OnlyItsProjectResolves

\* A prompt is raised once per repeat, for any nodes whose reports interleave
\* (blocked.go observe, which rebuilds one node's entries).
THEOREM RaisedOnce == Spec => RaisedOncePerRepeat
  <1> DEFINE A == \A n \in Node : n \in sending' \ sending => n \notin raised
  <1>1. Inv /\ [Next]_vars => [A]_vars
    <2> SUFFICES ASSUME Inv, Next, NEW n \in Node, n \in sending' \ sending
                 PROVE  n \notin raised
      OBVIOUS
    <2>1. PICK h \in Handler : ObserveBlocked(h)
      <3>1. PICK h \in Handler : Handle(h)
        <4>1. ASSUME NEW c \in Changing, (\E w \in Views : Change(c, w)) \/ Drop(c) \/ GiveUp(c)
              PROVE  FALSE
          BY <4>1 DEF Change, Drop, GiveUp, watchVars
        <4>2. ASSUME NEW c \in Node, \/ Connect(c) \/ Post(c)
                                    \/ Send(c) \/ GracePasses(c) \/ RepeatPasses(c)
              PROVE  FALSE
          BY <4>2 DEF Connect, Post, Send, GracePasses, RepeatPasses, watchVars
        <4>3. ASSUME NEW b \in Browser, Subscribe(b) \/ Stream(b) \/ Leave(b)
              PROVE  FALSE
          BY <4>3 DEF Subscribe, Stream, Wake, Drain, ReadView, ReadAges, Leave, watchVars
        <4> QED
          BY <4>1, <4>2, <4>3 DEF Next
      <3> QED
        BY <3>1 DEF Handle, Take, Store, Notify, watchVars
    <2>2. n = report[h].node /\ Due(entry[n])
      BY <2>1 DEF ObserveBlocked
    <2> QED
      BY <2>2 DEF Due, Inv, RaisedInv
  <1> QED
    BY <1>1, InvInit, InvNext, PTL DEF Spec, RaisedOncePerRepeat

-----------------------------------------------------------------------------
(* Sequences in order, listings of sets, and pages.                         *)

\* The least of some numbers: what a proof by induction begins with.
LEMMA LeastNatural ==
    ASSUME NEW T \in SUBSET Nat, T # {}
    PROVE  \E n \in T : \A m \in T : n <= m
  <1> DEFINE R == OpToRel(<, Nat)
  <1>1. IsWellFoundedOn(R, Nat)
    BY NatLessThanWellFounded
  <1>2. \A x, y \in Nat : <<y, x>> \in R <=> y < x
    BY DEF OpToRel
  <1> HIDE DEF R
  <1>3. PICK x \in T : \A y \in T : ~(<<y, x>> \in R)
    BY <1>1, WFMin
  <1>4. \A m \in T : ~(m < x)
    BY <1>2, <1>3
  <1>5. x \in Nat /\ \A m \in T : x <= m
    BY <1>4
  <1> QED
    BY <1>5

\* A sequence in the order R, of which each pair is in R.
InOrder(s, R) == \A i, j \in DOMAIN s : i < j => <<s[i], s[j]>> \in R

\* R orders S: it compares any two, and goes on.
Orders(R, S) ==
    /\ \A x, y \in S : x # y => <<x, y>> \in R \/ <<y, x>> \in R
    /\ \A x, y, z \in S : <<x, y>> \in R /\ <<y, z>> \in R => <<x, z>> \in R

\* One more is put into a listing before the first that it precedes.
LEMMA OneMore ==
    ASSUME NEW S, NEW R, Orders(R, S), NEW x \in S, NEW n \in Nat,
           NEW s \in [1..n -> S \ {x}], InOrder(s, R)
    PROVE  \E t \in [1..(n + 1) -> S] : InOrder(t, R)
  <1> DEFINE Later == {i \in 1..n : <<x, s[i]>> \in R} \cup {n + 1}
  <1>1. PICK k \in Later : \A i \in Later : k <= i
    <2>1. Later \in SUBSET Nat /\ Later # {}
      OBVIOUS
    <2> HIDE DEF Later
    <2> QED
      BY <2>1, LeastNatural
  <1>2. k \in 1..(n + 1) /\ (k <= n => <<x, s[k]>> \in R)
        /\ \A i \in 1..n : i < k => <<x, s[i]>> \notin R
    BY <1>1
  <1> HIDE DEF Later
  <1>3. \A i \in 1..n : s[i] \in S /\ s[i] # x
    OBVIOUS
  <1>4. \A i \in 1..n : i < k => <<s[i], x>> \in R
    BY <1>2, <1>3 DEF Orders
  <1>5. \A i \in 1..n : k <= i => <<x, s[i]>> \in R
    <2> SUFFICES ASSUME NEW i \in 1..n, k <= i
                 PROVE  <<x, s[i]>> \in R
      OBVIOUS
    <2>1. CASE i = k
      BY <1>2, <2>1
    <2>2. CASE k < i
      <3>1. k \in 1..n /\ <<s[k], s[i]>> \in R
        BY <1>2, <2>2 DEF InOrder
      <3> QED
        BY <1>2, <1>3, <3>1 DEF Orders
    <2> QED
      BY <1>2, <2>1, <2>2
  <1> DEFINE t == [i \in 1..(n + 1) |-> IF i < k THEN s[i] ELSE IF i = k THEN x ELSE s[i - 1]]
  <1>6. t \in [1..(n + 1) -> S]
    BY <1>2, <1>3
  <1>7. ASSUME NEW i \in 1..(n + 1), NEW j \in 1..(n + 1), i < j
        PROVE  <<t[i], t[j]>> \in R
    <2>1. CASE j < k
      BY <1>2, <1>7, <2>1 DEF InOrder
    <2>2. CASE j = k
      BY <1>2, <1>4, <1>7, <2>2
    <2>3. CASE i < k /\ k < j
      <3>1. i \in 1..n /\ j - 1 \in 1..n /\ i < j - 1 /\ t[i] = s[i] /\ t[j] = s[j - 1]
        BY <1>2, <1>7, <2>3
      <3> QED
        BY <3>1 DEF InOrder
    <2>4. CASE i = k
      <3>1. j - 1 \in 1..n /\ k <= j - 1 /\ t[i] = x /\ t[j] = s[j - 1]
        BY <1>2, <1>7, <2>4
      <3> QED
        BY <1>5, <3>1
    <2>5. CASE k < i
      <3>1. i - 1 \in 1..n /\ j - 1 \in 1..n /\ i - 1 < j - 1 /\ t[i] = s[i - 1] /\ t[j] = s[j - 1]
        BY <1>2, <1>7, <2>5
      <3> QED
        BY <3>1 DEF InOrder
    <2> QED
      BY <1>2, <1>7, <2>1, <2>2, <2>3, <2>4, <2>5
  <1>8. InOrder(t, R)
    <2>1. DOMAIN t = 1..(n + 1)
      OBVIOUS
    <2> HIDE DEF t
    <2> QED
      BY <1>7, <2>1 DEF InOrder
  <1> QED
    BY <1>6, <1>8

\* Finitely many things that R orders can be listed in that order.
LEMMA Listing ==
    ASSUME NEW S, IsFiniteSet(S), NEW R, Orders(R, S)
    PROVE  \E s \in [1..Cardinality(S) -> S] : InOrder(s, R)
  <1> DEFINE Bad == {U \in SUBSET S : ~\E s \in [1..Cardinality(U) -> U] : InOrder(s, R)}
             T == {Cardinality(U) : U \in Bad}
  <1>1. SUFFICES ASSUME S \in Bad
                 PROVE  FALSE
    OBVIOUS
  <1>2. \A U \in SUBSET S : IsFiniteSet(U) /\ Cardinality(U) \in Nat
    BY FS_Subset, FS_CardinalityType
  <1>3. PICK n \in T : \A m \in T : n <= m
    <2>1. T \in SUBSET Nat /\ T # {}
      BY <1>1, <1>2
    <2> HIDE DEF T
    <2> QED
      BY <2>1, LeastNatural
  <1>4. PICK U \in Bad : Cardinality(U) = n
    OBVIOUS
  <1>5. U \in SUBSET S /\ IsFiniteSet(U) /\ n \in Nat /\ ~\E s \in [1..n -> U] : InOrder(s, R)
    BY <1>2, <1>4
  <1>6. CASE U = {}
    <2>1. n = 0
      BY <1>4, <1>6, FS_EmptySet
    <2>2. [i \in 1..0 |-> i] \in [1..n -> U]
      BY <2>1
    <2>3. InOrder([i \in 1..0 |-> i], R)
      BY DEF InOrder
    <2> QED
      BY <1>5, <2>2, <2>3
  <1>7. CASE U # {}
    <2>1. PICK x \in U : TRUE
      BY <1>7
    <2>2. Cardinality(U \ {x}) = n - 1 /\ IsFiniteSet(U \ {x})
      BY <1>4, <1>5, <2>1, FS_RemoveElement
    <2>3. n - 1 \in Nat /\ U \ {x} \in SUBSET S
      BY <1>2, <1>5, <2>2
    <2>4. U \ {x} \notin Bad
      <3>1. SUFFICES ASSUME U \ {x} \in Bad
                     PROVE  FALSE
        OBVIOUS
      <3>2. Cardinality(U \ {x}) \in T
        BY <3>1
      <3> HIDE DEF T, Bad
      <3>3. n <= n - 1
        BY <1>3, <2>2, <3>2
      <3> QED
        BY <1>5, <3>3
    <2>5. PICK s \in [1..(n - 1) -> U \ {x}] : InOrder(s, R)
      BY <2>2, <2>3, <2>4
    <2>6. Orders(R, U)
      BY <1>5 DEF Orders
    <2>7. \E t \in [1..((n - 1) + 1) -> U] : InOrder(t, R)
      BY <2>1, <2>3, <2>5, <2>6, OneMore
    <2> QED
      BY <1>5, <2>7
  <1> QED
    BY <1>6, <1>7

\* The size of a set is what SequencesExt takes it to be.
LEMMA SameSize == ASSUME NEW S PROVE Seqs!Cardinality(S) = Cardinality(S)
  BY DEF Seqs!Cardinality, Cardinality

\* A listing of a finite set has each of its elements, once.
LEMMA ListingIsOfAll ==
    ASSUME NEW S, IsFiniteSet(S), NEW s \in Seqs!SetToSeqs(S)
    PROVE  /\ s \in Seq(S) /\ Len(s) \in Nat /\ DOMAIN s = 1..Len(s)
           /\ \A i \in 1..Len(s) : s[i] \in S
           /\ \A x \in S : \E i \in 1..Len(s) : s[i] = x
           /\ \A i, j \in 1..Len(s) : s[i] = s[j] => i = j
  <1> DEFINE c == Cardinality(S)
  <1>1. c \in Nat
    BY FS_CardinalityType
  <1>2. s \in [1..c -> S] /\ \A i, j \in 1..c : i # j => s[i] # s[j]
    BY SameSize DEF Seqs!SetToSeqs
  <1>3. Cardinality(1..c) = c
    BY <1>1, FS_Interval
  <1>4. s \in Injection(1..c, S)
    BY <1>2 DEF Injection, IsInjective
  <1> HIDE DEF c
  <1>5. s \in Surjection(1..c, S)
    BY <1>3, <1>4, FS_Injection DEF c
  <1>6. s \in Seq(S) /\ Len(s) = c /\ DOMAIN s = 1..c
    BY <1>1, <1>2
  <1> QED
    BY <1>1, <1>2, <1>5, <1>6 DEF Surjection

\* A listing in order of a set that R orders: R is of a thing and another.
LEMMA ListingInOrder ==
    ASSUME NEW S, IsFiniteSet(S), NEW R, Orders(R, S), \A x \in S : <<x, x>> \notin R
    PROVE  \E s \in Seqs!SetToSeqs(S) : InOrder(s, R)
  <1>1. PICK s \in [1..Cardinality(S) -> S] : InOrder(s, R)
    BY Listing
  <1>2. Cardinality(S) \in Nat
    BY FS_CardinalityType
  <1>3. ASSUME NEW i \in 1..Cardinality(S), NEW j \in 1..Cardinality(S), i # j
        PROVE  s[i] # s[j]
    <2>1. i < j \/ j < i
      BY <1>2, <1>3
    <2>2. <<s[i], s[j]>> \in R \/ <<s[j], s[i]>> \in R
      BY <1>1, <2>1 DEF InOrder
    <2> QED
      BY <2>2
  <1>4. s \in Seqs!SetToSeqs(S)
    BY <1>3, SameSize DEF Seqs!SetToSeqs
  <1> QED
    BY <1>1, <1>4

\* The first c elements of a sequence.
LEMMA FirstElements ==
    ASSUME NEW S, NEW s \in Seq(S), NEW c \in 0..Len(s)
    PROVE  /\ SubSeq(s, 1, c) \in Seq(S) /\ Len(SubSeq(s, 1, c)) = c
           /\ DOMAIN SubSeq(s, 1, c) = 1..c
           /\ \A i \in 1..c : SubSeq(s, 1, c)[i] = s[i] /\ s[i] \in S
           /\ SubSeq(s, 1, c) = <<>> <=> c = 0
  <1>1. Len(s) \in Nat /\ \A i \in 1..Len(s) : s[i] \in S
    OBVIOUS
  <1>2. c \in Nat /\ \A i \in 1..c : s[i] \in S
    BY <1>1
  <1>3. /\ SubSeq(s, 1, c) \in Seq(S)
        /\ Len(SubSeq(s, 1, c)) = IF 1 <= c THEN c - 1 + 1 ELSE 0
        /\ \A i \in 1..(c - 1 + 1) : SubSeq(s, 1, c)[i] = s[1 + i - 1]
    BY <1>2, SubSeqProperties
  <1>4. Len(SubSeq(s, 1, c)) = c /\ \A i \in 1..c : SubSeq(s, 1, c)[i] = s[i]
    BY <1>2, <1>3
  <1>5. SubSeq(s, 1, c) = <<>> <=> c = 0
    BY <1>3, <1>4
  <1> QED
    BY <1>2, <1>3, <1>4, <1>5

\* One sequence after another.
LEMMA ConcatIs ==
    ASSUME NEW S, NEW s \in Seq(S), NEW t \in Seq(S)
    PROVE  /\ s \o t \in Seq(S) /\ Len(s) \in Nat /\ Len(t) \in Nat
           /\ Len(s \o t) = Len(s) + Len(t) /\ DOMAIN (s \o t) = 1..(Len(s) + Len(t))
           /\ \A i \in 1..Len(s) : (s \o t)[i] = s[i] /\ i \in 1..(Len(s) + Len(t))
           /\ \A i \in 1..Len(t) : (s \o t)[Len(s) + i] = t[i] /\ Len(s) + i \in 1..(Len(s) + Len(t))
           /\ \A i \in 1..(Len(s) + Len(t)) : i \in 1..Len(s) \/ \E j \in 1..Len(t) : i = Len(s) + j
  <1> DEFINE m == Len(s)
             n == Len(t)
             u == s \o t
  <1>1. m \in Nat /\ n \in Nat
    BY LenProperties
  <1>2. /\ u \in Seq(S) /\ Len(u) = m + n
        /\ \A i \in 1..(m + n) : u[i] = IF i <= m THEN s[i] ELSE t[i - m]
    BY ConcatProperties
  <1>3. DOMAIN u = 1..(m + n)
    BY <1>2, LenProperties
  <1> HIDE DEF m, n, u
  <1>4. \A k \in 1..m : k \in 1..(m + n) /\ k <= m
    BY <1>1
  <1>5. \A k \in 1..n : m + k \in 1..(m + n) /\ ~(m + k <= m) /\ (m + k) - m = k
    BY <1>1
  <1>6. \A k \in 1..(m + n) : k \in 1..m \/ (k - m \in 1..n /\ k = m + (k - m))
    BY <1>1
  <1>7. \A k \in 1..n : u[m + k] = t[k]
    BY <1>2, <1>5
  <1>8. \A k \in 1..m : u[k] = s[k]
    BY <1>2, <1>4
  <1> QED
    BY <1>1, <1>2, <1>3, <1>4, <1>5, <1>6, <1>7, <1>8 DEF m, n, u

-----------------------------------------------------------------------------
\* History and Changes are what they are said to be.
LEMMA HistoryLists ==
    ASSUME PageTypeOK
    PROVE  /\ History \in Seqs!SetToSeqs({i \in Undone : BeforeCursor(i)})
           /\ \A j, k \in DOMAIN History : j < k => Earlier(History[k], History[j])
  <1> DEFINE S == {i \in Undone : BeforeCursor(i)}
             R == {x \in Row \X Row : Earlier(x[2], x[1])}
  <1>1. S \subseteq Row /\ IsFiniteSet(S)
    BY PagingAssumption, FS_Subset DEF Undone
  <1>2. \A i \in Row : i \in Nat /\ HistoryKey(i) \in Nat
    BY PagingAssumption DEF PageTypeOK, HistoryKey
  <1>3. Orders(R, S) /\ \A x \in S : <<x, x>> \notin R
    <2> HIDE DEF S
    <2>1. \A x, y \in S : <<x, y>> \in R <=> Earlier(y, x)
      BY <1>1
    <2>2. \A x \in S : ~Earlier(x, x)
      BY <1>1, <1>2 DEF Earlier
    <2>3. \A x, y \in S : x # y => Earlier(x, y) \/ Earlier(y, x)
      BY <1>1, <1>2 DEF Earlier
    <2>4. \A x, y, z \in S : Earlier(y, x) /\ Earlier(z, y) => Earlier(z, x)
      BY <1>1, <1>2 DEF Earlier
    <2> HIDE DEF R
    <2> QED
      BY <2>1, <2>2, <2>3, <2>4 DEF Orders
  <1> HIDE DEF R
  <1>4. PICK s \in Seqs!SetToSeqs(S) : InOrder(s, R)
    <2> HIDE DEF S
    <2> QED
      BY <1>1, <1>3, ListingInOrder
  <1>5. \A j, k \in DOMAIN s : j < k => Earlier(s[k], s[j])
    BY <1>4 DEF InOrder, R
  <1> QED
    BY <1>4, <1>5 DEF History

LEMMA ChangesLists ==
    ASSUME PageTypeOK
    PROVE  /\ Changes \in Seqs!SetToSeqs({i \in Undone : AfterCursor(i)})
           /\ \A j, k \in DOMAIN Changes : j < k => Changed(Changes[j], Changes[k])
  <1> DEFINE S == {i \in Undone : AfterCursor(i)}
             R == {x \in Row \X Row : Changed(x[1], x[2])}
  <1>1. S \subseteq Row /\ IsFiniteSet(S)
    BY PagingAssumption, FS_Subset DEF Undone
  <1>2. \A i \in Row : i \in Nat /\ row[i].updated \in Nat
    BY PagingAssumption DEF PageTypeOK
  <1>3. Orders(R, S) /\ \A x \in S : <<x, x>> \notin R
    <2> HIDE DEF S
    <2>1. \A x, y \in S : <<x, y>> \in R <=> Changed(x, y)
      BY <1>1
    <2>2. \A x \in S : ~Changed(x, x)
      BY <1>1, <1>2 DEF Changed
    <2>3. \A x, y \in S : x # y => Changed(x, y) \/ Changed(y, x)
      BY <1>1, <1>2 DEF Changed
    <2>4. \A x, y, z \in S : Changed(x, y) /\ Changed(y, z) => Changed(x, z)
      BY <1>1, <1>2 DEF Changed
    <2> HIDE DEF R
    <2> QED
      BY <2>1, <2>2, <2>3, <2>4 DEF Orders
  <1> HIDE DEF R
  <1>4. PICK s \in Seqs!SetToSeqs(S) : InOrder(s, R)
    <2> HIDE DEF S
    <2> QED
      BY <1>1, <1>3, ListingInOrder
  <1>5. \A j, k \in DOMAIN s : j < k => Changed(s[j], s[k])
    BY <1>4 DEF InOrder, R
  <1> QED
    BY <1>4, <1>5 DEF Changes

\* What a page of some rows is: the first c of them, all unless it is clamped.
LEMMA PageIs ==
    ASSUME NEW S, NEW s \in Seq(S), NEW page \in Pages(s)
    PROVE  \E c \in 0..Len(s) :
              /\ page.ids = SubSeq(s, 1, c)
              /\ ~page.clamped => c = Len(s)
              /\ c = 0 => Len(s) = 0 /\ ~page.clamped
              /\ page.clamped \in BOOLEAN
  <1>1. PICK c \in (0..Len(s)) \X BOOLEAN :
           /\ page = [ids |-> SubSeq(s, 1, c[1]), clamped |-> c[1] = PageLimit \/ c[2]]
           /\ c[1] <= PageLimit
           /\ IF c[2] THEN c[1] > 0 ELSE c[1] \in {PageLimit, Len(s)}
    BY DEF Pages
  <1>2. PageLimit > 0 /\ PageLimit \in Nat /\ Len(s) \in Nat
    BY PagingAssumption
  <1>3. page.ids = SubSeq(s, 1, c[1]) /\ page.clamped = (c[1] = PageLimit \/ c[2])
    BY <1>1
  <1>4. ~page.clamped => c[1] = Len(s)
    BY <1>1, <1>3
  <1>5. c[1] = 0 => ~c[2] /\ c[1] # PageLimit
    BY <1>1, <1>2
  <1>6. c[1] = 0 => Len(s) = 0 /\ ~page.clamped
    BY <1>1, <1>3, <1>5
  <1>7. page.clamped \in BOOLEAN
    BY <1>1, <1>3
  <1> QED
    BY <1>1, <1>3, <1>4, <1>6, <1>7

-----------------------------------------------------------------------------
(* Paging: the tasks' history and tail, and the log of the missions.        *)

\* The rows that history has brought.
Paged == {paged[k] : k \in DOMAIN paged}

\* History has brought its rows latest first, and its cursor stands on the last;
\* a row of the first page's time that is still to do has been brought, or is
\* before the cursor of a history that has not come to its end.
HistoryInv ==
    /\ IF paged = <<>> THEN before = NoCursor /\ first = {} /\ ~bottom
                       ELSE before = LastCreated(paged) /\ after # NoCursor
    /\ \A k \in DOMAIN paged : row[paged[k]] # NoRow
    /\ \A j, k \in DOMAIN paged : j < k => Earlier(paged[k], paged[j])
    /\ \A i \in first \ ceased : i \in Undone /\ (i \in Paged \/ (~bottom /\ BeforeCursor(i)))

\* The client has the last writing of a row, or history will bring it.
HasOrWill(i) == held[i] = row[i].writes \/ (~bottom /\ BeforeCursor(i))

\* Of the rows not written in a shadow, those the client lacks are ahead of one
\* of its cursors; once a page of the tail was not clamped, of that of history.
TailInv ==
    /\ \A i \in Row : row[i].updated <= now
    /\ after.ts <= now
    /\ after = NoCursor => ~current /\ ~stamping /\ ~bottom
    /\ after # NoCursor => \A i \in Undone \ shadowed : HasOrWill(i) \/ AfterCursor(i)
    /\ stamping \/ current => \A i \in Undone \ shadowed : HasOrWill(i)

\* The entries that have been read.
Read == {read[k] : k \in DOMAIN read}

\* What there was at the first page and still is has been read, or its node did
\* not answer, or it has a twin, or a page before the end will bring it.
LogInv ==
    /\ mark = NoCursor <=> read = <<>>
    /\ \A k \in DOMAIN read : ~Past(read[k])
    /\ \A j, k \in DOMAIN read : read[j] = read[k] => j = k
    /\ \A x, y \in logged : x # y /\ Id[x] = Id[y] => x \in twins
    /\ \A x \in lasting :
          /\ x \in logged
          /\ NodeOf[x] \in silent \/ x \in twins \/ x \in Read \/ (~ended /\ Past(x))

PageInv == PageTypeOK /\ HistoryInv /\ TailInv /\ LogInv
-----------------------------------------------------------------------------
LEMMA Bounds ==
    /\ PageLimit \in Nat /\ MaxNow \in Nat /\ MaxWrites \in Nat
    /\ PageLimit > 0 /\ MaxNow > 0 /\ MaxWrites > 0
    /\ \A i \in Row : i \in Nat /\ i > 0
    /\ \A e \in Entry : Id[e] \in Nat /\ Id[e] > 0 /\ Dated[e] \in Nat
  BY PagingAssumption

\* The cursor that stands on a row, or on an entry, is one.
LEMMA CursorIsOne ==
    ASSUME NEW t \in Nat, NEW i \in Nat, i > 0
    PROVE  [ts |-> t, id |-> i] # NoCursor
  BY DEF NoCursor

LEMMA PageInitially == PageInit => PageInv
  <1> SUFFICES ASSUME PageInit
               PROVE  PageInv
    OBVIOUS
  <1>1. NoRow \in [created : 0..MaxNow, updated : 0..MaxNow, writes : 0..MaxWrites, done : BOOLEAN]
    BY Bounds DEF NoRow
  <1>2. NoCursor \in [ts : 0..MaxNow, id : Row \cup {0}] /\ NoCursor \in [ts : Nat, id : Nat]
    BY Bounds DEF NoCursor
  <1>3. PageTypeOK
    <2>1. row \in [Row -> [created : 0..MaxNow, updated : 0..MaxNow, writes : 0..MaxWrites, done : BOOLEAN]]
      BY <1>1 DEF PageInit
    <2>2. now \in 1..MaxNow /\ held \in [Row -> 0..MaxWrites]
      BY Bounds DEF PageInit
    <2>3. paged \in Seq(Row) /\ read \in Seq(Entry)
      BY DEF PageInit
    <2>4. {before, after} \subseteq [ts : 0..MaxNow, id : Row \cup {0}] /\ mark \in [ts : Nat, id : Nat]
      BY <1>2 DEF PageInit
    <2> QED
      BY <2>1, <2>2, <2>3, <2>4 DEF PageInit, PageTypeOK
  <1>4. Undone = {}
    BY DEF PageInit, Undone
  <1>5. HistoryInv
    BY DEF PageInit, HistoryInv
  <1>6. TailInv
    BY <1>4, Bounds DEF PageInit, TailInv, NoRow, NoCursor
  <1>7. LogInv
    BY DEF PageInit, LogInv
  <1> QED
    BY <1>3, <1>5, <1>6, <1>7 DEF PageInv

\* What a step of the tasks leaves alone of the log, and the other way round.
LEMMA LogKept == ASSUME LogInv, UNCHANGED missionVars PROVE LogInv'
  BY DEF LogInv, missionVars, Past, Read

LEMMA TasksKept ==
    ASSUME HistoryInv, TailInv, UNCHANGED taskVars
    PROVE  HistoryInv' /\ TailInv'
  <1> USE DEF taskVars
  <1>1. Undone' = Undone
    BY DEF Undone
  <1>2. \A i \in Row : (BeforeCursor(i))' = BeforeCursor(i) /\ (AfterCursor(i))' = AfterCursor(i)
                    /\ (HasOrWill(i))' = HasOrWill(i)
    BY DEF BeforeCursor, AfterCursor, HasOrWill, HistoryKey
  <1>3. HistoryInv'
    BY <1>1 DEF HistoryInv, LastCreated, HistoryKey, Earlier, BeforeCursor, Paged
  <1>4. TailInv'
    BY <1>1 DEF TailInv, BeforeCursor, AfterCursor, HasOrWill, HistoryKey
  <1> QED
    BY <1>3, <1>4
-----------------------------------------------------------------------------
\* The log.
LEMMA WriteLogStep == ASSUME PageInv, NEW e \in Entry, WriteLog(e) PROVE PageInv'
  <1> USE DEF PageInv
  <1>1. UNCHANGED <<read, mark, ended, silent>> /\ UNCHANGED taskVars
    BY DEF WriteLog
  <1>2. /\ logged' \subseteq Entry /\ lasting' = lasting \ {e} /\ twins \subseteq twins'
        /\ twins' \subseteq Entry /\ logged \ {e} \subseteq logged'
    BY DEF WriteLog, PageTypeOK
  <1>3. PageTypeOK'
    BY <1>1, <1>2 DEF PageTypeOK, taskVars
  <1>4. HistoryInv' /\ TailInv'
    BY <1>1, TasksKept
  <1>5. \A x, y \in logged' : x # y /\ Id[x] = Id[y] => x \in twins'
    BY DEF WriteLog
  <1>6. \A x \in lasting' : x \in lasting /\ x \in logged'
    BY <1>2 DEF LogInv
  <1>7. LogInv'
    BY <1>1, <1>2, <1>5, <1>6 DEF LogInv, Past, Read
  <1> QED
    BY <1>3, <1>4, <1>7

LEMMA LogPageStep ==
    ASSUME PageInv, NEW answering \in SUBSET Nodes, LogPage(answering)
    PROVE  PageInv'
  <1> USE DEF PageInv
  <1> DEFINE Still(e) == \/ mark' = NoCursor
                         \/ Dated[e] < mark'.ts
                         \/ Dated[e] = mark'.ts /\ Id[e] > mark'.id
  <1> DEFINE S == {e \in logged : NodeOf[e] \in answering /\ Past(e)}
             Sorted(s) == \A i, j \in DOMAIN s : i < j =>
                            \/ Dated[s[i]] > Dated[s[j]]
                            \/ Dated[s[i]] = Dated[s[j]] /\ Id[s[i]] <= Id[s[j]]
             Size(s) == IF Len(s) > PageLimit THEN PageLimit ELSE Len(s)
             page(s) == SubSeq(s, 1, Size(s))
  <1>1. PICK all \in Merged(answering) :
          /\ read' = read \o page(all)
          /\ mark' = IF page(all) = <<>> THEN mark
                     ELSE [ts |-> Dated[page(all)[Len(page(all))]], id |-> Id[page(all)[Len(page(all))]]]
          /\ ended' = (Len(all) <= PageLimit)
    BY DEF LogPage
  <1>2. /\ ~ended /\ silent' = silent \cup (Nodes \ answering)
        /\ lasting' = IF mark = NoCursor THEN logged ELSE lasting
        /\ UNCHANGED <<logged, twins>> /\ UNCHANGED taskVars
    BY DEF LogPage
  <1>3. S \subseteq Entry /\ IsFiniteSet(S)
    BY PagingAssumption, FS_Subset DEF PageTypeOK
  <1>4. all \in Seqs!SetToSeqs(S) /\ Sorted(all)
    BY DEF Merged
  <1>5. /\ all \in Seq(S) /\ Len(all) \in Nat
        /\ \A i \in 1..Len(all) : all[i] \in S
        /\ \A x \in S : \E i \in 1..Len(all) : all[i] = x
        /\ \A i, j \in 1..Len(all) : all[i] = all[j] => i = j
    <2> HIDE DEF S
    <2> QED
      BY <1>3, <1>4, ListingIsOfAll
  <1>6. DOMAIN all = 1..Len(all)
    BY <1>5
  <1> DEFINE InSeq(i, j) == \/ Dated[all[i]] > Dated[all[j]]
                            \/ Dated[all[i]] = Dated[all[j]] /\ Id[all[i]] <= Id[all[j]]
  <1>6a. \A i, j \in 1..Len(all) : i < j => InSeq(i, j)
    BY <1>4, <1>6
  <1>6b. \A i \in 1..Len(all) : all[i] \in Entry
    BY <1>3, <1>5
  <1> HIDE DEF Sorted
  <1>7. PICK n \in 0..Len(all) : n = Size(all)
    BY <1>5, Bounds
  <1>8. n \in Nat /\ n <= Len(all) /\ (ended' => n = Len(all)) /\ (n = 0 => Len(all) = 0 /\ ended')
    <2>1. ended' <=> Len(all) <= PageLimit
      BY <1>1
    <2>2. n = IF Len(all) > PageLimit THEN PageLimit ELSE Len(all)
      BY <1>7
    <2> HIDE DEF S, Size, page, Still
    <2> QED
      BY <1>5, <2>1, <2>2, Bounds
  <1> DEFINE p == page(all)
  <1>9. /\ p \in Seq(S) /\ Len(p) = n /\ \A i \in 1..n : p[i] = all[i]
        /\ p = <<>> <=> n = 0
    <2>1. p = SubSeq(all, 1, n)
      BY <1>7
    <2> HIDE DEF S, Size, page, p, Still
    <2>2. /\ SubSeq(all, 1, n) \in Seq(S) /\ Len(SubSeq(all, 1, n)) = n
          /\ \A i \in 1..n : SubSeq(all, 1, n)[i] = all[i]
          /\ SubSeq(all, 1, n) = <<>> <=> n = 0
      BY <1>5, FirstElements
    <2> QED
      BY <2>1, <2>2
  <1>10. read' = read \o p /\ mark' = IF n = 0 THEN mark ELSE [ts |-> Dated[all[n]], id |-> Id[all[n]]]
    <2>1. read' = read \o p
          /\ mark' = IF p = <<>> THEN mark ELSE [ts |-> Dated[p[Len(p)]], id |-> Id[p[Len(p)]]]
      BY <1>1
    <2> HIDE DEF S, Size, page, p, Still
    <2>2. n # 0 => p[Len(p)] = all[n]
      BY <1>8, <1>9
    <2> QED
      BY <1>9, <2>1, <2>2
  <1> HIDE DEF page, Size, p
  <1>11. \A x \in S : x \in Entry /\ x \in logged /\ Past(x)
    BY <1>3
  <1>12. p \in Seq(Entry) /\ read \in Seq(Entry)
    BY <1>3, <1>9 DEF PageTypeOK
  <1>13. /\ read' \in Seq(Entry) /\ Len(read) \in Nat /\ DOMAIN read = 1..Len(read)
         /\ DOMAIN read' = 1..(Len(read) + n)
         /\ \A i \in 1..Len(read) : read'[i] = read[i] /\ i \in DOMAIN read'
         /\ \A i \in 1..n : read'[Len(read) + i] = all[i] /\ Len(read) + i \in DOMAIN read'
         /\ \A i \in DOMAIN read' : i \in 1..Len(read) \/ \E j \in 1..n : i = Len(read) + j
    <2>1. /\ read \o p \in Seq(Entry) /\ Len(read) \in Nat
          /\ DOMAIN (read \o p) = 1..(Len(read) + Len(p))
          /\ \A i \in 1..Len(read) : (read \o p)[i] = read[i] /\ i \in 1..(Len(read) + Len(p))
          /\ \A i \in 1..Len(p) : /\ (read \o p)[Len(read) + i] = p[i]
                                  /\ Len(read) + i \in 1..(Len(read) + Len(p))
          /\ \A i \in 1..(Len(read) + Len(p)) :
                i \in 1..Len(read) \/ \E j \in 1..Len(p) : i = Len(read) + j
      BY <1>12, ConcatIs
    <2>2. DOMAIN read = 1..Len(read)
      BY <1>12, LenProperties
    <2> QED
      BY <1>9, <1>10, <2>1, <2>2
  <1>14. /\ mark \in [ts : Nat, id : Nat] /\ mark.ts \in Nat /\ mark.id \in Nat
    BY DEF PageTypeOK
  <1>15. n # 0 => all[n] \in S /\ all[n] \in Entry /\ mark' # NoCursor
                  /\ mark' = [ts |-> Dated[all[n]], id |-> Id[all[n]]]
    <2>1. SUFFICES ASSUME n # 0
                   PROVE  all[n] \in S /\ all[n] \in Entry /\ mark' # NoCursor
                          /\ mark' = [ts |-> Dated[all[n]], id |-> Id[all[n]]]
      OBVIOUS
    <2>2. all[n] \in S /\ all[n] \in Entry
      BY <1>5, <1>8, <1>11, <2>1
    <2> QED
      BY <1>10, <2>1, <2>2, Bounds, CursorIsOne
  <1>16. PageTypeOK'
    <2>1. mark' \in [ts : Nat, id : Nat]
      BY <1>10, <1>14, <1>15, Bounds
    <2>2. ended' \in BOOLEAN
      BY <1>1
    <2>3. lasting' \subseteq Entry
      BY <1>2 DEF PageTypeOK
    <2>4. silent' \subseteq Nodes
      BY <1>2 DEF PageTypeOK
    <2> QED
      BY <1>2, <1>13, <2>1, <2>2, <2>3, <2>4 DEF PageTypeOK, taskVars
  <1>17. HistoryInv' /\ TailInv'
    BY <1>2, TasksKept
  <1>18. \A k \in 1..n : InSeq(k, n)
    <2> SUFFICES ASSUME NEW k \in 1..n
                 PROVE  InSeq(k, n)
      OBVIOUS
    <2>1. n \in 1..Len(all) /\ k \in 1..Len(all)
      BY <1>8, <1>5
    <2>2. CASE k = n
      BY <1>6b, <2>1, <2>2, Bounds
    <2>3. CASE k < n
      <3> HIDE DEF InSeq
      <3> QED
        BY <1>6a, <2>1, <2>3
    <2> QED
      BY <1>8, <2>2, <2>3
  \* The cursor only goes on.
  <1>19. \A e \in Entry : ~Past(e) => ~Still(e)
    <2> SUFFICES ASSUME NEW e \in Entry, ~Past(e)
                 PROVE  ~Still(e)
      OBVIOUS
    <2>1. CASE n = 0
      BY <1>10, <2>1 DEF Past
    <2>2. CASE n # 0
      <3>1. Past(all[n]) /\ all[n] \in Entry
        BY <1>11, <1>15, <2>2
      <3>2. mark # NoCursor
        BY DEF Past
      <3> QED
        BY <1>14, <1>15, <2>2, <3>1, <3>2, Bounds DEF Past
    <2> QED
      BY <2>1, <2>2
  <1>20. \A k \in 1..n : ~Still(all[k])
    <2> SUFFICES ASSUME NEW k \in 1..n
                 PROVE  ~Still(all[k])
      OBVIOUS
    <2>1. n # 0 /\ all[k] \in Entry
      BY <1>5, <1>8, <1>11
    <2> QED
      BY <1>15, <1>18, <2>1, Bounds DEF Past
  <1>21. \A x \in Entry : x \in Read => x \in Read'
    BY <1>13 DEF Read
  <1>22. \A k \in 1..n : all[k] \in Read'
    BY <1>13 DEF Read
  \* Whatever is past the cursor has been read, or is past it still.
  <1>23. ASSUME NEW x \in S
         PROVE  x \in Read' \/ x \in twins \/ (~ended' /\ Still(x))
    <2>1. PICK k \in 1..Len(all) : all[k] = x
      BY <1>5
    <2>2. CASE k <= n
      BY <1>8, <1>22, <2>1, <2>2
    <2>3. CASE n < k
      <3>1. ~ended' /\ n # 0
        BY <1>8, <2>3
      <3>a. n \in 1..Len(all) /\ n < k
        BY <1>5, <1>8, <2>3, <3>1
      <3>2. \/ Dated[all[n]] > Dated[x]
            \/ Dated[all[n]] = Dated[x] /\ Id[all[n]] <= Id[x]
        <4>1. InSeq(n, k)
          <5> HIDE DEF InSeq, S, Still
          <5> QED
            BY <1>6a, <3>a
        <4> QED
          BY <2>1, <4>1
      <3>3. x \in Entry /\ all[n] \in Entry /\ x # all[n]
            /\ x \in logged /\ all[n] \in logged
        <4>1. x # all[n]
          <5> HIDE DEF InSeq, S, Still
          <5>1. n # k
            BY <1>5, <3>a
          <5> QED
            BY <1>5, <2>1, <3>a, <5>1
        <4> QED
          BY <1>11, <1>15, <3>1, <4>1
      <3>4. CASE Id[x] = Id[all[n]]
        BY <3>3, <3>4 DEF LogInv
      <3>5. CASE Id[x] # Id[all[n]]
        BY <1>15, <3>1, <3>2, <3>3, <3>5, Bounds DEF Past
      <3> QED
        BY <3>4, <3>5
    <2> QED
      BY <1>8, <2>2, <2>3
  <1> HIDE DEF S
  <1>24. LogInv'
    <2>1. mark' = NoCursor <=> read' = <<>>
      <3>1. CASE n = 0
        <4>1. p = <<>> /\ mark' = mark
          BY <1>9, <1>10, <3>1
        <4>2. read' = read
          BY <1>10, <1>12, <4>1, ConcatEmptySeq
        <4> QED
          BY <4>1, <4>2 DEF LogInv
      <3>2. CASE n # 0
        <4>1. Len(read) + n \in DOMAIN read'
          BY <1>8, <1>13, <3>2
        <4> QED
          BY <1>15, <3>2, <4>1
      <3> QED
        BY <3>1, <3>2
    <2>2. \A k \in DOMAIN read' : ~Still(read'[k])
      <3> SUFFICES ASSUME NEW k \in DOMAIN read'
                   PROVE  ~Still(read'[k])
        OBVIOUS
      <3>1. CASE k \in 1..Len(read)
        <4>1. read'[k] = read[k] /\ read[k] \in Entry /\ ~Past(read[k])
          BY <1>12, <1>13, <3>1 DEF LogInv
        <4> QED
          BY <1>19, <4>1
      <3>2. CASE \E j \in 1..n : k = Len(read) + j
        <4>1. PICK j \in 1..n : k = Len(read) + j
          BY <3>2
        <4>2. read'[k] = all[j] /\ ~Still(all[j])
          BY <1>13, <1>20, <4>1
        <4> QED
          BY <4>2
      <3> QED
        BY <1>13, <3>1, <3>2
    <2>3. \A j, k \in DOMAIN read' : read'[j] = read'[k] => j = k
      <3>1. \A j \in 1..Len(read), k \in 1..n : read[j] # all[k]
        <4> SUFFICES ASSUME NEW j \in 1..Len(read), NEW k \in 1..n, read[j] = all[k]
                     PROVE  FALSE
          OBVIOUS
        <4>1. ~Past(read[j])
          BY <1>13 DEF LogInv
        <4>2. k \in 1..Len(all)
          BY <1>5, <1>8
        <4> QED
          BY <1>5, <1>11, <4>1, <4>2
      <3> SUFFICES ASSUME NEW j \in DOMAIN read', NEW k \in DOMAIN read', read'[j] = read'[k]
                   PROVE  j = k
        OBVIOUS
      <3>2. CASE j \in 1..Len(read) /\ k \in 1..Len(read)
        BY <1>13, <3>2 DEF LogInv
      <3>3. CASE j \notin 1..Len(read)
        <4>1. PICK a \in 1..n : j = Len(read) + a
          BY <1>13, <3>3
        <4>2. k \notin 1..Len(read)
          BY <1>13, <3>1, <4>1
        <4>3. PICK b \in 1..n : k = Len(read) + b
          BY <1>13, <4>2
        <4>4. all[a] = all[b]
          BY <1>13, <4>1, <4>3
        <4>5. a \in 1..Len(all) /\ b \in 1..Len(all)
          BY <1>5, <1>8
        <4> QED
          BY <1>5, <4>1, <4>3, <4>4, <4>5
      <3>4. CASE k \notin 1..Len(read)
        <4>1. PICK b \in 1..n : k = Len(read) + b
          BY <1>13, <3>4
        <4>2. j \notin 1..Len(read)
          BY <1>13, <3>1, <4>1
        <4> QED
          BY <3>3, <4>2
      <3> QED
        BY <3>2, <3>3, <3>4
    <2>4. \A x, y \in logged' : x # y /\ Id[x] = Id[y] => x \in twins'
      BY <1>2 DEF LogInv
    <2>5. ASSUME NEW x \in lasting'
          PROVE  /\ x \in logged'
                 /\ NodeOf[x] \in silent' \/ x \in twins' \/ x \in Read' \/ (~ended' /\ Still(x))
      <3>1. x \in Entry /\ x \in logged /\ NodeOf[x] \in Nodes
        BY <1>2 DEF LogInv, PageTypeOK, Nodes
      <3>2. NodeOf[x] \in silent \/ x \in twins \/ x \in Read \/ Past(x)
        BY <1>2 DEF LogInv, Past
      <3>3. CASE Past(x) /\ NodeOf[x] \in answering
        <4>1. x \in S
          BY <3>1, <3>3 DEF S
        <4> QED
          BY <1>2, <1>23, <3>1, <4>1
      <3> QED
        BY <1>2, <1>21, <3>1, <3>2, <3>3
    <2> QED
      BY <2>1, <2>2, <2>3, <2>4, <2>5 DEF LogInv, Past, Read
  <1> QED
    BY <1>16, <1>17, <1>24

-----------------------------------------------------------------------------
\* The tasks.  A page of history has the latest of what is before its cursor; what
\* it leaves is earlier than its last row, and it is clamped.
LEMMA HistoryPageIs ==
    ASSUME PageTypeOK, NEW page \in Pages(History)
    PROVE  /\ page.clamped \in BOOLEAN /\ page.ids \in Seq(Row)
           /\ Len(page.ids) \in Nat /\ DOMAIN page.ids = 1..Len(page.ids)
           /\ page.ids = <<>> <=> Len(page.ids) = 0
           /\ \A k \in 1..Len(page.ids) : page.ids[k] \in Undone /\ BeforeCursor(page.ids[k])
           /\ \A j, k \in 1..Len(page.ids) : j < k => Earlier(page.ids[k], page.ids[j])
           /\ \A i \in Undone : BeforeCursor(i) =>
                 \/ \E k \in 1..Len(page.ids) : page.ids[k] = i
                 \/ page.clamped /\ page.ids # <<>> /\ Earlier(i, page.ids[Len(page.ids)])
  <1> DEFINE S == {i \in Undone : BeforeCursor(i)}
  <1>1. S \subseteq Row /\ IsFiniteSet(S)
    BY PagingAssumption, FS_Subset DEF Undone
  <1>2. /\ History \in Seqs!SetToSeqs(S)
        /\ \A j, k \in DOMAIN History : j < k => Earlier(History[k], History[j])
    BY HistoryLists
  <1>3. S \subseteq Undone /\ \A i \in S : BeforeCursor(i)
    OBVIOUS
  <1>4. \A i \in Undone : BeforeCursor(i) => i \in S
    OBVIOUS
  <1> HIDE DEF S
  <1>5. /\ History \in Seq(S) /\ Len(History) \in Nat /\ DOMAIN History = 1..Len(History)
        /\ \A i \in 1..Len(History) : History[i] \in S
        /\ \A x \in S : \E i \in 1..Len(History) : History[i] = x
    BY <1>1, <1>2, ListingIsOfAll
  <1>6. PICK c \in 0..Len(History) :
           /\ page.ids = SubSeq(History, 1, c)
           /\ ~page.clamped => c = Len(History)
           /\ c = 0 => Len(History) = 0 /\ ~page.clamped
           /\ page.clamped \in BOOLEAN
    BY <1>5, PageIs, ZenonT(60)
  <1>7. /\ page.ids \in Seq(S) /\ Len(page.ids) = c /\ DOMAIN page.ids = 1..c
        /\ \A i \in 1..c : page.ids[i] = History[i] /\ History[i] \in S
        /\ page.ids = <<>> <=> c = 0
    <2>1. /\ SubSeq(History, 1, c) \in Seq(S) /\ Len(SubSeq(History, 1, c)) = c
          /\ DOMAIN SubSeq(History, 1, c) = 1..c
          /\ \A i \in 1..c : SubSeq(History, 1, c)[i] = History[i] /\ History[i] \in S
          /\ SubSeq(History, 1, c) = <<>> <=> c = 0
      BY <1>5, FirstElements
    <2> QED
      BY <1>6, <2>1
  <1>8. c \in Nat /\ c <= Len(History) /\ Len(History) \in Nat /\ \A i \in 1..c : i \in 1..Len(History)
    BY <1>5
  <1>9. page.ids \in Seq(Row)
    BY <1>1, <1>7
  <1>10. ASSUME NEW i \in Undone, BeforeCursor(i)
         PROVE  \/ \E k \in 1..c : page.ids[k] = i
                \/ page.clamped /\ c # 0 /\ Earlier(i, page.ids[c])
    <2>1. PICK k \in 1..Len(History) : History[k] = i
      BY <1>4, <1>5, <1>10
    <2>2. CASE k <= c
      BY <1>7, <1>8, <2>1, <2>2
    <2>3. CASE c < k
      <3>1. c # Len(History) /\ Len(History) # 0
        BY <1>8, <2>3
      <3>2. c # 0 /\ page.clamped
        BY <1>6, <3>1
      <3>3. c \in 1..c /\ c \in 1..Len(History)
        BY <1>5, <1>8, <3>2
      <3>4. page.ids[c] = History[c]
        BY <1>7, <3>3
      <3> QED
        BY <1>2, <1>5, <2>1, <2>3, <3>2, <3>3, <3>4
    <2> QED
      BY <1>8, <2>2, <2>3
  <1>11. \A k \in 1..c : page.ids[k] \in Undone /\ BeforeCursor(page.ids[k])
    BY <1>3, <1>7
  <1>12. \A j, k \in 1..c : j < k => Earlier(page.ids[k], page.ids[j])
    BY <1>2, <1>5, <1>7, <1>8
  <1> QED
    BY <1>6, <1>7, <1>8, <1>9, <1>10, <1>11, <1>12

\* A page of the tail has the first of what is after its cursor.
LEMMA ChangesPageIs ==
    ASSUME PageTypeOK, NEW page \in Pages(Changes)
    PROVE  /\ page.clamped \in BOOLEAN /\ page.ids \in Seq(Row)
           /\ Len(page.ids) \in Nat /\ DOMAIN page.ids = 1..Len(page.ids)
           /\ page.ids = <<>> <=> Len(page.ids) = 0
           /\ \A k \in 1..Len(page.ids) : page.ids[k] \in Undone
           /\ \A i \in Undone : AfterCursor(i) =>
                 \/ \E k \in 1..Len(page.ids) : page.ids[k] = i
                 \/ page.clamped /\ page.ids # <<>> /\ Changed(page.ids[Len(page.ids)], i)
  <1> DEFINE S == {i \in Undone : AfterCursor(i)}
  <1>1. S \subseteq Row /\ IsFiniteSet(S)
    BY PagingAssumption, FS_Subset DEF Undone
  <1>2. /\ Changes \in Seqs!SetToSeqs(S)
        /\ \A j, k \in DOMAIN Changes : j < k => Changed(Changes[j], Changes[k])
    BY ChangesLists
  <1>3. S \subseteq Undone
    OBVIOUS
  <1>4. \A i \in Undone : AfterCursor(i) => i \in S
    OBVIOUS
  <1> HIDE DEF S
  <1>5. /\ Changes \in Seq(S) /\ Len(Changes) \in Nat /\ DOMAIN Changes = 1..Len(Changes)
        /\ \A i \in 1..Len(Changes) : Changes[i] \in S
        /\ \A x \in S : \E i \in 1..Len(Changes) : Changes[i] = x
    BY <1>1, <1>2, ListingIsOfAll
  <1>6. PICK c \in 0..Len(Changes) :
           /\ page.ids = SubSeq(Changes, 1, c)
           /\ ~page.clamped => c = Len(Changes)
           /\ c = 0 => Len(Changes) = 0 /\ ~page.clamped
           /\ page.clamped \in BOOLEAN
    BY <1>5, PageIs
  <1>7. /\ page.ids \in Seq(S) /\ Len(page.ids) = c /\ DOMAIN page.ids = 1..c
        /\ \A i \in 1..c : page.ids[i] = Changes[i] /\ Changes[i] \in S
        /\ page.ids = <<>> <=> c = 0
    <2>1. /\ SubSeq(Changes, 1, c) \in Seq(S) /\ Len(SubSeq(Changes, 1, c)) = c
          /\ DOMAIN SubSeq(Changes, 1, c) = 1..c
          /\ \A i \in 1..c : SubSeq(Changes, 1, c)[i] = Changes[i] /\ Changes[i] \in S
          /\ SubSeq(Changes, 1, c) = <<>> <=> c = 0
      BY <1>5, FirstElements
    <2> QED
      BY <1>6, <2>1
  <1>8. c \in Nat /\ c <= Len(Changes) /\ Len(Changes) \in Nat /\ \A i \in 1..c : i \in 1..Len(Changes)
    BY <1>5
  <1>9. page.ids \in Seq(Row)
    BY <1>1, <1>7
  <1>10. ASSUME NEW i \in Undone, AfterCursor(i)
         PROVE  \/ \E k \in 1..c : page.ids[k] = i
                \/ page.clamped /\ c # 0 /\ Changed(page.ids[c], i)
    <2>1. PICK k \in 1..Len(Changes) : Changes[k] = i
      BY <1>4, <1>5, <1>10
    <2>2. CASE k <= c
      BY <1>7, <1>8, <2>1, <2>2
    <2>3. CASE c < k
      <3>1. c # Len(Changes) /\ Len(Changes) # 0
        BY <1>8, <2>3
      <3>2. c # 0 /\ page.clamped
        BY <1>6, <3>1
      <3>3. c \in 1..c /\ c \in 1..Len(Changes)
        BY <1>5, <1>8, <3>2
      <3>4. page.ids[c] = Changes[c]
        BY <1>7, <3>3
      <3> QED
        BY <1>2, <1>5, <2>1, <2>3, <3>2, <3>3, <3>4
    <2> QED
      BY <1>8, <2>2, <2>3
  <1>11. \A k \in 1..c : page.ids[k] \in Undone
    BY <1>3, <1>7
  <1> QED
    BY <1>6, <1>7, <1>8, <1>9, <1>10, <1>11

\* What Sees does to what is held.
LEMMA SeesIs ==
    ASSUME PageTypeOK, NEW ids \in Seq(Row), Sees(ids)
    PROVE  /\ held' \in [Row -> 0..MaxWrites]
           /\ \A k \in 1..Len(ids) : held'[ids[k]] = row[ids[k]].writes
           /\ \A i \in Row : held[i] = row[i].writes => held'[i] = row[i].writes
  <1>1. DOMAIN ids = 1..Len(ids) /\ \A k \in 1..Len(ids) : ids[k] \in Row
    BY LenProperties
  <1>2. \A i \in Row : row[i].writes \in 0..MaxWrites /\ held[i] \in 0..MaxWrites
    BY DEF PageTypeOK
  <1> QED
    BY <1>1, <1>2 DEF Sees

\* A page of history, the first or another: the rows there were to come have come
\* or are still to.
LEMMA HistoryGoesOn ==
    ASSUME PageInv, NEW page \in Pages(History), UNCHANGED row, ~bottom,
           paged' = paged \o page.ids, paged' # <<>>, after' # NoCursor,
           before' = IF page.ids = <<>> THEN before ELSE LastCreated(page.ids),
           bottom' = ~page.clamped,
           \A i \in first' \ ceased' : i \in Undone /\ (i \in Paged \/ BeforeCursor(i))
    PROVE  /\ paged' \in Seq(Row) /\ before' \in [ts : 0..MaxNow, id : Row \cup {0}]
           /\ HistoryInv'
           /\ \A i \in Undone : BeforeCursor(i) =>
                 \/ \E k \in 1..Len(page.ids) : page.ids[k] = i
                 \/ ~bottom' /\ BeforeCursor(i)'
  <1> USE DEF PageInv
  <1> DEFINE ids == page.ids
             m == Len(paged)
             n == Len(ids)
  <1>1. /\ page.clamped \in BOOLEAN /\ ids \in Seq(Row) /\ n \in Nat /\ DOMAIN ids = 1..n
        /\ ids = <<>> <=> n = 0
        /\ \A k \in 1..n : ids[k] \in Undone /\ BeforeCursor(ids[k])
        /\ \A j, k \in 1..n : j < k => Earlier(ids[k], ids[j])
        /\ \A i \in Undone : BeforeCursor(i) =>
              \/ \E k \in 1..n : ids[k] = i
              \/ page.clamped /\ ids # <<>> /\ Earlier(i, ids[n])
    BY HistoryPageIs
  <1>2. paged \in Seq(Row) /\ m \in Nat /\ DOMAIN paged = 1..m /\ (paged = <<>> <=> m = 0)
    BY LenProperties, EmptySeq DEF PageTypeOK
  <1>3. \A i \in Row : i \in Nat /\ i > 0 /\ HistoryKey(i) \in 0..MaxNow /\ HistoryKey(i) \in Nat
    BY Bounds DEF PageTypeOK, HistoryKey
  <1>4. paged' = paged \o ids /\ before' = IF n = 0 THEN before ELSE [ts |-> HistoryKey(ids[n]), id |-> ids[n]]
    BY <1>1 DEF LastCreated
  <1>a. n # 0 => n \in 1..n /\ ids[n] \in Row
    BY <1>1 DEF Undone
  <1> HIDE DEF ids
  <1>5. /\ paged' \in Seq(Row) /\ Len(paged') = m + n /\ DOMAIN paged' = 1..(m + n)
        /\ \A k \in 1..m : paged'[k] = paged[k] /\ k \in 1..(m + n)
        /\ \A k \in 1..n : paged'[m + k] = ids[k] /\ m + k \in 1..(m + n)
        /\ \A k \in 1..(m + n) : k \in 1..m \/ \E j \in 1..n : k = m + j
    <2>1. /\ paged \o ids \in Seq(Row) /\ Len(paged \o ids) = Len(paged) + Len(ids)
          /\ DOMAIN (paged \o ids) = 1..(Len(paged) + Len(ids))
          /\ \A k \in 1..Len(paged) : /\ (paged \o ids)[k] = paged[k]
                                      /\ k \in 1..(Len(paged) + Len(ids))
          /\ \A k \in 1..Len(ids) : /\ (paged \o ids)[Len(paged) + k] = ids[k]
                                    /\ Len(paged) + k \in 1..(Len(paged) + Len(ids))
          /\ \A k \in 1..(Len(paged) + Len(ids)) :
                k \in 1..Len(paged) \/ \E j \in 1..Len(ids) : k = Len(paged) + j
      BY <1>1, <1>2, ConcatIs
    <2> QED
      BY <1>4, <2>1
  <1>6. before' \in [ts : 0..MaxNow, id : Row \cup {0}]
    BY <1>3, <1>4, <1>a DEF PageTypeOK
  <1>7. paged # <<>> => before = [ts |-> HistoryKey(paged[m]), id |-> paged[m]] /\ m \in 1..m /\ paged[m] \in Row
    BY <1>2 DEF HistoryInv, LastCreated
  <1>8. m + n # 0 /\ before' = [ts |-> HistoryKey(paged'[m + n]), id |-> paged'[m + n]]
    <2>1. m + n # 0
      BY <1>5, EmptySeq
    <2>2. CASE n = 0
      BY <1>2, <1>4, <1>5, <1>7, <2>1, <2>2
    <2>3. CASE n # 0
      BY <1>4, <1>5, <1>a, <2>3
    <2> QED
      BY <2>1, <2>2, <2>3
  <1>9. \A i \in Row : (HistoryKey(i))' = HistoryKey(i)
    BY DEF HistoryKey
  <1>10. \A i, j \in Row : (Earlier(i, j))' = Earlier(i, j)
    BY DEF HistoryKey, Earlier
  <1>11. \A i \in Row : n # 0 /\ Earlier(i, ids[n]) => BeforeCursor(i)'
    BY <1>3, <1>4, <1>9, <1>a DEF BeforeCursor, Earlier, HistoryKey
  <1>12. ASSUME NEW i \in Undone, BeforeCursor(i)
         PROVE  (\E k \in 1..n : ids[k] = i) \/ (~bottom' /\ BeforeCursor(i)')
    BY <1>1, <1>11, <1>12 DEF Undone
  <1>13. \A k \in 1..(m + n) : paged'[k] \in Row
    BY <1>5
  \* What comes is before all that has come.
  <1>14. ASSUME NEW j \in 1..(m + n), NEW k \in 1..(m + n), j < k
         PROVE  Earlier(paged'[k], paged'[j])
    <2>1. CASE j \in 1..m /\ k \in 1..m
      BY <1>2, <1>5, <1>14, <2>1 DEF HistoryInv
    <2>2. CASE j \in 1..m /\ \E b \in 1..n : k = m + b
      <3>1. PICK b \in 1..n : k = m + b
        BY <2>2
      <3>2. paged # <<>> /\ m \in 1..m /\ m # 0
        BY <1>2, <2>2
      <3>3. ids[b] \in Row /\ paged[j] \in Row /\ paged[m] \in Row
        BY <1>1, <1>2, <2>2, <3>2 DEF Undone
      <3>4. before # NoCursor
        BY <1>3, <1>7, <3>2, <3>3, CursorIsOne
      <3>5. Earlier(ids[b], paged[m])
        BY <1>1, <1>7, <3>2, <3>4 DEF BeforeCursor, Earlier
      <3>6. j = m \/ Earlier(paged[m], paged[j])
        <4>1. j = m \/ j < m
          <5>1. m \in Nat /\ j \in 1..m
            BY <1>2, <2>2
          <5> HIDE DEF m
          <5> QED
            BY <5>1
        <4> QED
          BY <1>2, <2>2, <3>2, <4>1, ZenonT(60) DEF HistoryInv
      <3>7. Earlier(ids[b], paged[j])
        <4>1. \A x, y, z \in Row : Earlier(x, y) /\ Earlier(y, z) => Earlier(x, z)
          BY <1>3 DEF Earlier
        <4> QED
          BY <3>3, <3>5, <3>6, <4>1
      <3> QED
        BY <1>5, <2>2, <3>1, <3>7
    <2>3. CASE j \notin 1..m
      <3>1. PICK a \in 1..n : j = m + a
        BY <1>5, <2>3
      <3>2. k \notin 1..m
        BY <1>1, <1>2, <1>14, <2>3
      <3>3. PICK b \in 1..n : k = m + b
        BY <1>5, <3>2
      <3>4. a < b
        BY <1>1, <1>2, <1>14, <3>1, <3>3
      <3>5. Earlier(ids[b], ids[a])
        BY <1>1, <3>4
      <3>6. paged'[k] = ids[b] /\ paged'[j] = ids[a]
        BY <1>5, <3>1, <3>3
      <3> QED
        BY <3>5, <3>6
    <2> QED
      BY <1>5, <2>1, <2>2, <2>3
  <1>15. \A i \in Paged : i \in Paged'
    BY <1>2, <1>5 DEF Paged
  <1>16. \A k \in 1..n : ids[k] \in Paged'
    BY <1>5 DEF Paged
  <1>17. Undone' = Undone
    BY DEF Undone
  <1>18. HistoryInv'
    <2>1. before' = LastCreated(paged)'
      BY <1>5, <1>8, <1>9 DEF LastCreated, HistoryKey
    <2>2. \A k \in DOMAIN paged' : row'[paged'[k]] # NoRow
      <3> SUFFICES ASSUME NEW k \in 1..(m + n)
                   PROVE  row[paged'[k]] # NoRow
        BY <1>5
      <3>1. CASE k \in 1..m
        BY <1>2, <1>5, <3>1 DEF HistoryInv
      <3>2. CASE \E b \in 1..n : k = m + b
        <4>1. PICK b \in 1..n : k = m + b
          BY <3>2
        <4>2. paged'[k] = ids[b] /\ ids[b] \in Undone
          BY <1>1, <1>5, <4>1
        <4> QED
          BY <4>2 DEF Undone
      <3> QED
        BY <1>5, <3>1, <3>2
    <2>3. \A j, k \in DOMAIN paged' : j < k => Earlier(paged[k], paged[j])'
      <3> SUFFICES ASSUME NEW j \in 1..(m + n), NEW k \in 1..(m + n), j < k
                   PROVE  Earlier(paged[k], paged[j])'
        BY <1>5
      <3>1. Earlier(paged'[k], paged'[j])
        BY <1>14
      <3> QED
        BY <3>1 DEF Earlier, HistoryKey
    <2>4. ASSUME NEW i \in first' \ ceased'
          PROVE  i \in Undone' /\ (i \in Paged' \/ (~bottom' /\ BeforeCursor(i)'))
      BY <1>12, <1>15, <1>16, <1>17
    <2> QED
      BY <2>1, <2>2, <2>3, <2>4 DEF HistoryInv
  <1> QED
    BY <1>5, <1>6, <1>12, <1>18 DEF ids

-----------------------------------------------------------------------------
\* What a row is, and a cursor.
LEMMA RowType ==
    ASSUME PageTypeOK, NEW i \in Row
    PROVE  /\ i \in Nat /\ i > 0
           /\ row[i].created \in 0..MaxNow /\ row[i].created \in Nat
           /\ row[i].updated \in 0..MaxNow /\ row[i].updated \in Nat
           /\ row[i].writes \in 0..MaxWrites /\ row[i].done \in BOOLEAN
  <1>1. row[i] \in [created : 0..MaxNow, updated : 0..MaxNow, writes : 0..MaxWrites, done : BOOLEAN]
    BY DEF PageTypeOK
  <1>2. row[i].created \in 0..MaxNow /\ row[i].updated \in 0..MaxNow /\ row[i].writes \in 0..MaxWrites
    BY <1>1
  <1>3. row[i].done \in BOOLEAN
    BY <1>1
  <1> QED
    BY <1>2, <1>3, Bounds

LEMMA CursorType ==
    ASSUME PageTypeOK
    PROVE  /\ now \in Nat /\ now > 0
           /\ before \in [ts : 0..MaxNow, id : Row \cup {0}]
           /\ after \in [ts : 0..MaxNow, id : Row \cup {0}]
           /\ before.ts \in Nat /\ before.id \in Nat /\ after.ts \in Nat /\ after.id \in Nat
  BY Bounds DEF PageTypeOK

LEMMA SecondStep == ASSUME PageInv, Second PROVE PageInv'
  <1> USE DEF PageInv
  <1>1. /\ now' = now + 1 /\ now' \in 1..MaxNow
        /\ UNCHANGED <<row, held, paged, before, after, bottom, stamping, first, ceased, current, shadowed>>
        /\ UNCHANGED missionVars
    BY Bounds DEF Second, PageTypeOK
  <1>2. PageTypeOK'
    BY <1>1 DEF PageTypeOK, missionVars
  <1>3. Undone' = Undone
    BY <1>1 DEF Undone
  <1>4. HistoryInv'
    BY <1>1, <1>3 DEF HistoryInv, LastCreated, HistoryKey, Earlier, BeforeCursor, Paged
  <1>5. (\A i \in Row : row'[i].updated <= now') /\ after'.ts <= now'
    <2>1. \A i \in Row : row[i].updated \in Nat /\ row[i].updated <= now
      BY RowType DEF TailInv
    <2>2. now \in Nat /\ after.ts \in Nat /\ after.ts <= now
      BY CursorType DEF TailInv
    <2> QED
      BY <1>1, <2>1, <2>2
  <1>6. TailInv'
    BY <1>1, <1>3, <1>5 DEF TailInv, HasOrWill, HistoryKey, BeforeCursor, AfterCursor
  <1> QED
    BY <1>1, <1>2, <1>4, <1>6, LogKept

\* A row is written, for the first time or again.
LEMMA WriteTaskStep ==
    ASSUME PageInv, NEW i \in Row, NEW done \in BOOLEAN, NEW created \in 0..MaxNow,
           NEW began \in 1..now,
           row[i].writes < MaxWrites, WriteTask(i, created, began, done),
           row[i] # NoRow => created = row[i].created,
           i \in Undone \/ i \notin first \ ceased
    PROVE  PageInv'
  <1> USE DEF PageInv
  <1>1. /\ UNCHANGED <<now, held, paged, before, after, bottom, stamping, first>> /\ UNCHANGED missionVars
        /\ current' = FALSE /\ shadowed' = Shadow(i, began)
        /\ ceased' = IF done THEN ceased \cup {i} ELSE ceased
        /\ row' = [row EXCEPT ![i] = [created |-> created, updated |-> began,
                                      writes |-> row[i].writes + 1, done |-> done]]
    BY DEF WriteTask
  <1> DEFINE r == [created |-> created, updated |-> began, writes |-> row[i].writes + 1, done |-> done]
  <1>2. row' = [row EXCEPT ![i] = r]
    BY <1>1
  <1>3. /\ r \in [created : 0..MaxNow, updated : 0..MaxNow, writes : 0..MaxWrites, done : BOOLEAN]
        /\ r # NoRow /\ r.created = created /\ r.updated = began /\ r.done = done
    <2>1. row[i].writes + 1 \in 0..MaxWrites /\ row[i].writes + 1 # 0
      BY Bounds, RowType
    <2>2. began \in 0..MaxNow
      BY Bounds DEF PageTypeOK
    <2> QED
      BY <2>1, <2>2 DEF NoRow
  <1> HIDE DEF r
  <1>4. row' \in [Row -> [created : 0..MaxNow, updated : 0..MaxNow, writes : 0..MaxWrites, done : BOOLEAN]]
    BY <1>2, <1>3 DEF PageTypeOK
  <1>5. row'[i] = r /\ \A j \in Row : j # i => row'[j] = row[j]
    BY <1>2 DEF PageTypeOK
  <1>6. shadowed' \subseteq Row /\ ceased' \subseteq Row
    BY <1>1 DEF Shadow, PageTypeOK
  <1>7. PageTypeOK'
    BY <1>1, <1>4, <1>6 DEF PageTypeOK, missionVars
  <1>8. \A j \in Row : j # i => (j \in Undone' <=> j \in Undone)
    BY <1>5 DEF Undone
  <1>9. i \in Undone' <=> ~done
    BY <1>3, <1>5 DEF Undone
  <1>10. \A j \in Row : row[j] # NoRow => row'[j].created = row[j].created /\ row'[j] # NoRow
    BY <1>3, <1>5
  <1>11. \A k \in DOMAIN paged : paged[k] \in Row /\ row[paged[k]] # NoRow
    BY DEF PageTypeOK, HistoryInv
  <1>12. \A j \in Undone : j \in Row /\ row[j] # NoRow
    BY DEF Undone
  <1>13. \A j \in Row : row[j] # NoRow => (BeforeCursor(j)' <=> BeforeCursor(j))
    BY <1>1, <1>10 DEF BeforeCursor, HistoryKey
  <1>14. HistoryInv'
    <2>1. IF paged' = <<>> THEN before' = NoCursor /\ first' = {} /\ ~bottom'
                           ELSE before' = LastCreated(paged)' /\ after' # NoCursor
      <3>1. CASE paged = <<>>
        BY <1>1, <3>1 DEF HistoryInv
      <3>2. CASE paged # <<>>
        <4>1. Len(paged) \in DOMAIN paged
          BY <3>2, LenProperties, EmptySeq DEF PageTypeOK
        <4>2. row'[paged[Len(paged)]].created = row[paged[Len(paged)]].created
          BY <1>10, <1>11, <4>1
        <4> QED
          BY <1>1, <3>2, <4>2 DEF HistoryInv, LastCreated, HistoryKey
      <3> QED
        BY <3>1, <3>2
    <2>2. \A k \in DOMAIN paged' : row'[paged'[k]] # NoRow
      BY <1>1, <1>10, <1>11
    <2>3. \A j, k \in DOMAIN paged' : j < k => Earlier(paged[k], paged[j])'
      BY <1>1, <1>10, <1>11 DEF HistoryInv, Earlier, HistoryKey
    <2>4. ASSUME NEW j \in first' \ ceased'
          PROVE  j \in Undone' /\ (j \in Paged' \/ (~bottom' /\ BeforeCursor(j)'))
      <3>1. j \in first \ ceased /\ j \in Row
        BY <1>1 DEF PageTypeOK
      <3>2. j \in Undone /\ (j \in Paged \/ (~bottom /\ BeforeCursor(j)))
        BY <3>1 DEF HistoryInv
      <3>3. j \in Undone'
        BY <1>1, <1>8, <1>9, <3>1, <3>2
      <3> QED
        BY <1>1, <1>12, <1>13, <3>2, <3>3 DEF Paged
    <2> QED
      BY <2>1, <2>2, <2>3, <2>4 DEF HistoryInv
  <1>15. TailInv'
    <2>1. \A j \in Row : row'[j].updated <= now'
      BY <1>1, <1>3, <1>5, CursorType DEF TailInv
    <2>2. after'.ts <= now' /\ (after' = NoCursor => ~current' /\ ~stamping' /\ ~bottom')
      BY <1>1 DEF TailInv
    <2>3. ASSUME NEW j \in Undone' \ shadowed', j # i
          PROVE  /\ j \in Undone \ shadowed
                 /\ HasOrWill(j) => HasOrWill(j)'
                 /\ AfterCursor(j) => AfterCursor(j)'
      <3>1. j \in Row /\ j \in Undone /\ row'[j] = row[j]
        BY <1>5, <1>8, <2>3 DEF Undone
      <3>2. j \notin shadowed
        BY <1>1, <2>3 DEF Shadow
      <3> QED
        BY <1>1, <1>12, <1>13, <3>1, <3>2 DEF HasOrWill, AfterCursor
    <2>4. after # NoCursor /\ i \notin shadowed' => ~stamping /\ AfterCursor(i)'
      <3> SUFFICES ASSUME after # NoCursor, i \notin shadowed'
                   PROVE  ~stamping /\ AfterCursor(i)'
        OBVIOUS
      <3>1. ~stamping /\ ~(began < after.ts) /\ ~(began = after.ts /\ i <= after.id)
        BY <1>1 DEF Shadow
      <3>2. began > after.ts \/ (began = after.ts /\ i > after.id)
        BY <3>1, CursorType, RowType
      <3> QED
        BY <1>1, <1>3, <1>5, <3>1, <3>2 DEF AfterCursor
    <2>5. after' # NoCursor => \A j \in Undone' \ shadowed' : HasOrWill(j)' \/ AfterCursor(j)'
      BY <1>1, <2>3, <2>4 DEF TailInv
    <2>6. stamping' \/ current' => \A j \in Undone' \ shadowed' : HasOrWill(j)'
      BY <1>1, <2>3, <2>4 DEF TailInv
    <2> QED
      BY <2>1, <2>2, <2>5, <2>6 DEF TailInv
  <1> QED
    BY <1>1, <1>7, <1>14, <1>15, LogKept

LEMMA CreateTaskStep ==
    ASSUME PageInv, NEW i \in Row, NEW began \in 1..now, CreateTask(i, began)
    PROVE  PageInv'
  <1>1. i \notin Undone
    BY DEF CreateTask, Undone
  <1>2. i \notin first \ ceased
    BY <1>1 DEF PageInv, HistoryInv
  <1>3. began \in 0..MaxNow
    <2>1. now \in Nat /\ now <= MaxNow /\ began \in 1..now
      BY Bounds DEF PageInv, PageTypeOK
    <2> QED
      BY <2>1, Bounds
  <1>4. row[i].writes < MaxWrites /\ ~(row[i] # NoRow)
    BY Bounds DEF CreateTask, NoRow
  <1>5. WriteTask(i, began, began, FALSE) /\ FALSE \in BOOLEAN
    BY DEF CreateTask
  <1> QED
    BY <1>2, <1>3, <1>4, <1>5, WriteTaskStep

LEMMA UpdateTaskStep ==
    ASSUME PageInv, NEW i \in Row, NEW began \in 1..now, NEW done \in BOOLEAN,
           UpdateTask(i, began, done)
    PROVE  PageInv'
  <1>1. row[i].created \in 0..MaxNow
    BY RowType DEF PageInv
  <1>2. i \in Undone \/ i \notin first \ ceased
    BY DEF PageInv, HistoryInv
  <1> QED
    BY <1>1, <1>2, WriteTaskStep DEF UpdateTask

LEMMA StampStep == ASSUME PageInv, Stamp PROVE PageInv'
  <1> USE DEF PageInv
  <1>1. /\ UNCHANGED <<now, row, held, paged, before, bottom, first, ceased>> /\ UNCHANGED missionVars
        /\ stamping /\ stamping' = FALSE /\ after' = [ts |-> now, id |-> 0]
        /\ shadowed' = {i \in shadowed : row[i].updated < now}
        /\ current' = (current /\ shadowed' = shadowed)
    BY DEF Stamp
  <1>2. after' # NoCursor /\ after'.ts = now /\ after'.id = 0 /\ after' \in [ts : 0..MaxNow, id : Row \cup {0}]
    BY <1>1, CursorType DEF NoCursor, PageTypeOK
  <1>3. shadowed' \subseteq Row /\ current' \in BOOLEAN
    BY <1>1 DEF PageTypeOK
  <1>4. PageTypeOK'
    BY <1>1, <1>2, <1>3 DEF PageTypeOK, missionVars
  <1>5. Undone' = Undone
    BY <1>1 DEF Undone
  <1>6. HistoryInv'
    BY <1>1, <1>2, <1>5 DEF HistoryInv, LastCreated, HistoryKey, Earlier, BeforeCursor, Paged
  <1>7. \A i \in Row : HasOrWill(i) => HasOrWill(i)'
    BY <1>1 DEF HasOrWill, HistoryKey, BeforeCursor
  <1>8. ASSUME NEW i \in Undone \ shadowed'
        PROVE  HasOrWill(i)' \/ AfterCursor(i)'
    <2>1. i \in Row /\ i \in Undone
      BY DEF Undone
    <2>2. CASE i \notin shadowed
      BY <1>1, <1>7, <2>1, <2>2 DEF TailInv
    <2>3. CASE i \in shadowed
      <3>1. ~(row[i].updated < now) /\ row[i].updated <= now /\ row[i].updated \in Nat /\ i > 0
        BY <1>1, <2>1, <2>3, RowType DEF TailInv
      <3>2. row[i].updated = now
        BY <3>1, CursorType
      <3> QED
        BY <1>1, <1>2, <3>1, <3>2 DEF AfterCursor
    <2> QED
      BY <2>2, <2>3
  <1>9. current' => \A i \in Undone \ shadowed' : HasOrWill(i)'
    BY <1>1, <1>7 DEF TailInv, Undone
  <1>10. TailInv'
    <2>1. now <= now
      BY CursorType
    <2> QED
      BY <1>1, <1>2, <1>5, <1>8, <1>9, <2>1 DEF TailInv
  <1> QED
    BY <1>1, <1>4, <1>6, <1>10, LogKept

-----------------------------------------------------------------------------
\* Of the rows of a page one was changed last, and it is the first such.
LEMMA TailOfIs ==
    ASSUME PageTypeOK, NEW ids \in Seq(Row), ids # <<>>
    PROVE  \E i \in Row : TailOf(ids) = [ts |-> row[i].updated, id |-> i]
  <1> DEFINE n == Len(ids)
             Latest(k) == \A l \in 1..n : \/ row[ids[l]].updated < row[ids[k]].updated
                                          \/ row[ids[l]].updated = row[ids[k]].updated /\ k <= l
             Lag(k) == MaxNow - row[ids[k]].updated
             Lags == {Lag(k) : k \in 1..n}
  <1>1. n \in Nat /\ n # 0 /\ DOMAIN ids = 1..n /\ \A k \in 1..n : ids[k] \in Row
    BY LenProperties, EmptySeq
  <1>2. \A k \in 1..n : row[ids[k]].updated \in 0..MaxNow /\ Lag(k) \in Nat
    BY <1>1, RowType, Bounds
  <1>3. Lags \in SUBSET Nat /\ Lags # {}
    <2>1. 1 \in 1..n
      BY <1>1
    <2> QED
      BY <1>2, <2>1
  <1>4. PICK m \in Lags : \A l \in Lags : m <= l
    <2> HIDE DEF Lags
    <2> QED
      BY <1>3, LeastNatural
  <1> DEFINE Ks == {k \in 1..n : Lag(k) = m}
  <1>5. Ks \in SUBSET Nat /\ Ks # {}
    BY <1>4
  <1>6. PICK k \in Ks : \A l \in Ks : k <= l
    <2> HIDE DEF Ks
    <2> QED
      BY <1>5, LeastNatural
  <1>7. k \in 1..n /\ Latest(k)
    <2>1. k \in 1..n /\ Lag(k) = m
      BY <1>6
    <2>2. ASSUME NEW l \in 1..n
          PROVE  \/ row[ids[l]].updated < row[ids[k]].updated
                 \/ row[ids[l]].updated = row[ids[k]].updated /\ k <= l
      <3>1. Lag(k) <= Lag(l)
        BY <1>4, <2>1
      <3>2. Lag(l) = Lag(k) => k <= l
        BY <1>6, <2>1
      <3>3. PICK a \in Nat, b \in Nat : a = row[ids[l]].updated /\ b = row[ids[k]].updated
        BY <1>1, <2>1, RowType
      <3>4. MaxNow - b <= MaxNow - a /\ (MaxNow - a = MaxNow - b => k <= l) /\ MaxNow \in Nat
        BY <3>1, <3>2, <3>3, Bounds
      <3> HIDE DEF Lag, Latest
      <3>5. a < b \/ (a = b /\ k <= l)
        BY <3>4
      <3> QED
        BY <3>3, <3>5
    <2> QED
      BY <2>1, <2>2
  <1> DEFINE c == CHOOSE j \in DOMAIN ids : \A l \in DOMAIN ids :
                 \/ row[ids[l]].updated < row[ids[j]].updated
                 \/ row[ids[l]].updated = row[ids[j]].updated /\ j <= l
  <1>8. c \in DOMAIN ids
    <2>1. \E j \in DOMAIN ids : \A l \in DOMAIN ids :
                 \/ row[ids[l]].updated < row[ids[j]].updated
                 \/ row[ids[l]].updated = row[ids[j]].updated /\ j <= l
      BY <1>1, <1>7
    <2> QED
      BY <2>1
  <1>9. TailOf(ids) = [ts |-> row[ids[c]].updated, id |-> ids[c]]
    BY DEF TailOf
  <1> HIDE DEF c
  <1> QED
    BY <1>1, <1>8, <1>9

LEMMA FirstPageStep == ASSUME PageInv, FirstPage PROVE PageInv'
  <1> USE DEF PageInv
  <1>1. PICK page \in Pages(History) :
           /\ page.ids # <<>>
           /\ paged' = page.ids /\ Sees(page.ids)
           /\ before' = LastCreated(page.ids) /\ after' = TailOf(page.ids)
           /\ bottom' = ~page.clamped
    BY DEF FirstPage
  <1>2. /\ after = NoCursor /\ first' = Undone /\ ceased' = {}
        /\ UNCHANGED <<now, row, stamping, current, shadowed>> /\ UNCHANGED missionVars
    BY DEF FirstPage
  <1>3. paged = <<>> /\ before = NoCursor /\ ~bottom /\ ~current /\ ~stamping
    BY <1>2 DEF HistoryInv, TailInv
  <1>4. page.ids \in Seq(Row) /\ page.clamped \in BOOLEAN
    BY HistoryPageIs
  <1>5. PICK t \in Row : after' = [ts |-> row[t].updated, id |-> t]
    BY <1>1, <1>4, TailOfIs
  <1>6. /\ after' # NoCursor /\ after'.ts <= now
        /\ after' \in [ts : 0..MaxNow, id : Row \cup {0}]
    BY <1>5, RowType, CursorIsOne DEF TailInv
  <1>7. \A i \in Undone : BeforeCursor(i)
    BY <1>3 DEF BeforeCursor
  <1>8. paged' = paged \o page.ids
    BY <1>1, <1>3, <1>4, ConcatEmptySeq
  <1>9. before' = IF page.ids = <<>> THEN before ELSE LastCreated(page.ids)
    BY <1>1
  <1>10. \A i \in first' \ ceased' : i \in Undone /\ (i \in Paged \/ BeforeCursor(i))
    BY <1>2, <1>7
  <1>11. /\ paged' \in Seq(Row) /\ before' \in [ts : 0..MaxNow, id : Row \cup {0}]
         /\ HistoryInv'
         /\ \A i \in Undone : BeforeCursor(i) =>
                 \/ \E k \in 1..Len(page.ids) : page.ids[k] = i
                 \/ ~bottom' /\ BeforeCursor(i)'
    BY <1>1, <1>2, <1>3, <1>6, <1>8, <1>9, <1>10, HistoryGoesOn
  <1>12. /\ held' \in [Row -> 0..MaxWrites]
         /\ \A k \in 1..Len(page.ids) : held'[page.ids[k]] = row[page.ids[k]].writes
    BY <1>1, <1>4, SeesIs
  <1>13. first' \subseteq Row /\ ceased' \subseteq Row /\ bottom' \in BOOLEAN
    BY <1>1, <1>2, <1>4 DEF Undone
  <1>14. PageTypeOK'
    BY <1>2, <1>6, <1>11, <1>12, <1>13 DEF PageTypeOK, missionVars
  <1>15. \A i \in Undone : HasOrWill(i)'
    BY <1>2, <1>7, <1>11, <1>12 DEF HasOrWill
  <1>16. Undone' = Undone
    BY <1>2 DEF Undone
  <1>17. TailInv'
    BY <1>2, <1>3, <1>6, <1>15, <1>16 DEF TailInv
  <1> QED
    BY <1>2, <1>11, <1>14, <1>17, LogKept

LEMMA HistoryPageStep == ASSUME PageInv, HistoryPage PROVE PageInv'
  <1> USE DEF PageInv
  <1>1. PICK page \in Pages(History) :
           /\ paged' = paged \o page.ids /\ Sees(page.ids)
           /\ before' = IF page.ids = <<>> THEN before ELSE LastCreated(page.ids)
           /\ bottom' = ~page.clamped
    BY DEF HistoryPage
  <1>2. /\ before # NoCursor /\ ~bottom
        /\ UNCHANGED <<now, row, after, stamping, first, ceased, current, shadowed>> /\ UNCHANGED missionVars
    BY DEF HistoryPage
  <1>3. paged # <<>> /\ after # NoCursor
    BY <1>2 DEF HistoryInv
  <1>4. page.ids \in Seq(Row) /\ page.clamped \in BOOLEAN
    BY HistoryPageIs
  <1>5. paged' # <<>>
    BY <1>1, <1>3, <1>4, ConcatEqualIffEmpty DEF PageTypeOK
  <1>6. \A i \in first' \ ceased' : i \in Undone /\ (i \in Paged \/ BeforeCursor(i))
    BY <1>2 DEF HistoryInv
  <1>7. /\ paged' \in Seq(Row) /\ before' \in [ts : 0..MaxNow, id : Row \cup {0}]
        /\ HistoryInv'
        /\ \A i \in Undone : BeforeCursor(i) =>
                \/ \E k \in 1..Len(page.ids) : page.ids[k] = i
                \/ ~bottom' /\ BeforeCursor(i)'
    BY <1>1, <1>2, <1>3, <1>5, <1>6, HistoryGoesOn
  <1>8. /\ held' \in [Row -> 0..MaxWrites]
        /\ \A k \in 1..Len(page.ids) : held'[page.ids[k]] = row[page.ids[k]].writes
        /\ \A i \in Row : held[i] = row[i].writes => held'[i] = row[i].writes
    BY <1>1, <1>4, SeesIs
  <1>9. bottom' \in BOOLEAN
    BY <1>1, <1>4
  <1>10. PageTypeOK'
    BY <1>2, <1>7, <1>8, <1>9 DEF PageTypeOK, missionVars
  <1>11. Undone' = Undone /\ Undone \subseteq Row
    BY <1>2 DEF Undone
  <1>12. \A i \in Undone : HasOrWill(i) => HasOrWill(i)'
    <2> SUFFICES ASSUME NEW i \in Undone, HasOrWill(i)
                 PROVE  HasOrWill(i)'
      OBVIOUS
    <2>1. CASE held[i] = row[i].writes
      BY <1>2, <1>8, <1>11, <2>1 DEF HasOrWill
    <2>2. CASE BeforeCursor(i)
      BY <1>2, <1>7, <1>8, <2>2 DEF HasOrWill
    <2> QED
      BY <2>1, <2>2 DEF HasOrWill
  <1>13. \A i \in Undone : AfterCursor(i)' <=> AfterCursor(i)
    BY <1>2 DEF AfterCursor
  <1>14. TailInv'
    BY <1>2, <1>3, <1>11, <1>12, <1>13 DEF TailInv
  <1> QED
    BY <1>2, <1>7, <1>10, <1>14, LogKept

LEMMA ChangesPageStep == ASSUME PageInv, ChangesPage PROVE PageInv'
  <1> USE DEF PageInv
  <1>1. PICK page \in Pages(Changes) :
           /\ Sees(page.ids)
           /\ stamping' = (page.ids = <<>>)
           /\ after' = IF page.ids = <<>> THEN after ELSE LastChanged(page.ids)
           /\ current' = ~page.clamped
    BY DEF ChangesPage
  <1>2. /\ after # NoCursor /\ ~stamping
        /\ UNCHANGED <<now, row, paged, before, bottom, first, ceased, shadowed>> /\ UNCHANGED missionVars
    BY DEF ChangesPage
  <1> DEFINE ids == page.ids
             n == Len(ids)
  <1>3. /\ page.clamped \in BOOLEAN /\ ids \in Seq(Row) /\ n \in Nat
        /\ ids = <<>> <=> n = 0
        /\ \A k \in 1..n : ids[k] \in Undone
        /\ \A i \in Undone : AfterCursor(i) =>
              \/ \E k \in 1..n : ids[k] = i
              \/ page.clamped /\ ids # <<>> /\ Changed(ids[n], i)
    BY ChangesPageIs
  <1>4. /\ held' \in [Row -> 0..MaxWrites]
        /\ \A k \in 1..n : held'[ids[k]] = row[ids[k]].writes
        /\ \A i \in Row : held[i] = row[i].writes => held'[i] = row[i].writes
    BY <1>1, <1>3, SeesIs
  <1>5. after' = IF n = 0 THEN after ELSE [ts |-> row[ids[n]].updated, id |-> ids[n]]
    BY <1>1, <1>3 DEF LastChanged
  <1>6. stamping' = (n = 0) /\ current' = ~page.clamped
    BY <1>1, <1>3
  <1> HIDE DEF ids, n
  <1>7. Undone' = Undone /\ Undone \subseteq Row
    BY <1>2 DEF Undone
  <1>8. n # 0 => n \in 1..n /\ ids[n] \in Row
    BY <1>3, <1>7
  <1>9. /\ after' # NoCursor /\ after'.ts <= now
        /\ after' \in [ts : 0..MaxNow, id : Row \cup {0}]
    <2>1. CASE n = 0
      BY <1>2, <1>5, <2>1 DEF TailInv, PageTypeOK
    <2>2. CASE n # 0
      BY <1>5, <1>8, <2>2, RowType, CursorIsOne DEF TailInv
    <2> QED
      BY <2>1, <2>2
  <1>10. stamping' \in BOOLEAN /\ current' \in BOOLEAN
    BY <1>3, <1>6
  <1>11. PageTypeOK'
    BY <1>2, <1>4, <1>9, <1>10 DEF PageTypeOK, missionVars
  <1>12. HistoryInv'
    BY <1>2, <1>7, <1>9 DEF HistoryInv, LastCreated, HistoryKey, Earlier, BeforeCursor, Paged
  <1>13. \A i \in Undone : HasOrWill(i) => HasOrWill(i)'
    BY <1>2, <1>4, <1>7 DEF HasOrWill, BeforeCursor, HistoryKey
  <1>14. \A k \in 1..n : HasOrWill(ids[k])'
    BY <1>2, <1>3, <1>4, <1>7 DEF HasOrWill
  <1>15. ASSUME NEW i \in Undone, n # 0, Changed(ids[n], i)
         PROVE  AfterCursor(i)'
    <2>1. /\ row'[i] = row[i] /\ i \in Row /\ ids[n] \in Row
          /\ after'.ts = row[ids[n]].updated /\ after'.id = ids[n]
      BY <1>2, <1>5, <1>7, <1>8, <1>15
    <2>2. \/ row[ids[n]].updated < row[i].updated
          \/ row[ids[n]].updated = row[i].updated /\ ids[n] < i
      BY <1>15 DEF Changed
    <2> QED
      BY <2>1, <2>2, RowType DEF AfterCursor
  <1>16. ASSUME NEW i \in Undone \ shadowed
         PROVE  /\ HasOrWill(i)' \/ AfterCursor(i)'
                /\ ~page.clamped => HasOrWill(i)'
    <2>1. HasOrWill(i) \/ AfterCursor(i)
      BY <1>2 DEF TailInv
    <2>2. CASE HasOrWill(i)
      BY <1>13, <2>2
    <2>3. CASE AfterCursor(i)
      <3>1. (\E k \in 1..n : ids[k] = i) \/ (page.clamped /\ n # 0 /\ Changed(ids[n], i))
        BY <1>3, <2>3
      <3>2. CASE \E k \in 1..n : ids[k] = i
        BY <1>14, <3>2
      <3>3. CASE page.clamped /\ n # 0 /\ Changed(ids[n], i)
        BY <1>15, <3>3
      <3> QED
        BY <3>1, <3>2, <3>3
    <2> QED
      BY <2>1, <2>2, <2>3
  <1>17. n = 0 => \A i \in Undone \ shadowed : HasOrWill(i)'
    <2> SUFFICES ASSUME n = 0, NEW i \in Undone \ shadowed
                 PROVE  HasOrWill(i)'
      OBVIOUS
    <2>1. HasOrWill(i) \/ AfterCursor(i)
      BY <1>2 DEF TailInv
    <2>2. ~AfterCursor(i)
      BY <1>3
    <2> QED
      BY <1>13, <2>1, <2>2
  <1>18. TailInv'
    <2>1. \A i \in Row : row'[i].updated <= now'
      BY <1>2 DEF TailInv
    <2>2. stamping' \/ current' => \A i \in Undone \ shadowed : HasOrWill(i)'
      BY <1>6, <1>16, <1>17
    <2> QED
      BY <1>2, <1>7, <1>9, <1>16, <2>1, <2>2 DEF TailInv
  <1> QED
    BY <1>2, <1>11, <1>12, <1>18, LogKept
-----------------------------------------------------------------------------
\* Paging: the types of its state, and what is ahead of every cursor.
THEOREM PageInvHolds == PageSpec => []PageInv
  <1>1. PageInit => PageInv
    BY PageInitially
  <1>2. PageInv /\ [PageNext]_pageVars => PageInv'
    <2> SUFFICES ASSUME PageInv, [PageNext]_pageVars
                 PROVE  PageInv'
      OBVIOUS
    <2>1. CASE Second \/ FirstPage \/ HistoryPage \/ ChangesPage \/ Stamp
      BY <2>1, SecondStep, FirstPageStep, HistoryPageStep, ChangesPageStep, StampStep
    <2>2. CASE \E i \in Row, began \in 1..now :
                  CreateTask(i, began) \/ \E done \in BOOLEAN : UpdateTask(i, began, done)
      BY <2>2, CreateTaskStep, UpdateTaskStep
    <2>3. CASE LogPages
      BY <2>3, LogPageStep, WriteLogStep DEF LogPages
    <2>4. CASE UNCHANGED pageVars
      <3>1. UNCHANGED taskVars /\ UNCHANGED missionVars
        BY <2>4 DEF pageVars
      <3>2. PageTypeOK'
        BY <3>1 DEF PageInv, PageTypeOK, taskVars, missionVars
      <3> QED
        BY <3>1, <3>2, TasksKept, LogKept DEF PageInv
    <2> QED
      BY <2>1, <2>2, <2>3, <2>4 DEF PageNext, TaskPages
  <1> QED
    BY <1>1, <1>2, PTL DEF PageSpec

\* Every variable of the paging keeps its type, those kept for the properties too.
THEOREM PageTypesAreKept == PageSpec => []PageTypeOK
  <1>1. PageInv => PageTypeOK
    BY DEF PageInv
  <1> QED
    BY <1>1, PageInvHolds, PTL

\* Whatever is written while a client pages back through the tasks, a row is in
\* its history once, and a history come to its end lacks none of the first page's
\* time that is still to do.
THEOREM HistoriesAreExact == PageSpec => []HistoryIsExact
  <1>1. PageInv => HistoryIsExact
    <2> SUFFICES ASSUME PageInv
                 PROVE  HistoryIsExact
      OBVIOUS
    <2>1. DOMAIN paged = 1..Len(paged) /\ Len(paged) \in Nat /\ \A k \in DOMAIN paged : paged[k] \in Row
      BY LenProperties DEF PageInv, PageTypeOK
    <2>2. \A i \in Row : ~Earlier(i, i)
      BY RowType DEF PageInv, Earlier, HistoryKey
    <2>3. ASSUME NEW j \in DOMAIN paged, NEW k \in DOMAIN paged, paged[j] = paged[k]
          PROVE  j = k
      <3>1. ~(j < k) /\ ~(k < j)
        BY <2>1, <2>2, <2>3 DEF PageInv, HistoryInv
      <3> QED
        BY <2>1, <3>1
    <2>4. bottom => first \ ceased \subseteq Paged
      BY DEF PageInv, HistoryInv
    <2> QED
      BY <2>3, <2>4 DEF HistoryIsExact, Paged
  <1> QED
    BY <1>1, PageInvHolds, PTL

\* A client that has paged back to the end and whose tail is current has the last
\* writing of every outstanding row that was not written in a cursor's shadow.
THEOREM TailsCatchUp == PageSpec => []TailCatchesUp
  <1>1. PageInv => TailCatchesUp
    BY DEF PageInv, TailInv, HasOrWill, TailCatchesUp
  <1> QED
    BY <1>1, PageInvHolds, PTL

\* No line of the log is read twice; one that was there all along is read by the
\* end, unless its node was silent for a page or another line has been the same.
THEOREM LogsAreExact == PageSpec => []LogIsExact
  <1>1. PageInv => LogIsExact
    BY DEF PageInv, LogInv, LogIsExact, Read
  <1> QED
    BY <1>1, PageInvHolds, PTL

-----------------------------------------------------------------------------
(* Transcript: totals, and the tab that tails, polls and pages back.        *)

\* What is kept of a transcript is the count up to where scanning stopped, which
\* is the end of a record.
SummaryInv ==
    \A f \in File :
       /\ summary[f].offset % Line = 0
       /\ summary[f].offset <= size[f]
       /\ summary[f].messages = Count(f, 0, summary[f].offset)
       /\ f \notin failed => summary[f].tools = summary[f].messages

\* A tab that shows something is of a transcript, and so is one that asks for more of
\* it; one that was reset before its answer came is of none.
TabInv ==
    /\ cursor > 0 \/ shown # <<>> => of # NoFile
    /\ request.kind \in {"poll", "older"} /\ ~request.late => of # NoFile
    /\ request.late => of = NoFile

\* Record k is on the screen.
OnScreen(k) == \E i \in DOMAIN shown : shown[i][2] = k

\* Of a tab of one transcript: its records are in order and before the cursor; what
\* can be read and is not shown starts at the cursor or after it, or ends where the
\* page before begins, or was given up; and what is asked for is still asked with
\* the cursors there are.
ScreenInv ==
    of # NoFile /\ ~spliced /\ ~late =>
        /\ \A i \in DOMAIN shown : /\ shown[i][1] = of
                                   /\ Line * (shown[i][2] - 1) < cursor
                                   /\ Line * shown[i][2] - 1 <= size[of]
        /\ \A i, j \in DOMAIN shown : i < j => shown[i][2] < shown[j][2]
        /\ \A k \in Readable :
              \/ Line * (k - 1) >= cursor \/ OnScreen(k)
              \/ /\ \A i \in DOMAIN shown : k < shown[i][2]
                 /\ more \/ gaveUp
                 /\ more => Line * k - 1 <= prev
        /\ more => shown # <<>> /\ prev > 0 /\ prev < Line * (shown[1][2] - 1)
        /\ cursor <= size[of] /\ (cursor % Line = 1 => cursor = Line * torn - 2)
        /\ ~request.late => /\ request.kind = "poll" => request.at = cursor
                            /\ request.kind = "older" => request.at = prev /\ more

TranscriptInv == TranscriptTypeOK /\ SummaryInv /\ TabInv /\ ScreenInv
-----------------------------------------------------------------------------
\* The transcripts.
LEMMA ScanBounds ==
    /\ Limit \in Nat /\ Limit > 0 /\ MaxScan \in Nat /\ MaxScan > 0
    /\ MaxRecords \in Nat /\ MaxScanErrors \in Nat /\ NoFile \notin File
  BY TranscriptAssumption

LEMMA LogType ==
    ASSUME TranscriptTypeOK, NEW f \in File
    PROVE  /\ log[f] \in Seq({"turn", "other"}) /\ Len(log[f]) \in 0..MaxRecords
           /\ Len(log[f]) \in Nat /\ DOMAIN log[f] = 1..Len(log[f])
           /\ size[f] \in Nat /\ 3 * Len(log[f]) - 2 <= size[f] /\ size[f] <= 3 * Len(log[f])
  <1>1. log[f] \in Seq({"turn", "other"})
    BY DEF TranscriptTypeOK
  <1>2. Len(log[f]) \in Nat /\ DOMAIN log[f] = 1..Len(log[f])
    BY <1>1, LenProperties
  <1>3. Len(log[f]) <= MaxRecords /\ size[f] \in 3 * Len(log[f]) - 2 .. 3 * Len(log[f]) /\ size[f] \in Nat
    BY DEF TranscriptTypeOK, Line
  <1> QED
    BY <1>1, <1>2, <1>3, ScanBounds

\* The turns of some bytes: those that start there and end there.
LEMMA TurnsAre ==
    ASSUME TranscriptTypeOK, NEW f \in File, NEW from \in Nat, NEW to \in Nat
    PROVE  /\ Turns(f, from, to) \subseteq 1..Len(log[f]) /\ Turns(f, from, to) \in SUBSET Nat
           /\ IsFiniteSet(Turns(f, from, to)) /\ Count(f, from, to) \in Nat
           /\ \A k \in Nat : k \in Turns(f, from, to) <=>
                 k \in 1..Len(log[f]) /\ log[f][k] = "turn" /\ 3 * (k - 1) >= from /\ 3 * k - 1 <= to
  <1>1. DOMAIN log[f] = 1..Len(log[f]) /\ Len(log[f]) \in Nat
    BY LogType
  <1>2. Turns(f, from, to) \subseteq 1..Len(log[f])
    BY <1>1 DEF Turns
  <1>3. IsFiniteSet(1..Len(log[f]))
    <2>1. \A n \in Int : IsFiniteSet(1..n)
      BY FS_Interval
    <2> QED
      BY <1>1, <2>1
  <1>4. IsFiniteSet(Turns(f, from, to))
    BY <1>2, <1>3, FS_Subset
  <1>5. Count(f, from, to) \in Nat
    BY <1>4, FS_CardinalityType DEF Count
  <1>6. \A k \in Nat : k \in Turns(f, from, to) <=>
                 k \in 1..Len(log[f]) /\ log[f][k] = "turn" /\ 3 * (k - 1) >= from /\ 3 * k - 1 <= to
    BY <1>1 DEF Turns, Line
  <1> QED
    BY <1>1, <1>2, <1>4, <1>5, <1>6

\* Of nothing nothing is counted, and what follows is added to what was counted.
LEMMA CountOfNone == ASSUME TranscriptTypeOK, NEW f \in File PROVE Count(f, 0, 0) = 0
  <1>1. Turns(f, 0, 0) = {}
    BY TurnsAre
  <1> QED
    BY <1>1, FS_EmptySet DEF Count

LEMMA CountGoesOn ==
    ASSUME TranscriptTypeOK, NEW f \in File, NEW o \in Nat, NEW to \in Nat, o % 3 = 0, o <= to
    PROVE  Count(f, 0, to) = Count(f, 0, o) + Count(f, o, to)
  <1> DEFINE A == Turns(f, 0, o)
             B == Turns(f, o, to)
             C == Turns(f, 0, to)
  <1>1. /\ A \in SUBSET Nat /\ B \in SUBSET Nat /\ C \in SUBSET Nat
        /\ IsFiniteSet(A) /\ IsFiniteSet(B) /\ Cardinality(A) \in Nat /\ Cardinality(B) \in Nat
    BY TurnsAre, FS_CardinalityType
  <1>2. \A k \in Nat : /\ k \in A <=> k \in 1..Len(log[f]) /\ log[f][k] = "turn" /\ 3 * (k - 1) >= 0 /\ 3 * k - 1 <= o
                       /\ k \in B <=> k \in 1..Len(log[f]) /\ log[f][k] = "turn" /\ 3 * (k - 1) >= o /\ 3 * k - 1 <= to
                       /\ k \in C <=> k \in 1..Len(log[f]) /\ log[f][k] = "turn" /\ 3 * (k - 1) >= 0 /\ 3 * k - 1 <= to
    BY TurnsAre
  <1> HIDE DEF A, B, C
  <1>3. \A k \in Nat : k \in 1..Len(log[f]) => 3 * (k - 1) >= 0
    BY LogType
  <1>4. \A k \in Nat : 3 * k - 1 <= o <=> ~(3 * (k - 1) >= o)
    OBVIOUS
  <1>5. \A k \in Nat : 3 * k - 1 <= o => 3 * k - 1 <= to
    OBVIOUS
  <1>6. \A k \in Nat : k \in C <=> k \in A \/ k \in B
    BY <1>2, <1>3, <1>4, <1>5
  <1>7. \A k \in Nat : ~(k \in A /\ k \in B)
    BY <1>2, <1>4
  <1>8. C = A \cup B /\ A \cap B = {}
    BY <1>1, <1>6, <1>7
  <1>9. Cardinality(C) = Cardinality(A) + Cardinality(B) - Cardinality({})
    BY <1>1, <1>8, FS_Union
  <1> QED
    BY <1>1, <1>9, FS_EmptySet DEF Count, A, B, C

LEMMA CompleteIs ==
    ASSUME NEW n \in Nat
    PROVE  /\ Complete(n) \in Nat /\ Complete(n) <= n /\ Complete(n) % 3 = 0
           /\ \A o \in Nat : o % 3 = 0 /\ o <= n => o <= Complete(n)
  BY DEF Complete, Line

\* What a write does to a transcript: a record more, or the last one made whole;
\* the turns there were are those there are, but for one past the end.
LEMMA WriteIs ==
    ASSUME TranscriptTypeOK, NEW f \in File, NEW kind \in {"turn", "other"}, NEW bytes \in 1..3,
           Write(f, kind, bytes)
    PROVE  /\ TranscriptTypeOK'
           /\ size[f] <= size'[f] /\ \A g \in File : g # f => log'[g] = log[g] /\ size'[g] = size[g]
           /\ Len(log[f]) <= Len(log'[f]) /\ \A k \in 1..Len(log[f]) : log'[f][k] = log[f][k]
           /\ Len(log'[f]) # Len(log[f]) =>
                 Len(log'[f]) = Len(log[f]) + 1 /\ size[f] = 3 * Len(log[f])
  <1>1. /\ size' = [size EXCEPT ![f] = @ + bytes] /\ UNCHANGED <<sumVars, chatVars, scanErrors>>
        /\ newer' = (newer \ (File \X {f})) \cup {<<f, g>> : g \in {g \in File \ {f} : size[g] > 0}}
    BY DEF Write
  <1>2. /\ log[f] \in Seq({"turn", "other"}) /\ Len(log[f]) \in 0..MaxRecords /\ Len(log[f]) \in Nat
        /\ size[f] \in Nat /\ 3 * Len(log[f]) - 2 <= size[f] /\ size[f] <= 3 * Len(log[f])
    BY LogType
  <1>3. /\ size'[f] = size[f] + bytes /\ size'[f] \in Nat /\ size' \in [File -> Nat]
        /\ \A g \in File : g # f => size'[g] = size[g]
    <2>1. size \in [File -> Nat]
      BY DEF TranscriptTypeOK
    <2>2. size[f] + bytes \in Nat
      BY <1>2
    <2> QED
      BY <1>1, <2>1, <2>2
  <1>4. /\ log' \in [File -> Seq({"turn", "other"})]
        /\ \A g \in File : g # f => log'[g] = log[g]
        /\ Len(log'[f]) \in Nat /\ Len(log'[f]) <= MaxRecords
        /\ Len(log[f]) <= Len(log'[f]) /\ \A k \in 1..Len(log[f]) : log'[f][k] = log[f][k]
        /\ Len(log'[f]) # Len(log[f]) =>
                 Len(log'[f]) = Len(log[f]) + 1 /\ size[f] = 3 * Len(log[f])
        /\ size'[f] \in 3 * Len(log'[f]) - 2 .. 3 * Len(log'[f])
    <2>1. CASE Whole(f)
      <3>1. Len(log[f]) < MaxRecords /\ log' = [log EXCEPT ![f] = Append(@, kind)]
        BY <2>1 DEF Write
      <3>2. size[f] % 3 = 0 /\ size[f] = 3 * Len(log[f])
        BY <1>2, <2>1 DEF Whole, Line
      <3>3. /\ Append(log[f], kind) \in Seq({"turn", "other"})
            /\ Len(Append(log[f], kind)) = Len(log[f]) + 1
            /\ \A k \in 1..Len(log[f]) : Append(log[f], kind)[k] = log[f][k]
        BY <1>2, AppendProperties
      <3>4. log'[f] = Append(log[f], kind) /\ log' \in [File -> Seq({"turn", "other"})]
            /\ \A g \in File : g # f => log'[g] = log[g]
        BY <3>1, <3>3 DEF TranscriptTypeOK
      <3>5. Len(log'[f]) = Len(log[f]) + 1
        BY <3>3, <3>4
      <3>6. size'[f] \in 3 * Len(log'[f]) - 2 .. 3 * Len(log'[f])
        BY <1>2, <1>3, <3>2, <3>5
      <3>7. Len(log'[f]) \in Nat /\ Len(log'[f]) <= MaxRecords
        BY <1>2, <3>1, <3>5, ScanBounds
      <3> QED
        BY <1>2, <3>2, <3>3, <3>4, <3>5, <3>6, <3>7
    <2>2. CASE ~Whole(f)
      <3>1. size[f] + bytes <= 3 * Len(log[f]) /\ log' = log
        BY <2>2 DEF Write, Line
      <3>2. size'[f] \in 3 * Len(log'[f]) - 2 .. 3 * Len(log'[f])
        BY <1>2, <1>3, <3>1
      <3> QED
        BY <1>2, <3>1, <3>2 DEF TranscriptTypeOK
    <2> QED
      BY <2>1, <2>2
  <1>5. \A g \in File : Len(log'[g]) <= MaxRecords /\ size'[g] \in Line * Len(log'[g]) - 2 .. Line * Len(log'[g])
    <2> SUFFICES ASSUME NEW g \in File
                 PROVE  Len(log'[g]) <= MaxRecords /\ size'[g] \in 3 * Len(log'[g]) - 2 .. 3 * Len(log'[g])
      BY DEF Line
    <2>1. CASE g = f
      BY <1>4, <2>1
    <2>2. CASE g # f
      BY <1>3, <1>4, <2>2 DEF TranscriptTypeOK, Line
    <2> QED
      BY <2>1, <2>2
  <1>6. newer' \subseteq File \X File
    BY <1>1 DEF TranscriptTypeOK
  <1>7. TranscriptTypeOK'
    BY <1>1, <1>3, <1>4, <1>5, <1>6 DEF TranscriptTypeOK, sumVars, chatVars
  <1>8. size[f] <= size'[f]
    BY <1>2, <1>3
  <1> QED
    BY <1>3, <1>4, <1>7, <1>8

\* So what has been counted is what there is to count, ...
LEMMA WriteKeepsCounts ==
    ASSUME TranscriptTypeOK, NEW f \in File, NEW kind \in {"turn", "other"}, NEW bytes \in 1..3,
           Write(f, kind, bytes), NEW g \in File, NEW o \in Nat, o <= size[g]
    PROVE  Turns(g, 0, o)' = Turns(g, 0, o)
  <1>1. /\ TranscriptTypeOK'
        /\ size[f] <= size'[f] /\ (g # f => log'[g] = log[g])
        /\ Len(log[f]) <= Len(log'[f]) /\ \A k \in 1..Len(log[f]) : log'[f][k] = log[f][k]
        /\ Len(log'[f]) # Len(log[f]) =>
                 Len(log'[f]) = Len(log[f]) + 1 /\ size[f] = 3 * Len(log[f])
    BY WriteIs
  <1>2. CASE g # f
    BY <1>1, <1>2 DEF Turns
  <1>3. CASE g = f
    <2>1. DOMAIN log[f] = 1..Len(log[f]) /\ Len(log[f]) \in Nat /\ log'[f] \in Seq({"turn", "other"})
      BY <1>1, LogType DEF TranscriptTypeOK
    <2>2. DOMAIN log'[f] = 1..Len(log'[f]) /\ Len(log'[f]) \in Nat
      BY <2>1, LenProperties
    <2>3. \A k \in 1..Len(log'[f]) : k \in 1..Len(log[f]) \/ ~(3 * k - 1 <= o)
      <3> SUFFICES ASSUME NEW k \in 1..Len(log'[f]), k \notin 1..Len(log[f])
                   PROVE  ~(3 * k - 1 <= o)
        OBVIOUS
      <3>1. Len(log'[f]) # Len(log[f])
        OBVIOUS
      <3>2. k = Len(log[f]) + 1 /\ size[f] = 3 * Len(log[f])
        BY <1>1, <2>1, <3>1
      <3> QED
        BY <1>3, <2>1, <3>2
    <2>4. \A k \in 1..Len(log[f]) : k \in 1..Len(log'[f])
      BY <1>1, <2>1, <2>2
    <2> QED
      BY <1>1, <1>3, <2>1, <2>2, <2>3, <2>4 DEF Turns, Line
  <1> QED
    BY <1>2, <1>3

-----------------------------------------------------------------------------
LEMMA TranscriptInitially == TranscriptInit => TranscriptInv
  <1> SUFFICES ASSUME TranscriptInit
               PROVE  TranscriptInv
    OBVIOUS
  <1>1. NoSummary \in [offset : Nat, messages : Nat, tools : Nat, there : BOOLEAN]
        /\ NoRequest \in [kind : {"none", "tail", "poll", "older"}, at : Nat, late : BOOLEAN]
    BY DEF NoSummary, NoRequest
  <1>2. TranscriptTypeOK
    <2>1. \A f \in File : Len(log[f]) = 0 /\ size[f] = 0
      BY DEF TranscriptInit
    <2>2. log \in [File -> Seq({"turn", "other"})] /\ size \in [File -> Nat] /\ newer \subseteq File \X File
      BY DEF TranscriptInit
    <2>3. \A f \in File : Len(log[f]) <= MaxRecords
                          /\ size[f] \in Line * Len(log[f]) - 2 .. Line * Len(log[f])
      BY <2>1, ScanBounds DEF Line
    <2>4. summary \in [File -> [offset : Nat, messages : Nat, tools : Nat, there : BOOLEAN]]
          /\ asked \in [Caller -> [file : File, size : Nat] \cup {Nobody}] /\ failed \subseteq File
      BY <1>1 DEF TranscriptInit
    <2>5. shown \in Seq(File \X (1..MaxRecords)) /\ torn \in 0..MaxRecords /\ scanErrors \in 0..MaxScanErrors
      BY ScanBounds DEF TranscriptInit
    <2> QED
      BY <1>1, <2>2, <2>3, <2>4, <2>5 DEF TranscriptInit, TranscriptTypeOK
  <1>3. SummaryInv
    <2> SUFFICES ASSUME NEW f \in File
                 PROVE  /\ summary[f].offset % Line = 0
                        /\ summary[f].offset <= size[f]
                        /\ summary[f].messages = Count(f, 0, summary[f].offset)
                        /\ f \notin failed => summary[f].tools = summary[f].messages
      BY DEF SummaryInv
    <2>1. summary[f].offset = 0 /\ summary[f].messages = 0 /\ summary[f].tools = 0 /\ size[f] = 0
      BY DEF TranscriptInit, NoSummary
    <2> QED
      BY <1>2, <2>1, CountOfNone DEF Line
  <1>4. TabInv /\ ScreenInv
    BY DEF TranscriptInit, TabInv, ScreenInv, NoRequest
  <1> QED
    BY <1>2, <1>3, <1>4 DEF TranscriptInv

LEMMA ScreenKept ==
    ASSUME TabInv, ScreenInv, UNCHANGED <<log, size, chatVars>>
    PROVE  TabInv' /\ ScreenInv'
  BY DEF TabInv, ScreenInv, chatVars, Readable, Turns, OnScreen

LEMMA SummaryKept ==
    ASSUME SummaryInv, UNCHANGED <<log, size, summary, failed>>
    PROVE  SummaryInv'
  BY DEF SummaryInv, Count, Turns

\* What is asked for is of a transcript.
LEMMA AskedType ==
    ASSUME TranscriptTypeOK, NEW c \in Caller, asked[c] # Nobody
    PROVE  asked[c].file \in File /\ asked[c].size \in Nat
  BY DEF TranscriptTypeOK

LEMMA SummaryType ==
    ASSUME TranscriptTypeOK, NEW f \in File
    PROVE  /\ summary[f].offset \in Nat /\ summary[f].messages \in Nat /\ summary[f].tools \in Nat
           /\ summary[f].there \in BOOLEAN
  <1>1. summary[f] \in [offset : Nat, messages : Nat, tools : Nat, there : BOOLEAN]
    BY DEF TranscriptTypeOK
  <1> QED
    BY <1>1

\* Scanning goes on from the end of a record, with the count up to there.
LEMMA BaseIs ==
    ASSUME TranscriptInv, NEW c \in Caller, asked[c] # Nobody
    PROVE  LET f == asked[c].file
               s == Base(c)
           IN /\ s \in [offset : Nat, messages : Nat, tools : Nat, there : BOOLEAN]
              /\ s.offset \in Nat /\ s.messages \in Nat /\ s.tools \in Nat
              /\ s.offset % 3 = 0 /\ s.offset <= size[f] /\ s.messages = Count(f, 0, s.offset)
              /\ f \notin failed => s.tools = s.messages
              /\ s.there => s = summary[f]
  <1> USE DEF TranscriptInv
  <1> DEFINE f == asked[c].file
             s == Base(c)
  <1>1. f \in File
    BY AskedType
  <1>2. /\ summary[f] \in [offset : Nat, messages : Nat, tools : Nat, there : BOOLEAN]
        /\ summary[f].offset % 3 = 0 /\ summary[f].offset <= size[f]
        /\ summary[f].messages = Count(f, 0, summary[f].offset)
        /\ f \notin failed => summary[f].tools = summary[f].messages
    BY <1>1 DEF SummaryInv, Line, TranscriptTypeOK
  <1>3. /\ NoSummary \in [offset : Nat, messages : Nat, tools : Nat, there : BOOLEAN]
        /\ NoSummary.offset = 0 /\ NoSummary.messages = 0 /\ NoSummary.tools = 0 /\ ~NoSummary.there
    BY DEF NoSummary
  <1>4. size[f] \in Nat /\ Count(f, 0, 0) = 0
    BY <1>1, LogType, CountOfNone
  <1>5. s = NoSummary \/ s = summary[f]
    BY DEF Base
  <1> HIDE DEF f, s
  <1>6. /\ s \in [offset : Nat, messages : Nat, tools : Nat, there : BOOLEAN]
        /\ s.offset % 3 = 0 /\ s.offset <= size[f] /\ s.messages = Count(f, 0, s.offset)
        /\ f \notin failed => s.tools = s.messages
        /\ s.there => s = summary[f]
    <2>1. CASE s = NoSummary
      BY <1>3, <1>4, <2>1
    <2>2. CASE s = summary[f]
      BY <1>2, <2>2
    <2> QED
      BY <1>5, <2>1, <2>2
  <1>7. s.offset \in Nat /\ s.messages \in Nat /\ s.tools \in Nat
    BY <1>6
  <1> QED
    BY <1>6, <1>7 DEF f, s

LEMMA StatStep ==
    ASSUME TranscriptInv, NEW c \in Caller, NEW f \in File, Stat(c, f)
    PROVE  TranscriptInv'
  <1> USE DEF TranscriptInv
  <1>1. /\ asked' = [asked EXCEPT ![c] = [file |-> f, size |-> size[f]]]
        /\ UNCHANGED <<log, size, newer, summary, failed, chatVars, scanErrors>>
    BY DEF Stat, logVars
  <1>2. [file |-> f, size |-> size[f]] \in [file : File, size : Nat]
    BY LogType
  <1>3. asked' \in [Caller -> [file : File, size : Nat] \cup {Nobody}]
    BY <1>1, <1>2 DEF TranscriptTypeOK
  <1>4. TranscriptTypeOK'
    BY <1>1, <1>3 DEF TranscriptTypeOK, chatVars
  <1> QED
    BY <1>1, <1>4, ScreenKept, SummaryKept

\* A transcript's totals become r, of which what SummaryInv says is so.
LEMMA TotalsBecome ==
    ASSUME TranscriptInv, UNCHANGED <<log, size, newer, chatVars>>, NEW f \in File, NEW r,
           summary' = [summary EXCEPT ![f] = r],
           r \in [offset : Nat, messages : Nat, tools : Nat, there : BOOLEAN],
           r.offset % 3 = 0, r.offset <= size[f], r.messages = Count(f, 0, r.offset),
           f \notin failed' => r.tools = r.messages,
           failed \subseteq failed', failed' \subseteq File,
           asked' \in [Caller -> [file : File, size : Nat] \cup {Nobody}],
           scanErrors' \in 0..MaxScanErrors
    PROVE  TranscriptInv'
  <1> USE DEF TranscriptInv
  <1>1. summary' \in [File -> [offset : Nat, messages : Nat, tools : Nat, there : BOOLEAN]]
    BY DEF TranscriptTypeOK
  <1>2. summary'[f] = r /\ \A g \in File : g # f => summary'[g] = summary[g]
    BY DEF TranscriptTypeOK
  <1>3. TranscriptTypeOK'
    BY <1>1 DEF TranscriptTypeOK, chatVars
  <1>4. \A g \in File, o \in Nat : Count(g, 0, o)' = Count(g, 0, o)
    BY DEF Count, Turns
  <1>5. ASSUME NEW g \in File
        PROVE  /\ summary'[g].offset % 3 = 0
               /\ summary'[g].offset <= size'[g]
               /\ summary'[g].messages = Count(g, 0, summary[g].offset)'
               /\ g \notin failed' => summary'[g].tools = summary'[g].messages
    <2>1. CASE g = f
      <3>1. r.offset \in Nat
        OBVIOUS
      <3>2. Count(f, 0, summary[f].offset)' = Count(f, 0, r.offset)
        BY <1>2 DEF Count, Turns
      <3> QED
        BY <1>2, <2>1, <3>2
    <2>2. CASE g # f
      <3>1. summary'[g] = summary[g]
        BY <1>2, <2>2
      <3>2. Count(g, 0, summary[g].offset)' = Count(g, 0, summary[g].offset)
        BY <3>1 DEF Count, Turns
      <3> QED
        BY <3>1, <3>2 DEF SummaryInv, Line
    <2> QED
      BY <2>1, <2>2
  <1>6. SummaryInv'
    BY <1>5 DEF SummaryInv, Line
  <1> QED
    BY <1>3, <1>6, ScreenKept

LEMMA FoldedIs ==
    ASSUME NEW s \in [offset : Nat, messages : Nat, tools : Nat, there : BOOLEAN], NEW f, NEW to \in Nat,
           Count(f, s.offset, to) \in Nat
    PROVE  /\ Folded(s, f, to) \in [offset : Nat, messages : Nat, tools : Nat, there : BOOLEAN]
           /\ Folded(s, f, to).offset = to
           /\ Folded(s, f, to).messages = s.messages + Count(f, s.offset, to)
           /\ Folded(s, f, to).tools = s.tools + Count(f, s.offset, to)
  <1> DEFINE m == s.messages + Count(f, s.offset, to)
             t == s.tools + Count(f, s.offset, to)
             r == [s EXCEPT !.offset = to, !.there = TRUE, !.messages = m, !.tools = t]
  <1>1. m \in Nat /\ t \in Nat
    BY DEF m, t
  <1>2. Folded(s, f, to) = r
    BY DEF Folded
  <1> HIDE DEF m, t
  <1>3. DOMAIN r = DOMAIN s /\ r.offset = to /\ r.messages = m /\ r.tools = t /\ r.there = TRUE
    OBVIOUS
  <1>4. r \in [offset : Nat, messages : Nat, tools : Nat, there : BOOLEAN]
    BY <1>1
  <1> HIDE DEF r
  <1> QED
    BY <1>2, <1>3, <1>4 DEF m, t

LEMMA SummarizeStep ==
    ASSUME TranscriptInv, NEW c \in Caller, Summarize(c)
    PROVE  TranscriptInv'
  <1> USE DEF TranscriptInv
  <1> DEFINE f == asked[c].file
             s == Base(c)
             to == Complete(size[f])
             r == Folded(s, f, to)
  <1>1. asked[c] # Nobody /\ asked' = [asked EXCEPT ![c] = Nobody]
        /\ UNCHANGED <<log, size, newer, failed, chatVars, scanErrors>>
        /\ (summary' = summary \/ summary' = [summary EXCEPT ![f] = r])
    BY DEF Summarize, logVars
  <1>2. f \in File /\ size[f] \in Nat
    BY <1>1, AskedType, LogType
  <1>3. asked' \in [Caller -> [file : File, size : Nat] \cup {Nobody}]
    BY <1>1 DEF TranscriptTypeOK
  <1>4. CASE summary' = summary
    <2>1. TranscriptTypeOK'
      BY <1>1, <1>3, <1>4 DEF TranscriptTypeOK, chatVars
    <2> QED
      BY <1>1, <1>4, <2>1, ScreenKept, SummaryKept
  <1>5. CASE summary' = [summary EXCEPT ![f] = r]
    <2>1. /\ s \in [offset : Nat, messages : Nat, tools : Nat, there : BOOLEAN]
          /\ s.offset \in Nat /\ s.messages \in Nat /\ s.tools \in Nat
          /\ s.offset % 3 = 0 /\ s.offset <= size[f] /\ s.messages = Count(f, 0, s.offset)
          /\ f \notin failed => s.tools = s.messages
      BY <1>1, BaseIs
    <2>2. to \in Nat /\ to <= size[f] /\ to % 3 = 0 /\ s.offset <= to
      BY <1>2, <2>1, CompleteIs
    <2>3. Count(f, s.offset, to) \in Nat
      BY <1>2, <2>1, <2>2, TurnsAre
    <2> HIDE DEF s, to, f
    <2>4. /\ r \in [offset : Nat, messages : Nat, tools : Nat, there : BOOLEAN]
          /\ r.offset = to /\ r.messages = s.messages + Count(f, s.offset, to)
          /\ r.tools = s.tools + Count(f, s.offset, to)
      BY <2>1, <2>2, <2>3, FoldedIs
    <2> HIDE DEF r
    <2>5. r.messages = Count(f, 0, to)
      BY <1>2, <2>1, <2>2, <2>4, CountGoesOn
    <2>6. f \notin failed' => r.tools = r.messages
      BY <1>1, <2>1, <2>4
    <2>7. failed \subseteq failed' /\ failed' \subseteq File /\ scanErrors' \in 0..MaxScanErrors
      BY <1>1 DEF TranscriptTypeOK
    <2> QED
      BY <1>1, <1>2, <1>3, <1>5, <2>2, <2>4, <2>5, <2>6, <2>7, TotalsBecome
  <1> QED
    BY <1>1, <1>4, <1>5

LEMMA SummarizeFailsStep ==
    ASSUME TranscriptInv, NEW c \in Caller, SummarizeFails(c)
    PROVE  TranscriptInv'
  <1> USE DEF TranscriptInv
  <1> DEFINE f == asked[c].file
             s == Base(c)
  <1>1. /\ asked[c] # Nobody /\ asked' = [asked EXCEPT ![c] = Nobody]
        /\ UNCHANGED <<log, size, newer, chatVars>> /\ failed' = failed \cup {f}
        /\ scanErrors < MaxScanErrors /\ scanErrors' = scanErrors + 1
    BY DEF SummarizeFails, logVars
  <1>2. PICK to \in s.offset..Complete(size[f]) :
           summary' = IF s.there THEN [summary EXCEPT ![f].tools = Folded(s, f, to).tools] ELSE summary
    BY DEF SummarizeFails
  <1>3. f \in File /\ size[f] \in Nat
    BY <1>1, AskedType, LogType
  <1>4. asked' \in [Caller -> [file : File, size : Nat] \cup {Nobody}] /\ failed' \subseteq File
        /\ failed \subseteq failed' /\ f \in failed'
    BY <1>1, <1>3 DEF TranscriptTypeOK
  <1>5. scanErrors' \in 0..MaxScanErrors
    BY <1>1, ScanBounds DEF TranscriptTypeOK
  <1>6. /\ s \in [offset : Nat, messages : Nat, tools : Nat, there : BOOLEAN]
        /\ s.offset \in Nat /\ s.tools \in Nat
    BY <1>1, BaseIs
  <1>7. to \in Nat
    BY <1>3, <1>6, CompleteIs
  <1>8. Count(f, s.offset, to) \in Nat
    BY <1>3, <1>6, <1>7, TurnsAre
  <1> DEFINE t == Folded(s, f, to).tools
             r == IF s.there THEN [summary[f] EXCEPT !.tools = t] ELSE summary[f]
  <1>9. t \in Nat
    <2> HIDE DEF s, f
    <2>1. t = s.tools + Count(f, s.offset, to)
      BY <1>6, <1>7, <1>8, FoldedIs
    <2> QED
      BY <1>6, <1>8, <2>1
  <1> HIDE DEF t, s, f
  <1>10. summary[f] \in [offset : Nat, messages : Nat, tools : Nat, there : BOOLEAN]
    BY <1>3 DEF TranscriptTypeOK
  <1>11. /\ r \in [offset : Nat, messages : Nat, tools : Nat, there : BOOLEAN]
         /\ r.offset = summary[f].offset /\ r.messages = summary[f].messages
    BY <1>9, <1>10
  <1>12. summary' = [summary EXCEPT ![f] = r]
    <2>1. CASE s.there
      <3>1. summary' = [summary EXCEPT ![f].tools = t]
        BY <1>2, <2>1 DEF t
      <3> QED
        BY <1>3, <2>1, <3>1 DEF TranscriptTypeOK
    <2>2. CASE ~s.there
      BY <1>2, <1>3, <2>2 DEF TranscriptTypeOK
    <2> QED
      BY <2>1, <2>2
  <1> HIDE DEF r
  <1>13. r.offset % 3 = 0 /\ r.offset <= size[f] /\ r.messages = Count(f, 0, r.offset)
    BY <1>3, <1>11 DEF SummaryInv, Line
  <1> QED
    BY <1>1, <1>3, <1>4, <1>5, <1>11, <1>12, <1>13, TotalsBecome

\* What a write adds to what can be read begins at the cursor or after it.
LEMMA WriteStep ==
    ASSUME TranscriptInv, NEW f \in File, NEW kind \in {"turn", "other"}, NEW bytes \in 1..3,
           Write(f, kind, bytes)
    PROVE  TranscriptInv'
  <1> USE DEF TranscriptInv
  <1>1. UNCHANGED <<summary, asked, failed, chatVars, scanErrors>>
    BY DEF Write, sumVars
  <1>2. /\ TranscriptTypeOK'
        /\ size[f] <= size'[f] /\ \A g \in File : g # f => log'[g] = log[g] /\ size'[g] = size[g]
        /\ Len(log[f]) <= Len(log'[f]) /\ \A k \in 1..Len(log[f]) : log'[f][k] = log[f][k]
        /\ Len(log'[f]) # Len(log[f]) =>
                 Len(log'[f]) = Len(log[f]) + 1 /\ size[f] = 3 * Len(log[f])
    BY WriteIs
  <1>3. \A g \in File : size[g] \in Nat /\ size'[g] \in Nat /\ size[g] <= size'[g]
    <2> SUFFICES ASSUME NEW g \in File
                 PROVE  size[g] \in Nat /\ size'[g] \in Nat /\ size[g] <= size'[g]
      OBVIOUS
    <2>1. size[g] \in Nat /\ size'[g] \in Nat
      BY <1>2 DEF TranscriptTypeOK
    <2> QED
      BY <1>2, <2>1
  <1>4. SummaryInv'
    <2> SUFFICES ASSUME NEW g \in File
                 PROVE  /\ summary[g].offset % 3 = 0
                        /\ summary[g].offset <= size'[g]
                        /\ summary[g].messages = Count(g, 0, summary[g].offset)'
                        /\ g \notin failed => summary[g].tools = summary[g].messages
      BY <1>1 DEF SummaryInv, Line
    <2>1. summary[g].offset \in Nat /\ summary[g].offset <= size[g]
      BY SummaryType DEF SummaryInv
    <2>2. PICK o \in Nat : o = summary[g].offset
      BY <2>1
    <2>3. Turns(g, 0, o)' = Turns(g, 0, o)
      BY <2>1, <2>2, WriteKeepsCounts
    <2>4. Count(g, 0, summary[g].offset)' = Count(g, 0, summary[g].offset)
      BY <1>1, <2>2, <2>3 DEF Count
    <2>5. summary[g].offset <= size'[g]
      BY <1>3, <2>1
    <2> QED
      BY <2>4, <2>5 DEF SummaryInv, Line
  <1>5. TabInv'
    BY <1>1 DEF TabInv, chatVars
  <1>6. ScreenInv'
    <2> SUFFICES ASSUME of # NoFile, ~spliced, ~late
                 PROVE  ScreenInv'
      BY <1>1 DEF ScreenInv, chatVars
    <2>1. of \in File /\ UNCHANGED <<shown, cursor, prev, more, request, of, spliced, late, torn, gaveUp>>
      BY <1>1 DEF chatVars, TranscriptTypeOK
    <2>2. size[of] \in Nat /\ size'[of] \in Nat /\ size[of] <= size'[of] /\ cursor \in Nat /\ cursor <= size[of]
      BY <1>3, <2>1 DEF ScreenInv, TranscriptTypeOK
    <2>3. \A i \in DOMAIN shown : shown[i][2] \in Nat
      <3>1. shown \in Seq(File \X (1..MaxRecords))
        BY DEF TranscriptTypeOK
      <3>2. \A i \in DOMAIN shown : shown[i] \in File \X (1..MaxRecords)
        BY <3>1
      <3> QED
        BY <3>2
    <2>4. ASSUME NEW k \in Readable'
          PROVE  k \in Readable \/ 3 * (k - 1) >= cursor
      <3>1. Len(log[of]) \in Nat /\ DOMAIN log[of] = 1..Len(log[of])
            /\ 3 * Len(log[of]) - 2 <= size[of] /\ size[of] <= 3 * Len(log[of])
        BY <2>1, LogType
      <3>2. DOMAIN log'[of] = 1..Len(log'[of]) /\ Len(log'[of]) \in Nat
        BY <1>2, <2>1, LenProperties DEF TranscriptTypeOK
      <3>3. k \in 1..Len(log'[of]) /\ log'[of][k] = "turn" /\ 3 * k - 1 <= size'[of] /\ k # torn
        BY <2>1, <3>2 DEF Readable, Turns, Line
      <3>4. CASE k \in 1..Len(log[of]) /\ 3 * k - 1 <= size[of]
        <4>1. log[of][k] = "turn"
          BY <1>2, <2>1, <3>3, <3>4
        <4>2. 3 * (k - 1) >= 0
          BY <3>1, <3>4
        <4> QED
          BY <2>1, <3>1, <3>3, <3>4, <4>1, <4>2 DEF Readable, Turns, Line
      <3>5. CASE k \in 1..Len(log[of]) /\ ~(3 * k - 1 <= size[of])
        <4>1. k = Len(log[of]) /\ size[of] = 3 * k - 2
          BY <2>2, <3>1, <3>5
        <4>2. cursor % 3 = 1 => cursor = 3 * torn - 2
          BY DEF ScreenInv, Line
        <4>3. torn \in Nat
          BY ScanBounds DEF TranscriptTypeOK
        <4>4. cursor # 3 * k - 2
          <5>1. cursor = 3 * k - 2 => cursor % 3 = 1
            BY <3>1, <3>5
          <5> QED
            BY <3>1, <3>3, <3>5, <4>2, <4>3, <5>1
        <4> QED
          BY <2>2, <3>1, <4>1, <4>4
      <3>6. CASE k \notin 1..Len(log[of])
        <4>1. Len(log'[of]) # Len(log[of])
          BY <3>3, <3>6
        <4>a. of = f
          BY <1>2, <2>1, <4>1
        <4>b. Len(log'[of]) = Len(log[of]) + 1 /\ size[of] = 3 * Len(log[of])
          BY <1>2, <4>1, <4>a
        <4>2. k = Len(log[of]) + 1 /\ size[of] = 3 * Len(log[of])
          BY <3>1, <3>3, <3>6, <4>b
        <4> QED
          BY <2>2, <3>1, <4>2
      <3> QED
        BY <3>4, <3>5, <3>6
    <2>5. \A i \in DOMAIN shown : 3 * shown[i][2] - 1 <= size'[of]
      <3> SUFFICES ASSUME NEW i \in DOMAIN shown
                   PROVE  3 * shown[i][2] - 1 <= size'[of]
        OBVIOUS
      <3>1. 3 * shown[i][2] - 1 <= size[of]
        BY DEF ScreenInv, Line
      <3> QED
        BY <2>2, <2>3, <3>1
    <2>6. cursor <= size'[of]
      BY <2>2
    <2>7. \A k \in Readable' :
              \/ Line * (k - 1) >= cursor \/ OnScreen(k)
              \/ /\ \A i \in DOMAIN shown : k < shown[i][2]
                 /\ more \/ gaveUp
                 /\ more => Line * k - 1 <= prev
      BY <2>4 DEF ScreenInv, Line
    <2> QED
      BY <2>1, <2>5, <2>6, <2>7 DEF ScreenInv, Line, OnScreen
  <1> QED
    BY <1>2, <1>4, <1>5, <1>6

-----------------------------------------------------------------------------
\* A finite set of numbers, in order, each once.
LEMMA AscendingIs ==
    ASSUME NEW T \in SUBSET Nat, IsFiniteSet(T)
    PROVE  /\ Ascending(T) \in Seq(T) /\ Len(Ascending(T)) \in Nat
           /\ \A i \in 1..Len(Ascending(T)) : Ascending(T)[i] \in T
           /\ \A i, j \in 1..Len(Ascending(T)) : i < j => Ascending(T)[i] < Ascending(T)[j]
           /\ \A x \in T : \E i \in 1..Len(Ascending(T)) : Ascending(T)[i] = x
  <1> DEFINE R == {p \in Nat \X Nat : p[1] < p[2]}
             c == Cardinality(T)
             P(s) == \A i, j \in DOMAIN s : i < j => s[i] < s[j]
             s == CHOOSE s \in [1..c -> T] : P(s)
  <1>1. c \in Nat
    BY FS_CardinalityType
  <1>2. \A x, y \in T : <<x, y>> \in R <=> x < y
    OBVIOUS
  <1> HIDE DEF R
  <1>3. Orders(R, T)
    BY <1>2 DEF Orders
  <1>4. \E t \in [1..c -> T] : P(t)
    <2>1. PICK t \in [1..c -> T] : InOrder(t, R)
      BY <1>3, Listing
    <2>2. P(t)
      BY <1>2, <2>1 DEF InOrder
    <2> QED
      BY <2>2
  <1>5. Ascending(T) = s
    BY DEF Ascending
  <1> HIDE DEF P, c
  <1>6. s \in [1..c -> T] /\ P(s)
    BY <1>4
  <1> HIDE DEF s
  <1>7. s \in Seq(T) /\ Len(s) = c /\ DOMAIN s = 1..c
    BY <1>1, <1>6
  <1>8. \A i, j \in 1..c : i < j => s[i] < s[j]
    BY <1>6, <1>7 DEF P
  <1>9. s \in Seqs!SetToSeqs(T)
    <2>1. \A i, j \in 1..c : i # j => s[i] # s[j]
      <3> SUFFICES ASSUME NEW i \in 1..c, NEW j \in 1..c, i # j
                   PROVE  s[i] # s[j]
        OBVIOUS
      <3>1. i < j \/ j < i
        BY <1>1
      <3>2. s[i] \in Nat /\ s[j] \in Nat
        BY <1>6
      <3> QED
        BY <1>8, <3>1, <3>2
    <2> QED
      BY <1>6, <2>1, SameSize DEF Seqs!SetToSeqs, c
  <1>10. \A x \in T : \E i \in 1..Len(s) : s[i] = x
    BY <1>9, ListingIsOfAll
  <1> QED
    BY <1>1, <1>5, <1>6, <1>7, <1>8, <1>10

\* The last of a sequence are all but the first o of it.
LEMMA LastIs ==
    ASSUME NEW S, NEW s \in Seq(S), NEW n \in Nat, n > 0
    PROVE  \E o \in 0..Len(s) :
              /\ Last(n, s) \in Seq(S) /\ Len(Last(n, s)) = Len(s) - o
              /\ \A i \in 1..(Len(s) - o) : Last(n, s)[i] = s[o + i]
              /\ Len(s) - o <= n /\ (o # 0 => Len(s) - o = n)
  <1> DEFINE l == Len(s)
             o == IF l < n THEN 0 ELSE l - n
  <1>1. l \in Nat /\ \A i \in 1..l : s[i] \in S
    BY LenProperties
  <1>2. o \in 0..l /\ o \in Nat /\ l - o \in Nat /\ l - o <= n /\ (o # 0 => l - o = n)
    BY <1>1
  <1>3. Last(n, s) = SubSeq(s, o + 1, l)
    BY <1>1 DEF Last
  <1> HIDE DEF o, l
  <1>4. \A i \in (o + 1)..l : s[i] \in S
    BY <1>1, <1>2
  <1>5. /\ SubSeq(s, o + 1, l) \in Seq(S)
        /\ Len(SubSeq(s, o + 1, l)) = IF o + 1 <= l THEN l - (o + 1) + 1 ELSE 0
        /\ \A i \in 1..(l - (o + 1) + 1) : SubSeq(s, o + 1, l)[i] = s[(o + 1) + i - 1]
    BY <1>1, <1>2, <1>4, SubSeqProperties
  <1>6. l - (o + 1) + 1 = l - o /\ (IF o + 1 <= l THEN l - (o + 1) + 1 ELSE 0) = l - o
    BY <1>1, <1>2
  <1>7. \A i \in 1..(l - o) : (o + 1) + i - 1 = o + i
    BY <1>1, <1>2
  <1> QED
    BY <1>2, <1>3, <1>5, <1>6, <1>7 DEF l

LEMMA OfIs ==
    ASSUME NEW f, NEW S, NEW ks \in Seq(S)
    PROVE  /\ Of(f, ks) \in Seq({f} \X S) /\ Len(Of(f, ks)) = Len(ks)
           /\ DOMAIN Of(f, ks) = 1..Len(ks) /\ Len(ks) \in Nat
           /\ \A i \in 1..Len(ks) : Of(f, ks)[i] = <<f, ks[i]>>
  <1>1. Len(ks) \in Nat /\ DOMAIN ks = 1..Len(ks) /\ \A i \in 1..Len(ks) : ks[i] \in S
    BY LenProperties
  <1>2. Of(f, ks) = [i \in 1..Len(ks) |-> <<f, ks[i]>>]
    BY <1>1 DEF Of
  <1> QED
    BY <1>1, <1>2

LEMMA LowIs == ASSUME NEW end \in Nat PROVE Low(end) \in Nat /\ Low(end) <= end
  BY ScanBounds DEF Low

\* A page read backwards from `end`: of the turns that end by then it has the last;
\* those it has not end by its start, when there are more, or were given up.
LEMMA BackwardIs ==
    ASSUME TranscriptTypeOK, NEW f \in File, NEW end \in Nat
    PROVE  LET p == Backward(f, end)
           IN /\ p.start \in Nat /\ p.more \in BOOLEAN /\ p.gaveUp \in BOOLEAN
              /\ \E ks \in Seq(Nat) :
                    /\ p.turns = Of(f, ks)
                    /\ \A i \in 1..Len(ks) : ks[i] \in Turns(f, Low(end), end)
                    /\ \A i, j \in 1..Len(ks) : i < j => ks[i] < ks[j]
                    /\ \A k \in Turns(f, 0, end) :
                          \/ \E i \in 1..Len(ks) : ks[i] = k
                          \/ /\ p.more \/ p.gaveUp
                             /\ p.more => 3 * k - 1 <= p.start
                             /\ \A i \in 1..Len(ks) : k < ks[i]
                    /\ p.more => Len(ks) > 0 /\ p.start > 0 /\ p.start < 3 * (ks[1] - 1)
  <1> DEFINE T == Turns(f, Low(end), end)
             A == Ascending(T)
             found == Last(Limit + 1, A)
             extra == Len(found) > Limit
             ks == Last(Limit, found)
             start == IF extra THEN 3 * found[1] - 1 ELSE 0
             gave == ~extra /\ Low(end) > 0
             p == Backward(f, end)
  <1>1. p.turns = Of(f, ks) /\ p.start = start /\ p.more = extra /\ p.gaveUp = gave
    BY DEF Backward, Collected, Line
  <1>2. Low(end) \in Nat /\ Limit \in Nat /\ Limit > 0 /\ Limit + 1 \in Nat /\ Limit + 1 > 0
    BY LowIs, ScanBounds
  <1>3. /\ T \in SUBSET Nat /\ IsFiniteSet(T)
        /\ \A k \in Nat : k \in T <=>
              k \in 1..Len(log[f]) /\ log[f][k] = "turn" /\ 3 * (k - 1) >= Low(end) /\ 3 * k - 1 <= end
    BY <1>2, TurnsAre
  <1>4. \A k \in Turns(f, 0, end) : k \in Nat /\ k > 0 /\ (k \in T \/ 3 * (k - 1) < Low(end))
    <2> SUFFICES ASSUME NEW k \in Turns(f, 0, end)
                 PROVE  k \in Nat /\ k > 0 /\ (k \in T \/ 3 * (k - 1) < Low(end))
      OBVIOUS
    <2>1. k \in 1..Len(log[f]) /\ log[f][k] = "turn" /\ 3 * k - 1 <= end
      BY TurnsAre
    <2>2. Len(log[f]) \in Nat
      BY LogType
    <2>3. k \in Nat /\ k > 0
      BY <2>1, <2>2
    <2> HIDE DEF T
    <2> QED
      BY <1>2, <1>3, <2>1, <2>3
  <1>5. \A k \in T : 3 * (k - 1) >= Low(end) /\ k \in Nat /\ k > 0
    <2>1. Len(log[f]) \in Nat
      BY LogType
    <2> HIDE DEF T
    <2> QED
      BY <1>3, <2>1
  <1> HIDE DEF T
  <1>6. /\ A \in Seq(T) /\ Len(A) \in Nat
        /\ \A i \in 1..Len(A) : A[i] \in T
        /\ \A i, j \in 1..Len(A) : i < j => A[i] < A[j]
        /\ \A x \in T : \E i \in 1..Len(A) : A[i] = x
    BY <1>3, AscendingIs
  <1> HIDE DEF A
  <1>7. PICK o1 \in 0..Len(A) :
              /\ found \in Seq(T) /\ Len(found) = Len(A) - o1
              /\ \A i \in 1..(Len(A) - o1) : found[i] = A[o1 + i]
              /\ Len(A) - o1 <= Limit + 1 /\ (o1 # 0 => Len(A) - o1 = Limit + 1)
    <2>1. A \in Seq(T) /\ Limit + 1 \in Nat /\ Limit + 1 > 0
      BY <1>2, <1>6
    <2> HIDE DEF ks, extra, start, gave, p
    <2> QED
      BY <2>1, LastIs
  <1> HIDE DEF found
  <1>8. PICK o2 \in 0..Len(found) :
              /\ ks \in Seq(T) /\ Len(ks) = Len(found) - o2
              /\ \A i \in 1..(Len(found) - o2) : ks[i] = found[o2 + i]
              /\ Len(found) - o2 <= Limit /\ (o2 # 0 => Len(found) - o2 = Limit)
    BY <1>2, <1>7, LastIs
  <1> HIDE DEF ks
  <1>9. /\ Len(found) \in Nat /\ Len(ks) \in Nat
        /\ extra => o2 = 1 /\ Len(ks) > 0
        /\ ~extra => o1 = 0 /\ o2 = 0
    <2> DEFINE a == Len(A)
               c == Len(found)
               d == Len(ks)
    <2>1. /\ a \in Nat /\ o1 \in Nat /\ o1 <= a /\ c = a - o1 /\ c <= Limit + 1 /\ (o1 # 0 => c = Limit + 1)
      BY <1>6, <1>7
    <2>2. c \in Nat
      BY <1>7, LenProperties
    <2>3. o2 \in Nat /\ o2 <= c /\ d = c - o2 /\ d <= Limit /\ (o2 # 0 => d = Limit)
      BY <1>8, <2>2
    <2>4. extra <=> c > Limit
      OBVIOUS
    <2> HIDE DEF a, c, d, extra
    <2>5. d \in Nat /\ (c > Limit => o2 = 1 /\ d > 0) /\ (~(c > Limit) => o1 = 0 /\ o2 = 0)
      BY <1>2, <2>1, <2>2, <2>3
    <2> QED
      BY <2>2, <2>4, <2>5 DEF c, d
  <1>10. \A i \in 1..Len(ks) : o2 + i \in 1..Len(found) /\ (o1 + o2) + i \in 1..Len(A) /\ o1 + (o2 + i) = (o1 + o2) + i
    BY <1>6, <1>7, <1>8, <1>9
  <1>11. \A i \in 1..Len(ks) : ks[i] = A[(o1 + o2) + i]
    BY <1>7, <1>8, <1>9, <1>10
  <1>12. \A i \in 1..Len(ks) : ks[i] \in T
    BY <1>6, <1>10, <1>11
  <1>13. \A i, j \in 1..Len(ks) : i < j => ks[i] < ks[j]
    BY <1>6, <1>7, <1>8, <1>9, <1>10, <1>11
  <1>14. ks \in Seq(Nat)
    <2>1. T \subseteq Nat /\ ks \in Seq(T)
      BY <1>3, <1>8
    <2>2. Len(ks) \in Nat /\ DOMAIN ks = 1..Len(ks) /\ ks \in [1..Len(ks) -> T]
      BY <2>1, LenProperties
    <2>3. ks \in [1..Len(ks) -> Nat]
      BY <2>1, <2>2
    <2> QED
      BY <2>2, <2>3
  <1>15. extra => /\ o1 + 1 \in 1..Len(A) /\ start = 3 * A[o1 + 1] - 1 /\ A[o1 + 1] \in T
                  /\ \A i \in 1..Len(ks) : A[o1 + 1] < ks[i]
    <2> SUFFICES ASSUME extra
                 PROVE  /\ o1 + 1 \in 1..Len(A) /\ start = 3 * A[o1 + 1] - 1 /\ A[o1 + 1] \in T
                        /\ \A i \in 1..Len(ks) : A[o1 + 1] < ks[i]
      OBVIOUS
    <2>1. 1 \in 1..Len(found) /\ o1 + 1 \in 1..Len(A) /\ o2 = 1
      BY <1>2, <1>6, <1>7, <1>9
    <2>2. found[1] = A[o1 + 1]
      BY <1>7, <2>1
    <2>3. \A i \in 1..Len(ks) : A[o1 + 1] < A[(o1 + o2) + i]
      <3> SUFFICES ASSUME NEW i \in 1..Len(ks)
                   PROVE  A[o1 + 1] < A[(o1 + o2) + i]
        OBVIOUS
      <3>1. (o1 + o2) + i \in 1..Len(A)
        BY <1>10
      <3>2. o1 + 1 < (o1 + o2) + i
        BY <1>6, <1>7, <1>9, <2>1
      <3> QED
        BY <1>6, <2>1, <3>1, <3>2
    <2> QED
      BY <1>6, <1>11, <2>1, <2>2, <2>3
  <1> HIDE DEF extra
  <1>16. start \in Nat /\ (extra => start > 0)
    BY <1>5, <1>15
  <1> DEFINE Reached(k) == \E i \in 1..Len(ks) : ks[i] = k
             Left(k) == /\ extra \/ gave
                        /\ extra => 3 * k - 1 <= start
                        /\ \A i \in 1..Len(ks) : k < ks[i]
  <1>17. ASSUME NEW k \in Turns(f, 0, end)
         PROVE  Reached(k) \/ Left(k)
    <2>1. k \in Nat /\ k > 0
      BY <1>4
    <2>2. CASE k \in T
      <3>1. PICK j \in 1..Len(A) : A[j] = k
        BY <1>6, <2>2
      <3>2. CASE j > o1 + o2
        <4>1. j - (o1 + o2) \in 1..Len(ks) /\ j = (o1 + o2) + (j - (o1 + o2))
          BY <1>6, <1>7, <1>8, <1>9, <3>2
        <4>2. ks[j - (o1 + o2)] = k
          BY <1>11, <3>1, <4>1
        <4> QED
          BY <4>1, <4>2
      <3>3. CASE j <= o1 + o2
        <4>1. extra /\ j <= o1 + 1
          <5>1. j \in Nat /\ j > 0 /\ o1 \in Nat
            BY <1>6, <1>7
          <5>2. extra
            BY <1>9, <3>3, <5>1
          <5> QED
            BY <1>9, <3>3, <5>1, <5>2
        <4>2. k <= A[o1 + 1] /\ A[o1 + 1] \in Nat
          <5>1. j = o1 + 1 \/ j < o1 + 1
            BY <1>6, <1>7, <4>1
          <5>2. A[o1 + 1] \in Nat
            BY <1>5, <1>15, <4>1
          <5>3. j < o1 + 1 => k < A[o1 + 1]
            BY <1>6, <1>15, <3>1, <4>1
          <5> QED
            BY <2>1, <3>1, <5>1, <5>2, <5>3
        <4>3. \A i \in 1..Len(ks) : A[o1 + 1] < ks[i] /\ ks[i] \in Nat
          BY <1>5, <1>12, <1>15, <4>1
        <4>4. 3 * k - 1 <= start
          BY <1>15, <2>1, <4>1, <4>2
        <4>5. \A i \in 1..Len(ks) : k < ks[i]
          BY <2>1, <4>2, <4>3
        <4> QED
          BY <4>1, <4>4, <4>5
      <3> QED
        BY <1>6, <1>7, <1>8, <1>9, <3>2, <3>3
    <2>3. CASE 3 * (k - 1) < Low(end)
      <3>1. \A x \in T : k < x
        BY <1>2, <1>5, <2>1, <2>3
      <3>2. Low(end) > 0
        BY <1>2, <2>1, <2>3
      <3>3. extra => 3 * k - 1 <= start
        <4>1. extra => k < A[o1 + 1] /\ A[o1 + 1] \in Nat
          BY <1>5, <1>15, <3>1
        <4> QED
          BY <1>15, <2>1, <4>1
      <3> QED
        BY <1>12, <3>1, <3>2, <3>3
    <2> QED
      BY <1>4, <2>2, <2>3
  <1>18. extra => start < 3 * (ks[1] - 1)
    <2> SUFFICES ASSUME extra
                 PROVE  start < 3 * (ks[1] - 1)
      OBVIOUS
    <2>1. 1 \in 1..Len(ks)
      BY <1>9
    <2>2. A[o1 + 1] < ks[1] /\ A[o1 + 1] \in Nat /\ ks[1] \in Nat
      BY <1>5, <1>12, <1>15, <2>1
    <2> QED
      BY <1>15, <2>2
  <1>19. extra \in BOOLEAN /\ gave \in BOOLEAN
    BY DEF extra
  <1>20. /\ p.start \in Nat /\ p.more \in BOOLEAN /\ p.gaveUp \in BOOLEAN
    BY <1>1, <1>16, <1>19
  <1>21. \A k \in Turns(f, 0, end) :
            \/ \E i \in 1..Len(ks) : ks[i] = k
            \/ /\ p.more \/ p.gaveUp
               /\ p.more => 3 * k - 1 <= p.start
               /\ \A i \in 1..Len(ks) : k < ks[i]
    BY <1>1, <1>17
  <1>22. p.more => Len(ks) > 0 /\ p.start > 0 /\ p.start < 3 * (ks[1] - 1)
    BY <1>1, <1>9, <1>16, <1>18
  <1>23. \A i \in 1..Len(ks) : ks[i] \in Turns(f, Low(end), end)
    BY <1>12 DEF T
  <1>24. p.turns = Of(f, ks)
    BY <1>1
  <1> HIDE DEF p
  <1>25. \E k \in Seq(Nat) : k = ks
    BY <1>14
  <1> QED
    BY <1>13, <1>14, <1>20, <1>21, <1>22, <1>23, <1>24 DEF p

-----------------------------------------------------------------------------
\* A page read forwards from `from` has the first of the turns that start there.
LEMMA ForwardIs ==
    ASSUME TranscriptTypeOK, NEW f \in File, NEW from \in Nat, NEW to \in Nat
    PROVE  LET ks == First(Limit, Ascending(Turns(f, from, to)))
           IN /\ ks \in Seq(Nat) /\ Len(ks) \in Nat /\ (ks = <<>> <=> Len(ks) = 0)
              /\ \A i \in 1..Len(ks) : ks[i] \in Turns(f, from, to)
              /\ \A i, j \in 1..Len(ks) : i < j => ks[i] < ks[j]
              /\ \A k \in Turns(f, from, to) :
                    \/ \E i \in 1..Len(ks) : ks[i] = k
                    \/ Len(ks) > 0 /\ ks[Len(ks)] < k
  <1> DEFINE T == Turns(f, from, to)
             A == Ascending(T)
             ks == First(Limit, A)
             c == IF Len(A) < Limit THEN Len(A) ELSE Limit
  <1>1. T \in SUBSET Nat /\ IsFiniteSet(T) /\ Limit \in Nat /\ Limit > 0
    BY TurnsAre, ScanBounds
  <1> HIDE DEF T
  <1>2. /\ A \in Seq(T) /\ Len(A) \in Nat
        /\ \A i \in 1..Len(A) : A[i] \in T
        /\ \A i, j \in 1..Len(A) : i < j => A[i] < A[j]
        /\ \A x \in T : \E i \in 1..Len(A) : A[i] = x
    BY <1>1, AscendingIs
  <1>3. ks = SubSeq(A, 1, c)
    BY DEF First
  <1> HIDE DEF A
  <1>4. c \in 0..Len(A) /\ c \in Nat /\ (c = 0 => Len(A) = 0) /\ c <= Len(A)
    BY <1>1, <1>2
  <1> HIDE DEF c
  <1>5. /\ SubSeq(A, 1, c) \in Seq(T) /\ Len(SubSeq(A, 1, c)) = c
        /\ DOMAIN SubSeq(A, 1, c) = 1..c
        /\ \A i \in 1..c : SubSeq(A, 1, c)[i] = A[i] /\ A[i] \in T
        /\ SubSeq(A, 1, c) = <<>> <=> c = 0
    BY <1>2, <1>4, FirstElements
  <1> HIDE DEF ks
  <1>6. /\ ks \in Seq(T) /\ Len(ks) = c /\ DOMAIN ks = 1..c
        /\ \A i \in 1..c : ks[i] = A[i] /\ ks[i] \in T
        /\ ks = <<>> <=> c = 0
    BY <1>3, <1>5
  <1>7. ks \in Seq(Nat)
    <2>1. ks \in [1..c -> T]
      BY <1>6, LenProperties
    <2>2. ks \in [1..c -> Nat]
      BY <1>1, <2>1
    <2> QED
      BY <1>4, <2>2
  <1>8. \A i \in 1..c : i \in 1..Len(A)
    BY <1>2, <1>4
  <1>9. \A i, j \in 1..c : i < j => ks[i] < ks[j]
    BY <1>2, <1>6, <1>8
  <1>10. ASSUME NEW k \in T
         PROVE  (\E i \in 1..c : ks[i] = k) \/ (c > 0 /\ ks[c] < k)
    <2>1. PICK j \in 1..Len(A) : A[j] = k
      BY <1>2
    <2>2. j \in Nat /\ j > 0 /\ c \in Nat
      BY <1>2, <1>4
    <2>3. CASE j <= c
      <3>1. j \in 1..c
        BY <2>2, <2>3
      <3> QED
        BY <1>6, <2>1, <3>1
    <2>4. CASE c < j
      <3>1. c > 0
        BY <1>2, <1>4, <2>2
      <3>2. c \in 1..c /\ c \in 1..Len(A)
        BY <1>2, <1>4, <3>1
      <3> QED
        BY <1>2, <1>6, <2>1, <2>4, <3>1, <3>2
    <2> QED
      BY <2>2, <2>3, <2>4
  <1> QED
    BY <1>4, <1>6, <1>7, <1>9, <1>10 DEF ks, A, T

\* The turns of a transcript as they are shown.
LEMMA ShownAs ==
    ASSUME TranscriptTypeOK, NEW f \in File, NEW from \in Nat, NEW to \in Nat, NEW ks \in Seq(Nat),
           \A i \in 1..Len(ks) : ks[i] \in Turns(f, from, to)
    PROVE  /\ Of(f, ks) \in Seq(File \X (1..MaxRecords)) /\ Len(Of(f, ks)) = Len(ks)
           /\ DOMAIN Of(f, ks) = 1..Len(ks) /\ Len(ks) \in Nat
           /\ \A i \in 1..Len(ks) : Of(f, ks)[i] = <<f, ks[i]>> /\ ks[i] \in Nat /\ ks[i] > 0
                                    /\ 3 * (ks[i] - 1) >= from /\ 3 * ks[i] - 1 <= to
  <1>1. /\ Len(Of(f, ks)) = Len(ks) /\ DOMAIN Of(f, ks) = 1..Len(ks) /\ Len(ks) \in Nat
        /\ \A i \in 1..Len(ks) : Of(f, ks)[i] = <<f, ks[i]>>
        /\ Of(f, ks) \in Seq({f} \X Nat)
    BY OfIs
  <1>2. /\ Turns(f, from, to) \subseteq 1..Len(log[f])
        /\ \A k \in Nat : k \in Turns(f, from, to) <=>
              k \in 1..Len(log[f]) /\ log[f][k] = "turn" /\ 3 * (k - 1) >= from /\ 3 * k - 1 <= to
    BY TurnsAre
  <1>3. Len(log[f]) \in 0..MaxRecords /\ Len(log[f]) \in Nat /\ MaxRecords \in Nat
    BY LogType, ScanBounds
  <1>4. \A i \in 1..Len(ks) : ks[i] \in Nat /\ ks[i] > 0 /\ ks[i] \in 1..MaxRecords
                              /\ 3 * (ks[i] - 1) >= from /\ 3 * ks[i] - 1 <= to
    BY <1>2, <1>3
  <1>5. Of(f, ks) \in [1..Len(ks) -> File \X (1..MaxRecords)]
    <2>1. \A i \in 1..Len(ks) : Of(f, ks)[i] \in File \X (1..MaxRecords)
      BY <1>1, <1>4
    <2>2. Of(f, ks) \in [1..Len(ks) -> {f} \X Nat]
      BY <1>1, LenProperties
    <2> QED
      BY <2>1, <2>2
  <1>6. Of(f, ks) \in Seq(File \X (1..MaxRecords))
    <2>1. PICK n \in Nat : n = Len(ks)
      BY <1>1
    <2>2. Of(f, ks) \in [1..n -> File \X (1..MaxRecords)]
      BY <1>5, <2>1
    <2> QED
      BY <2>1, <2>2
  <1> QED
    BY <1>1, <1>4, <1>6

-----------------------------------------------------------------------------
LEMMA RequestType ==
    ASSUME TranscriptTypeOK
    PROVE  /\ request.kind \in {"none", "tail", "poll", "older"} /\ request.at \in Nat
           /\ request.late \in BOOLEAN
           /\ NoRequest \in [kind : {"none", "tail", "poll", "older"}, at : Nat, late : BOOLEAN]
           /\ NoRequest.kind = "none" /\ NoRequest.late = FALSE
  BY DEF TranscriptTypeOK, NoRequest

LEMMA AskStep ==
    ASSUME TranscriptInv, NEW kind \in {"tail", "poll", "older"}, NEW at \in Nat, Ask(kind, at),
           kind = "tail" \/ of # NoFile,
           kind = "poll" => at = cursor,
           kind = "older" => at = prev /\ more
    PROVE  TranscriptInv'
  <1> USE DEF TranscriptInv
  <1>1. /\ request' = [kind |-> kind, at |-> at, late |-> FALSE]
        /\ UNCHANGED <<log, size, newer, summary, asked, failed, shown, cursor, prev, more, of, spliced,
                       late, torn, gaveUp, scanErrors>>
    BY DEF Ask, logVars, sumVars
  <1>2. request' \in [kind : {"none", "tail", "poll", "older"}, at : Nat, late : BOOLEAN]
        /\ request'.kind = kind /\ request'.at = at /\ request'.late = FALSE
    BY <1>1
  <1>3. TranscriptTypeOK'
    BY <1>1, <1>2 DEF TranscriptTypeOK
  <1>4. SummaryInv'
    BY <1>1, SummaryKept
  <1>5. TabInv'
    BY <1>1, <1>2 DEF TabInv
  <1>6. ScreenInv'
    BY <1>1, <1>2 DEF ScreenInv, Readable, Turns, OnScreen
  <1> QED
    BY <1>3, <1>4, <1>5, <1>6

LEMMA AsksStep == ASSUME TranscriptInv, AskTail \/ AskNew \/ AskOlder PROVE TranscriptInv'
  <1>1. cursor \in Nat /\ prev \in Nat
    BY DEF TranscriptInv, TranscriptTypeOK
  <1>2. CASE AskTail
    BY <1>2, AskStep DEF AskTail
  <1>3. CASE AskNew
    <2>1. of # NoFile
      BY <1>3 DEF AskNew, TranscriptInv, TabInv
    <2> QED
      BY <1>1, <1>3, <2>1, AskStep DEF AskNew
  <1>4. CASE AskOlder
    <2>1. of # NoFile
      BY <1>4 DEF AskOlder, TranscriptInv, TabInv
    <2> QED
      BY <1>1, <1>4, <2>1, AskStep DEF AskOlder
  <1> QED
    BY <1>2, <1>3, <1>4

LEMMA NoAnswerStep == ASSUME TranscriptInv, NoAnswer PROVE TranscriptInv'
  <1> USE DEF TranscriptInv
  <1>1. /\ request' = NoRequest
        /\ UNCHANGED <<log, size, newer, summary, asked, failed, shown, cursor, prev, more, of, spliced,
                       late, torn, gaveUp, scanErrors>>
    BY DEF NoAnswer, logVars, sumVars
  <1>2. TranscriptTypeOK'
    BY <1>1, RequestType DEF TranscriptTypeOK
  <1>3. SummaryInv'
    BY <1>1, SummaryKept
  <1>4. TabInv'
    BY <1>1, RequestType DEF TabInv
  <1>5. ScreenInv'
    BY <1>1, RequestType DEF ScreenInv, Readable, Turns, OnScreen
  <1> QED
    BY <1>2, <1>3, <1>4, <1>5

LEMMA ResetStep == ASSUME TranscriptInv, Reset PROVE TranscriptInv'
  <1> USE DEF TranscriptInv
  <1>1. /\ shown' = <<>> /\ cursor' = 0 /\ prev' = 0 /\ more' = FALSE
        /\ request' = [request EXCEPT !.late = request # NoRequest]
        /\ of' = NoFile /\ spliced' = FALSE /\ late' = FALSE /\ torn' = 0 /\ gaveUp' = FALSE
        /\ UNCHANGED <<log, size, newer, summary, asked, failed, scanErrors>>
    BY DEF Reset, logVars, sumVars
  <1>2. request' \in [kind : {"none", "tail", "poll", "older"}, at : Nat, late : BOOLEAN]
        /\ request'.kind = request.kind /\ (request # NoRequest => request'.late)
    BY <1>1 DEF TranscriptTypeOK
  <1>3. TranscriptTypeOK'
    <2>1. shown' \in Seq(File \X (1..MaxRecords)) /\ torn' \in 0..MaxRecords
      BY <1>1, ScanBounds
    <2> QED
      BY <1>1, <1>2, <2>1 DEF TranscriptTypeOK
  <1>4. SummaryInv'
    BY <1>1, SummaryKept
  <1>5. TabInv'
    BY <1>1, <1>2, RequestType DEF TabInv
  <1>6. ScreenInv'
    BY <1>1 DEF ScreenInv
  <1> QED
    BY <1>3, <1>4, <1>5, <1>6

\* What can be read is a turn that ends by the size, but for the one that is torn.
LEMMA ReadableIs ==
    ASSUME TranscriptTypeOK, of \in File
    PROVE  \A k \in Readable : k \in Nat /\ k > 0 /\ k \in Turns(of, 0, size[of]) /\ k # torn
                               /\ 3 * k - 1 <= size[of]
  <1>1. size[of] \in Nat /\ Len(log[of]) \in Nat
    BY LogType
  <1>2. \A k \in Turns(of, 0, size[of]) : k \in 1..Len(log[of]) /\ 3 * k - 1 <= size[of]
    BY <1>1, TurnsAre
  <1> QED
    BY <1>1, <1>2 DEF Readable

LEMMA FirstPaintStep ==
    ASSUME TranscriptInv, NEW f \in File, FirstPaint(f)
    PROVE  TranscriptInv'
  <1> USE DEF TranscriptInv
  <1> DEFINE p == Backward(f, size[f])
  <1>1. /\ request' = NoRequest
        /\ cursor' = size[f] /\ prev' = p.start /\ more' = p.more /\ shown' = p.turns /\ gaveUp' = p.gaveUp
        /\ torn' = (IF Cut(f) THEN Len(log[f]) ELSE 0) /\ of' = f /\ spliced' = FALSE /\ late' = FALSE
        /\ UNCHANGED <<log, size, newer, summary, asked, failed, scanErrors>>
    BY DEF FirstPaint, Answers, TailPage, logVars, sumVars
  <1>2. size[f] \in Nat /\ Len(log[f]) \in 0..MaxRecords /\ Len(log[f]) \in Nat
        /\ 3 * Len(log[f]) - 2 <= size[f] /\ size[f] <= 3 * Len(log[f])
    BY LogType
  <1>3. p.start \in Nat /\ p.more \in BOOLEAN /\ p.gaveUp \in BOOLEAN
    BY <1>2, BackwardIs
  <1>4. PICK ks \in Seq(Nat) :
           /\ p.turns = Of(f, ks)
           /\ \A i \in 1..Len(ks) : ks[i] \in Turns(f, Low(size[f]), size[f])
           /\ \A i, j \in 1..Len(ks) : i < j => ks[i] < ks[j]
           /\ \A k \in Turns(f, 0, size[f]) :
                 \/ \E i \in 1..Len(ks) : ks[i] = k
                 \/ /\ p.more \/ p.gaveUp
                    /\ p.more => 3 * k - 1 <= p.start
                    /\ \A i \in 1..Len(ks) : k < ks[i]
           /\ p.more => Len(ks) > 0 /\ p.start > 0 /\ p.start < 3 * (ks[1] - 1)
    BY <1>2, BackwardIs
  <1> HIDE DEF p
  <1>5. /\ Of(f, ks) \in Seq(File \X (1..MaxRecords)) /\ Len(Of(f, ks)) = Len(ks)
        /\ DOMAIN Of(f, ks) = 1..Len(ks) /\ Len(ks) \in Nat
        /\ \A i \in 1..Len(ks) : Of(f, ks)[i] = <<f, ks[i]>> /\ ks[i] \in Nat /\ ks[i] > 0
                                 /\ 3 * (ks[i] - 1) >= Low(size[f]) /\ 3 * ks[i] - 1 <= size[f]
    BY <1>2, <1>4, LowIs, ShownAs
  <1>6. /\ shown' \in Seq(File \X (1..MaxRecords)) /\ DOMAIN shown' = 1..Len(ks) /\ Len(shown') = Len(ks)
        /\ \A i \in 1..Len(ks) : shown'[i] = <<f, ks[i]>>
    BY <1>1, <1>4, <1>5
  <1>7. torn' \in 0..MaxRecords
    BY <1>1, <1>2, ScanBounds
  <1>8. TranscriptTypeOK'
    BY <1>1, <1>2, <1>3, <1>6, <1>7, RequestType DEF TranscriptTypeOK
  <1>9. SummaryInv'
    BY <1>1, SummaryKept
  <1>10. TabInv'
    BY <1>1, RequestType, ScanBounds DEF TabInv
  <1>11. ASSUME NEW i \in 1..Len(ks)
         PROVE  3 * (ks[i] - 1) < size[f] /\ 3 * ks[i] - 1 <= size[f]
    <2>1. ks[i] \in Nat /\ 3 * ks[i] - 1 <= size[f]
      BY <1>5
    <2> QED
      BY <1>2, <2>1
  <1>12. size[f] % 3 = 1 => torn' = Len(log[f]) /\ size[f] = 3 * Len(log[f]) - 2
    <2>1. size[f] % 3 = 1 => size[f] = 3 * Len(log[f]) - 2
      BY <1>2
    <2>2. size[f] % 3 = 1 => torn' = Len(log[f])
      BY <1>1 DEF Cut, Line
    <2> QED
      BY <2>1, <2>2
  <1>13. ASSUME NEW k \in Turns(f, 0, size[f])
         PROVE  \/ \E i \in DOMAIN shown' : shown'[i][2] = k
                \/ /\ \A i \in DOMAIN shown' : k < shown'[i][2]
                   /\ more' \/ gaveUp'
                   /\ more' => 3 * k - 1 <= prev'
    <2>1. \/ \E i \in 1..Len(ks) : ks[i] = k
          \/ /\ more' \/ gaveUp'
             /\ more' => 3 * k - 1 <= prev'
             /\ \A i \in 1..Len(ks) : k < ks[i]
      BY <1>1, <1>4
    <2>2. DOMAIN shown' = 1..Len(ks)
      BY <1>6
    <2>3. ASSUME NEW i \in 1..Len(ks) PROVE shown'[i][2] = ks[i]
      <3>1. shown'[i] = <<f, ks[i]>>
        BY <1>6
      <3> QED
        BY <3>1
    <2> QED
      BY <2>1, <2>2, <2>3
  <1>14. Readable' \subseteq Turns(f, 0, size[f])
    BY <1>1 DEF Readable, Turns
  <1>15. more' => shown' # <<>> /\ prev' > 0 /\ prev' < 3 * (shown'[1][2] - 1)
    <2> SUFFICES ASSUME more'
                 PROVE  shown' # <<>> /\ prev' > 0 /\ prev' < 3 * (shown'[1][2] - 1)
      OBVIOUS
    <2>1. Len(ks) > 0 /\ prev' > 0 /\ prev' < 3 * (ks[1] - 1)
      BY <1>1, <1>4
    <2>2. 1 \in 1..Len(ks)
      BY <1>5, <2>1
    <2> QED
      BY <1>6, <2>1, <2>2
  <1>16. ScreenInv'
    <2>1. \A i \in DOMAIN shown' : /\ shown'[i][1] = f
                                   /\ 3 * (shown'[i][2] - 1) < size[f]
                                   /\ 3 * shown'[i][2] - 1 <= size[f]
      BY <1>6, <1>11
    <2>2. \A i, j \in DOMAIN shown' : i < j => shown'[i][2] < shown'[j][2]
      BY <1>4, <1>6
    <2>3. size[f] <= size[f] /\ (size[f] % 3 = 1 => size[f] = 3 * torn' - 2)
      BY <1>2, <1>12
    <2>4. \A k \in Readable' : OnScreen(k)' \/ (/\ \A i \in DOMAIN shown' : k < shown'[i][2]
                                                /\ more' \/ gaveUp'
                                                /\ more' => 3 * k - 1 <= prev')
      BY <1>13, <1>14 DEF OnScreen
    <2> QED
      BY <1>1, <1>15, <2>1, <2>2, <2>3, <2>4, RequestType DEF ScreenInv, Line
  <1> QED
    BY <1>8, <1>9, <1>10, <1>16

-----------------------------------------------------------------------------
\* What is on the screen is of numbered records.
LEMMA ShownType ==
    ASSUME TranscriptTypeOK
    PROVE  /\ shown \in Seq(File \X (1..MaxRecords)) /\ Len(shown) \in Nat /\ DOMAIN shown = 1..Len(shown)
           /\ \A i \in 1..Len(shown) : shown[i][2] \in Nat /\ shown[i][2] > 0
           /\ shown = <<>> <=> Len(shown) = 0
  <1>1. shown \in Seq(File \X (1..MaxRecords))
    BY DEF TranscriptTypeOK
  <1>2. Len(shown) \in Nat /\ DOMAIN shown = 1..Len(shown) /\ (shown = <<>> <=> Len(shown) = 0)
    BY <1>1, LenProperties, EmptySeq
  <1>3. \A i \in 1..Len(shown) : shown[i] \in File \X (1..MaxRecords)
    BY <1>1
  <1>4. MaxRecords \in Nat
    BY ScanBounds
  <1> QED
    BY <1>1, <1>2, <1>3, <1>4

LEMMA PollStep ==
    ASSUME TranscriptInv, NEW f \in File, Poll(f)
    PROVE  TranscriptInv'
  <1> USE DEF TranscriptInv
  <1> DEFINE at == request.at
             z == size[f]
             ks == First(Limit, Ascending(Turns(f, at, z)))
             n == Len(ks)
             m == Len(shown)
             t == IF at > z THEN Backward(f, z).turns ELSE Of(f, ks)
  <1>1. /\ request.kind = "poll" /\ request' = NoRequest /\ Spliced(f)
        /\ shown' = shown \o t
        /\ cursor' = IF at > z THEN z ELSE Watermark(f, at, ks)
        /\ UNCHANGED <<log, size, newer, summary, asked, failed, prev, more, torn, gaveUp, scanErrors>>
    BY DEF Poll, Answers, TailPage, logVars, sumVars
  <1>2. z \in Nat /\ at \in Nat
    BY LogType, RequestType
  <1>3. /\ ks \in Seq(Nat) /\ n \in Nat /\ (ks = <<>> <=> n = 0)
        /\ \A i \in 1..n : ks[i] \in Turns(f, at, z)
        /\ \A i, j \in 1..n : i < j => ks[i] < ks[j]
        /\ \A k \in Turns(f, at, z) : (\E i \in 1..n : ks[i] = k) \/ (n > 0 /\ ks[n] < k)
    BY <1>2, ForwardIs
  <1> HIDE DEF ks
  <1>4. /\ Of(f, ks) \in Seq(File \X (1..MaxRecords)) /\ Len(Of(f, ks)) = n
        /\ DOMAIN Of(f, ks) = 1..n
        /\ \A i \in 1..n : Of(f, ks)[i] = <<f, ks[i]>> /\ ks[i] \in Nat /\ ks[i] > 0
                           /\ 3 * (ks[i] - 1) >= at /\ 3 * ks[i] - 1 <= z
    <2>1. at \in Nat /\ z \in Nat /\ ks \in Seq(Nat) /\ \A i \in 1..Len(ks) : ks[i] \in Turns(f, at, z)
      BY <1>2, <1>3
    <2> HIDE DEF t, at, z, n, m
    <2>2. PICK a \in Nat, y \in Nat, bs \in Seq(Nat) : a = at /\ y = z /\ bs = ks
      BY <2>1
    <2>3. \A i \in 1..Len(bs) : bs[i] \in Turns(f, a, y)
      BY <2>1, <2>2
    <2>4. Of(f, bs) \in Seq(File \X (1..MaxRecords))
      BY <2>3, ShownAs
    <2>5. Len(Of(f, bs)) = Len(bs) /\ DOMAIN Of(f, bs) = 1..Len(bs)
      BY OfIs
    <2>6. \A i \in 1..Len(bs) : Of(f, bs)[i] = <<f, bs[i]>> /\ bs[i] \in Nat /\ bs[i] > 0
                                /\ 3 * (bs[i] - 1) >= a /\ 3 * bs[i] - 1 <= y
      BY <2>3, ShownAs
    <2> QED
      BY <2>2, <2>4, <2>5, <2>6 DEF n
  <1>5. t \in Seq(File \X (1..MaxRecords))
    <2>1. CASE at > z
      <3>1. PICK bs \in Seq(Nat) : /\ Backward(f, z).turns = Of(f, bs)
                                   /\ \A i \in 1..Len(bs) : bs[i] \in Turns(f, Low(z), z)
        BY <1>2, BackwardIs
      <3>2. Of(f, bs) \in Seq(File \X (1..MaxRecords))
        BY <1>2, <3>1, LowIs, ShownAs
      <3> QED
        BY <2>1, <3>1, <3>2
    <2>2. CASE ~(at > z)
      BY <1>4, <2>2
    <2> QED
      BY <2>1, <2>2
  <1>6. n # 0 => n \in 1..n
    BY <1>3
  <1> DEFINE end == IF n = 0 THEN at ELSE IF 3 * ks[n] <= z THEN 3 * ks[n] ELSE z
  <1>7. Watermark(f, at, ks) = end /\ end \in Nat
    <2>1. Watermark(f, at, ks) = end
      BY <1>3 DEF Watermark, Line
    <2>2. n # 0 => ks[n] \in Nat
      BY <1>4, <1>6
    <2> HIDE DEF n, at, z, t
    <2>3. end \in Nat
      BY <1>2, <2>2
    <2> QED
      BY <2>1, <2>3
  <1> HIDE DEF t, n
  <1>8. /\ shown \in Seq(File \X (1..MaxRecords)) /\ m \in Nat /\ DOMAIN shown = 1..m
        /\ \A i \in 1..m : shown[i][2] \in Nat /\ shown[i][2] > 0
        /\ shown = <<>> <=> m = 0
    BY ShownType
  <1> HIDE DEF m
  <1>9. shown' \in Seq(File \X (1..MaxRecords))
    BY <1>1, <1>5, <1>8, ConcatProperties
  <1>10. of' = (IF of = NoFile THEN f ELSE of) /\ spliced' = (spliced \/ f # of') /\ late' = (late \/ request.late)
    BY <1>1 DEF Spliced
  <1>11. cursor' \in Nat
    BY <1>1, <1>2, <1>7
  <1>12. TranscriptTypeOK'
    <2>1. of' \in File \cup {NoFile} /\ spliced' \in BOOLEAN /\ late' \in BOOLEAN
      BY <1>10, RequestType DEF TranscriptTypeOK
    <2> QED
      BY <1>1, <1>9, <1>11, <2>1, RequestType DEF TranscriptTypeOK
  <1>13. SummaryInv'
    BY <1>1, SummaryKept
  <1>14. TabInv'
    <2>1. of' # NoFile
      BY <1>10, ScanBounds DEF TranscriptTypeOK
    <2> QED
      BY <1>1, <2>1, RequestType DEF TabInv
  <1>15. ScreenInv'
    <2> SUFFICES ASSUME of' # NoFile, ~spliced', ~late'
                 PROVE  ScreenInv'
      BY DEF ScreenInv
    <2>1. of = f /\ of' = f /\ ~spliced /\ ~late /\ ~request.late /\ of # NoFile
      BY <1>1, <1>10, ScanBounds DEF TabInv
    <2>2. at = cursor /\ cursor <= z /\ (cursor % 3 = 1 => cursor = 3 * torn - 2) /\ cursor \in Nat
      BY <1>1, <2>1 DEF ScreenInv, Line, TranscriptTypeOK
    <2>3. shown' = shown \o Of(f, ks) /\ cursor' = end
      BY <1>1, <1>2, <1>7, <2>2 DEF t
    <2>4. cursor <= end /\ end <= z /\ (end % 3 = 1 => end = 3 * torn - 2)
          /\ (n # 0 => end <= 3 * ks[n])
      <3>1. CASE n = 0
        BY <2>2, <3>1
      <3>2. CASE n # 0
        <4>1. ks[n] \in Nat /\ ks[n] > 0 /\ 3 * (ks[n] - 1) >= at /\ 3 * ks[n] - 1 <= z
          BY <1>4, <1>6, <3>2
        <4>2. end = 3 * ks[n] \/ end = 3 * ks[n] - 1
          BY <1>2, <3>2, <4>1
        <4>3. end % 3 # 1
          BY <4>1, <4>2
        <4> QED
          BY <1>2, <2>2, <3>2, <4>1, <4>2, <4>3
      <3> QED
        BY <3>1, <3>2
    <2>5. ASSUME NEW i \in 1..n
          PROVE  3 * (ks[i] - 1) < end /\ cursor <= 3 * (ks[i] - 1)
      <3>1. ks[i] \in Nat /\ 3 * (ks[i] - 1) >= at /\ 3 * ks[i] - 1 <= z
        BY <1>4
      <3>2. ks[n] \in Nat /\ n # 0 /\ (i = n \/ ks[i] < ks[n])
        <4>1. n # 0 /\ n \in 1..n /\ (i = n \/ i < n)
          BY <1>3 DEF n
        <4> QED
          BY <1>3, <1>4, <4>1 DEF n
      <3> QED
        BY <1>2, <2>2, <3>1, <3>2
    <2> HIDE DEF end
    <2>6. /\ DOMAIN shown' = 1..(m + n) /\ n \in Nat
          /\ \A i \in 1..m : shown'[i] = shown[i] /\ i \in 1..(m + n)
          /\ \A i \in 1..n : shown'[m + i] = <<f, ks[i]>> /\ m + i \in 1..(m + n)
          /\ \A i \in 1..(m + n) : i \in 1..m \/ \E j \in 1..n : i = m + j
      <3> DEFINE u == Of(f, ks)
      <3>1. Len(u) = n /\ Len(shown) = m /\ n \in Nat /\ shown' = shown \o u
        BY <1>3, <1>4, <2>3 DEF m, n
      <3>2. u \in Seq(File \X (1..MaxRecords)) /\ \A i \in 1..n : u[i] = <<f, ks[i]>>
        BY <1>4
      <3> HIDE DEF u
      <3>3. /\ DOMAIN (shown \o u) = 1..(Len(shown) + Len(u))
            /\ \A i \in 1..Len(shown) : (shown \o u)[i] = shown[i] /\ i \in 1..(Len(shown) + Len(u))
            /\ \A i \in 1..Len(u) : /\ (shown \o u)[Len(shown) + i] = u[i]
                                    /\ Len(shown) + i \in 1..(Len(shown) + Len(u))
            /\ \A i \in 1..(Len(shown) + Len(u)) :
                  i \in 1..Len(shown) \/ \E j \in 1..Len(u) : i = Len(shown) + j
        BY <1>8, <3>2, ConcatIs
      <3> QED
        BY <3>1, <3>2, <3>3
    <2>7. \A i \in 1..m : /\ shown[i][1] = f /\ 3 * (shown[i][2] - 1) < cursor
                          /\ 3 * shown[i][2] - 1 <= z
      BY <1>8, <2>1 DEF ScreenInv, Line
    <2>8. ASSUME NEW i \in 1..(m + n)
          PROVE  /\ shown'[i][1] = f /\ 3 * (shown'[i][2] - 1) < end
                 /\ 3 * shown'[i][2] - 1 <= z
      <3>1. CASE i \in 1..m
        <4>1. shown'[i] = shown[i] /\ shown[i][2] \in Nat
          BY <1>8, <2>6, <3>1
        <4>2. shown[i][1] = f /\ 3 * (shown[i][2] - 1) < cursor /\ 3 * shown[i][2] - 1 <= z
          BY <2>7, <3>1
        <4>3. end \in Nat
          BY <1>7
        <4> QED
          BY <2>2, <2>4, <4>1, <4>2, <4>3
      <3>2. CASE \E j \in 1..n : i = m + j
        <4>1. PICK j \in 1..n : i = m + j
          BY <3>2
        <4>2. shown'[i] = <<f, ks[j]>>
          BY <2>6, <4>1
        <4>3. 3 * (ks[j] - 1) < end /\ 3 * ks[j] - 1 <= z
          BY <1>4, <2>5
        <4> QED
          BY <4>2, <4>3
      <3> QED
        BY <2>6, <3>1, <3>2
    <2>9. ASSUME NEW i \in 1..(m + n), NEW j \in 1..(m + n), i < j
          PROVE  shown'[i][2] < shown'[j][2]
      <3>1. CASE i \in 1..m /\ j \in 1..m
        BY <1>8, <2>1, <2>6, <2>9, <3>1 DEF ScreenInv
      <3>2. CASE i \in 1..m /\ \E b \in 1..n : j = m + b
        <4>1. PICK b \in 1..n : j = m + b
          BY <3>2
        <4>2. shown'[i] = shown[i] /\ shown'[j][2] = ks[b] /\ shown[i][2] \in Nat /\ ks[b] \in Nat
          <5>1. shown'[i] = shown[i] /\ shown[i][2] \in Nat
            BY <1>8, <2>6, <3>2
          <5>2. shown'[j] = <<f, ks[b]>> /\ ks[b] \in Nat
            BY <1>4, <2>6, <4>1
          <5> QED
            BY <5>1, <5>2
        <4>3. 3 * (shown[i][2] - 1) < cursor /\ cursor <= 3 * (ks[b] - 1)
          BY <2>5, <2>7, <3>2
        <4> QED
          BY <2>2, <4>2, <4>3
      <3>3. CASE i \notin 1..m
        <4>1. PICK a \in 1..n : i = m + a
          BY <2>6, <3>3
        <4>2. j \notin 1..m
          BY <1>8, <2>6, <2>9, <3>3
        <4>3. PICK b \in 1..n : j = m + b
          BY <2>6, <4>2
        <4>4. a < b
          BY <1>8, <2>6, <2>9, <4>1, <4>3
        <4>5. shown'[i][2] = ks[a] /\ shown'[j][2] = ks[b]
          BY <2>6, <4>1, <4>3
        <4> QED
          BY <1>3, <4>4, <4>5 DEF n
      <3> QED
        BY <2>6, <3>1, <3>2, <3>3
    <2>10. Readable' = Readable
      BY <1>1, <2>1 DEF Readable, Turns
    <2> DEFINE Seen(k) == \E i \in 1..(m + n) : shown'[i][2] = k
    <2>11. (\A i \in 1..m : Seen(shown[i][2])) /\ (\A i \in 1..n : Seen(ks[i]))
      BY <2>6
    <2>12. more' => shown' # <<>> /\ prev' > 0 /\ prev' < 3 * (shown'[1][2] - 1)
      <3> SUFFICES ASSUME more
                   PROVE  shown' # <<>> /\ prev > 0 /\ prev < 3 * (shown'[1][2] - 1)
        BY <1>1
      <3>1. shown # <<>> /\ prev > 0 /\ prev < 3 * (shown[1][2] - 1)
        BY <2>1 DEF ScreenInv, Line
      <3>2. 1 \in 1..m
        BY <1>8, <3>1
      <3>3. shown'[1] = shown[1] /\ 1 \in DOMAIN shown'
        BY <2>6, <3>2
      <3> QED
        BY <3>1, <3>3
    <2>13. ASSUME NEW k \in Readable
           PROVE  \/ 3 * (k - 1) >= end \/ Seen(k)
                  \/ /\ \A i \in 1..(m + n) : k < shown'[i][2]
                     /\ more \/ gaveUp
                     /\ more => 3 * k - 1 <= prev
      <3> HIDE DEF Seen
      <3>0. k \in Nat /\ k > 0 /\ 3 * k - 1 <= z /\ k \in Turns(f, 0, z)
        BY <2>1, ReadableIs
      <3>1. \/ 3 * (k - 1) >= cursor \/ OnScreen(k)
            \/ /\ \A i \in DOMAIN shown : k < shown[i][2]
               /\ more \/ gaveUp
               /\ more => 3 * k - 1 <= prev
        BY <2>1 DEF ScreenInv, Line
      <3>2. CASE 3 * (k - 1) >= cursor
        <4>1. k \in Turns(f, at, z)
          BY <1>2, <2>2, <3>0, <3>2, TurnsAre
        <4>2. CASE \E i \in 1..n : ks[i] = k
          BY <2>11, <4>2
        <4>3. CASE n > 0 /\ ks[n] < k
          <5>1. end <= 3 * ks[n] /\ ks[n] \in Nat /\ end \in Nat
            BY <1>3, <1>4, <1>6, <1>7, <2>4, <4>3 DEF n
          <5> QED
            BY <3>0, <4>3, <5>1
        <4> QED
          BY <1>3, <4>1, <4>2, <4>3 DEF n
      <3>3. CASE OnScreen(k)
        BY <1>8, <2>11, <3>3 DEF OnScreen
      <3>4. CASE ~(3 * (k - 1) >= cursor) /\ \A i \in DOMAIN shown : k < shown[i][2]
        <4>1. ASSUME NEW i \in 1..(m + n)
              PROVE  k < shown'[i][2]
          <5>1. CASE i \in 1..m
            BY <1>8, <2>6, <3>4, <5>1
          <5>2. CASE \E j \in 1..n : i = m + j
            <6>1. PICK j \in 1..n : i = m + j
              BY <5>2
            <6>2. shown'[i][2] = ks[j] /\ ks[j] \in Nat /\ cursor <= 3 * (ks[j] - 1)
              BY <1>4, <2>5, <2>6, <6>1
            <6> QED
              BY <2>2, <3>0, <3>4, <6>2
          <5> QED
            BY <2>6, <5>1, <5>2
        <4>2. OnScreen(k) => ~(\A i \in DOMAIN shown : k < shown[i][2])
          BY <3>0 DEF OnScreen
        <4> QED
          BY <3>1, <3>4, <4>1, <4>2
      <3> QED
        BY <3>1, <3>2, <3>3, <3>4
    <2>14. \A k \in Readable' :
              \/ 3 * (k - 1) >= cursor' \/ OnScreen(k)'
              \/ /\ \A i \in DOMAIN shown' : k < shown'[i][2]
                 /\ more' \/ gaveUp'
                 /\ more' => 3 * k - 1 <= prev'
      BY <1>1, <2>3, <2>6, <2>10, <2>13 DEF OnScreen
    <2> QED
      BY <1>1, <2>1, <2>3, <2>4, <2>6, <2>8, <2>9, <2>12, <2>14, RequestType DEF ScreenInv, Line
  <1> QED
    BY <1>12, <1>13, <1>14, <1>15

-----------------------------------------------------------------------------
LEMMA OlderStep ==
    ASSUME TranscriptInv, NEW f \in File, Older(f)
    PROVE  TranscriptInv'
  <1> USE DEF TranscriptInv
  <1> DEFINE at == request.at
             z == size[f]
             end == IF at > 0 /\ at < z THEN at ELSE z
             p == Backward(f, end)
             m == Len(shown)
  <1>1. /\ request.kind = "older" /\ request' = NoRequest
        /\ prev' = p.start /\ more' = p.more /\ gaveUp' = p.gaveUp
        /\ shown' = IF request.late THEN shown ELSE p.turns \o shown
        /\ IF request.late THEN UNCHANGED <<of, spliced, late>> ELSE Spliced(f)
        /\ UNCHANGED <<log, size, newer, summary, asked, failed, cursor, torn, scanErrors>>
    BY DEF Older, Answers, logVars, sumVars
  <1>2. z \in Nat /\ at \in Nat
    BY LogType, RequestType
  <1>3. end \in Nat /\ end <= z
    <2> HIDE DEF at, z
    <2> QED
      BY <1>2
  <1> HIDE DEF end
  <1>4. p.start \in Nat /\ p.more \in BOOLEAN /\ p.gaveUp \in BOOLEAN
    BY <1>3, BackwardIs
  <1>5. PICK ks \in Seq(Nat) :
           /\ p.turns = Of(f, ks)
           /\ \A i \in 1..Len(ks) : ks[i] \in Turns(f, Low(end), end)
           /\ \A i, j \in 1..Len(ks) : i < j => ks[i] < ks[j]
           /\ \A k \in Turns(f, 0, end) :
                 \/ \E i \in 1..Len(ks) : ks[i] = k
                 \/ /\ p.more \/ p.gaveUp
                    /\ p.more => 3 * k - 1 <= p.start
                    /\ \A i \in 1..Len(ks) : k < ks[i]
           /\ p.more => Len(ks) > 0 /\ p.start > 0 /\ p.start < 3 * (ks[1] - 1)
    BY <1>3, BackwardIs
  <1> HIDE DEF p
  <1> DEFINE n == Len(ks)
             u == Of(f, ks)
  <1>6. /\ u \in Seq(File \X (1..MaxRecords)) /\ Len(u) = n /\ n \in Nat
        /\ \A i \in 1..n : u[i] = <<f, ks[i]>> /\ ks[i] \in Nat /\ ks[i] > 0 /\ 3 * ks[i] - 1 <= end
    <2>1. PICK a \in Nat : a = Low(end)
      BY <1>3, LowIs
    <2>2. \A i \in 1..Len(ks) : ks[i] \in Turns(f, a, end)
      BY <1>5, <2>1
    <2>3. Of(f, ks) \in Seq(File \X (1..MaxRecords))
      BY <1>3, <2>2, ShownAs
    <2>4. Len(Of(f, ks)) = Len(ks) /\ Len(ks) \in Nat
      BY OfIs
    <2>5. \A i \in 1..Len(ks) : Of(f, ks)[i] = <<f, ks[i]>> /\ ks[i] \in Nat /\ ks[i] > 0
                                /\ 3 * (ks[i] - 1) >= a /\ 3 * ks[i] - 1 <= end
      BY <1>3, <2>2, ShownAs
    <2> QED
      BY <2>3, <2>4, <2>5
  <1> HIDE DEF n
  <1>7. /\ shown \in Seq(File \X (1..MaxRecords)) /\ m \in Nat /\ DOMAIN shown = 1..m
        /\ \A i \in 1..m : shown[i][2] \in Nat /\ shown[i][2] > 0
        /\ shown = <<>> <=> m = 0
    BY ShownType
  <1>8. u \o shown \in Seq(File \X (1..MaxRecords))
    BY <1>6, <1>7, ConcatProperties
  <1>9. ~request.late => /\ of' = (IF of = NoFile THEN f ELSE of) /\ spliced' = (spliced \/ f # of')
                         /\ late' = (late \/ request.late)
    BY <1>1 DEF Spliced
  <1>10. TranscriptTypeOK'
    <2>1. of' \in File \cup {NoFile} /\ spliced' \in BOOLEAN /\ late' \in BOOLEAN
      BY <1>1, <1>9, RequestType DEF TranscriptTypeOK
    <2>2. shown' \in Seq(File \X (1..MaxRecords))
      BY <1>1, <1>5, <1>7, <1>8
    <2> QED
      BY <1>1, <1>4, <2>1, <2>2, RequestType DEF TranscriptTypeOK
  <1>11. SummaryInv'
    BY <1>1, SummaryKept
  <1>12. TabInv'
    <2>1. CASE request.late
      BY <1>1, <2>1, RequestType DEF TabInv
    <2>2. CASE ~request.late
      <3>1. of' # NoFile
        BY <1>9, <2>2, ScanBounds DEF TranscriptTypeOK
      <3> QED
        BY <1>1, <3>1, RequestType DEF TabInv
    <2> QED
      BY <2>1, <2>2
  <1>13. ScreenInv'
    <2> SUFFICES ASSUME of' # NoFile, ~spliced', ~late'
                 PROVE  ScreenInv'
      BY DEF ScreenInv
    <2>1. ~request.late /\ of = f /\ of' = f /\ ~spliced /\ ~late /\ of # NoFile
      <3>1. ~request.late
        BY <1>1 DEF TabInv
      <3>2. of # NoFile
        BY <1>1, <3>1 DEF TabInv
      <3> QED
        BY <1>9, <3>1, <3>2
    <2>2. at = prev /\ more /\ m # 0 /\ prev > 0 /\ prev < 3 * (shown[1][2] - 1) /\ prev \in Nat
          /\ cursor <= z /\ (cursor % 3 = 1 => cursor = 3 * torn - 2) /\ cursor \in Nat
      BY <1>1, <1>7, <2>1 DEF ScreenInv, Line, TranscriptTypeOK
    <2>3. \A i \in 1..m : /\ shown[i][1] = f /\ 3 * (shown[i][2] - 1) < cursor
                          /\ 3 * shown[i][2] - 1 <= z
      BY <1>7, <2>1 DEF ScreenInv, Line
    <2>4. 1 \in 1..m /\ shown[1][2] \in Nat
      BY <1>7, <2>2
    <2>5. end = prev
      <3> HIDE DEF at, z, m
      <3>1. 3 * shown[1][2] - 1 <= z
        BY <2>3, <2>4
      <3> QED
        BY <1>2, <2>2, <2>4, <3>1 DEF end
    <2>6. ASSUME NEW j \in 1..m PROVE shown[1][2] <= shown[j][2]
      <3>1. j = 1 \/ 1 < j
        BY <1>7
      <3>2. 1 < j => shown[1][2] < shown[j][2]
        BY <1>7, <2>1, <2>4 DEF ScreenInv
      <3>3. shown[1][2] \in Nat /\ shown[j][2] \in Nat
        BY <1>7, <2>4
      <3> QED
        BY <3>1, <3>2, <3>3
    <2>7. /\ DOMAIN shown' = 1..(n + m)
          /\ \A i \in 1..n : shown'[i] = <<f, ks[i]>> /\ i \in 1..(n + m)
          /\ \A i \in 1..m : shown'[n + i] = shown[i] /\ n + i \in 1..(n + m)
          /\ \A i \in 1..(n + m) : i \in 1..n \/ \E j \in 1..m : i = n + j
      <3>1. Len(u) = n /\ Len(shown) = m /\ shown' = u \o shown
        BY <1>1, <1>5, <1>6, <2>1
      <3>2. \A i \in 1..n : u[i] = <<f, ks[i]>>
        BY <1>6
      <3> HIDE DEF u, m
      <3>3. /\ DOMAIN (u \o shown) = 1..(Len(u) + Len(shown))
            /\ \A i \in 1..Len(u) : (u \o shown)[i] = u[i] /\ i \in 1..(Len(u) + Len(shown))
            /\ \A i \in 1..Len(shown) : /\ (u \o shown)[Len(u) + i] = shown[i]
                                        /\ Len(u) + i \in 1..(Len(u) + Len(shown))
            /\ \A i \in 1..(Len(u) + Len(shown)) :
                  i \in 1..Len(u) \/ \E j \in 1..Len(shown) : i = Len(u) + j
        BY <1>6, <1>7, ConcatIs
      <3> QED
        BY <3>1, <3>2, <3>3
    <2> HIDE DEF u, m, at, z
    <2>8. ASSUME NEW i \in 1..n
          PROVE  /\ ks[i] \in Nat /\ ks[i] < shown[1][2]
                 /\ 3 * (ks[i] - 1) < cursor /\ 3 * ks[i] - 1 <= z
      <3>1. ks[i] \in Nat /\ 3 * ks[i] - 1 <= prev
        BY <1>6, <2>5
      <3>2. PICK b \in Nat : b = shown[1][2]
        BY <2>4
      <3>3. 3 * (b - 1) < cursor /\ prev < 3 * (b - 1) /\ cursor <= z
        BY <2>2, <2>3, <2>4, <3>2
      <3>4. prev \in Nat /\ cursor \in Nat /\ z \in Nat
        BY <1>2, <2>2
      <3>5. ks[i] < b /\ 3 * (ks[i] - 1) < cursor /\ 3 * ks[i] - 1 <= z
        BY <3>1, <3>3, <3>4
      <3> QED
        BY <3>1, <3>2, <3>5
    <2>9. ASSUME NEW i \in 1..(n + m)
          PROVE  /\ shown'[i][1] = f /\ 3 * (shown'[i][2] - 1) < cursor
                 /\ 3 * shown'[i][2] - 1 <= z
      <3>1. CASE i \in 1..n
        <4>1. shown'[i] = <<f, ks[i]>>
          BY <2>7, <3>1
        <4> QED
          BY <2>8, <3>1, <4>1
      <3>2. CASE \E j \in 1..m : i = n + j
        BY <2>3, <2>7, <3>2
      <3> QED
        BY <2>7, <3>1, <3>2
    <2>10. ASSUME NEW i \in 1..(n + m), NEW j \in 1..(n + m), i < j
           PROVE  shown'[i][2] < shown'[j][2]
      <3>1. CASE i \in 1..n /\ j \in 1..n
        <4>1. shown'[i][2] = ks[i] /\ shown'[j][2] = ks[j]
          BY <2>7, <3>1
        <4> QED
          BY <1>5, <2>10, <3>1, <4>1 DEF n
      <3>2. CASE i \in 1..n /\ \E b \in 1..m : j = n + b
        <4>1. PICK b \in 1..m : j = n + b
          BY <3>2
        <4>2. shown'[i] = <<f, ks[i]>> /\ shown'[j] = shown[b]
          BY <2>7, <3>2, <4>1
        <4>3. shown[b][2] \in Nat /\ shown[1][2] <= shown[b][2]
          BY <1>7, <2>6
        <4>4. ks[i] \in Nat /\ ks[i] < shown[1][2]
          BY <2>8, <3>2
        <4>5. ks[i] < shown[b][2]
          BY <2>4, <4>3, <4>4
        <4> QED
          BY <4>2, <4>5
      <3>3. CASE i \notin 1..n
        <4>1. PICK a \in 1..m : i = n + a
          BY <2>7, <3>3
        <4>2. j \notin 1..n
          BY <1>6, <1>7, <2>10, <3>3
        <4>3. PICK b \in 1..m : j = n + b
          BY <2>7, <4>2
        <4>4. a < b
          BY <1>6, <1>7, <2>10, <4>1, <4>3
        <4>5. shown'[i] = shown[a] /\ shown'[j] = shown[b]
          BY <2>7, <4>1, <4>3
        <4> QED
          BY <1>7, <2>1, <4>4, <4>5 DEF ScreenInv
      <3> QED
        BY <2>7, <3>1, <3>2, <3>3
    <2>11. Readable' = Readable
      BY <1>1, <2>1 DEF Readable, Turns
    <2> DEFINE Seen(k) == \E i \in 1..(n + m) : shown'[i][2] = k
    <2>12. (\A i \in 1..m : Seen(shown[i][2])) /\ (\A i \in 1..n : Seen(ks[i]))
      BY <2>7
    <2>13. more' => shown' # <<>> /\ prev' > 0 /\ prev' < 3 * (shown'[1][2] - 1)
      <3> SUFFICES ASSUME more'
                   PROVE  shown' # <<>> /\ prev' > 0 /\ prev' < 3 * (shown'[1][2] - 1)
        OBVIOUS
      <3>1. n > 0 /\ prev' > 0 /\ prev' < 3 * (ks[1] - 1)
        BY <1>1, <1>5 DEF n
      <3>2. 1 \in 1..n
        BY <1>6, <3>1
      <3>3. shown'[1] = <<f, ks[1]>> /\ 1 \in DOMAIN shown'
        BY <2>7, <3>2
      <3> QED
        BY <3>1, <3>3
    <2>14. ASSUME NEW k \in Readable
           PROVE  \/ 3 * (k - 1) >= cursor \/ Seen(k)
                  \/ /\ \A i \in 1..(n + m) : k < shown'[i][2]
                     /\ more' \/ gaveUp'
                     /\ more' => 3 * k - 1 <= prev'
      <3> HIDE DEF Seen
      <3>0. k \in Nat /\ k \in Turns(f, 0, size[f])
        BY <2>1, ReadableIs
      <3>1. \/ 3 * (k - 1) >= cursor \/ OnScreen(k)
            \/ (\A i \in DOMAIN shown : k < shown[i][2]) /\ 3 * k - 1 <= prev
        BY <2>1, <2>2 DEF ScreenInv, Line
      <3>2. CASE OnScreen(k)
        BY <1>7, <2>12, <3>2 DEF OnScreen
      <3>3. CASE (\A i \in DOMAIN shown : k < shown[i][2]) /\ 3 * k - 1 <= prev
        <4>1. k \in Turns(f, 0, end)
          BY <1>3, <2>5, <3>0, <3>3 DEF Turns, Line
        <4>2. CASE \E i \in 1..n : ks[i] = k
          BY <2>12, <4>2
        <4>3. CASE /\ more' \/ gaveUp'
                   /\ more' => 3 * k - 1 <= prev'
                   /\ \A i \in 1..n : k < ks[i]
          <5>1. ASSUME NEW i \in 1..(n + m)
                PROVE  k < shown'[i][2]
            <6>1. CASE i \in 1..n
              <7>1. shown'[i] = <<f, ks[i]>>
                BY <2>7, <6>1
              <7> QED
                BY <4>3, <6>1, <7>1
            <6>2. CASE \E j \in 1..m : i = n + j
              <7>1. PICK j \in 1..m : i = n + j
                BY <6>2
              <7>2. shown'[i] = shown[j] /\ j \in DOMAIN shown
                BY <1>7, <2>7, <7>1
              <7> QED
                BY <3>3, <7>2
            <6> QED
              BY <2>7, <6>1, <6>2
          <5> QED
            BY <4>3, <5>1
        <4> QED
          BY <1>1, <1>5, <4>1, <4>2, <4>3 DEF n
      <3> QED
        BY <3>1, <3>2, <3>3
    <2>15. \A k \in Readable' :
              \/ 3 * (k - 1) >= cursor' \/ OnScreen(k)'
              \/ /\ \A i \in DOMAIN shown' : k < shown'[i][2]
                 /\ more' \/ gaveUp'
                 /\ more' => 3 * k - 1 <= prev'
      BY <1>1, <2>7, <2>11, <2>14 DEF OnScreen
    <2> QED
      BY <1>1, <2>1, <2>2, <2>7, <2>9, <2>10, <2>13, <2>15, RequestType DEF ScreenInv, Line, z
  <1> QED
    BY <1>10, <1>11, <1>12, <1>13

-----------------------------------------------------------------------------
LEMMA TranscriptStep ==
    ASSUME TranscriptInv, [TranscriptNext]_transcriptVars
    PROVE  TranscriptInv'
  <1>1. CASE Writes
    <2>1. PICK f \in File, kind \in {"turn", "other"}, bytes \in 1..3 : Write(f, kind, bytes)
      BY <1>1 DEF Writes, Line
    <2> QED
      BY <2>1, WriteStep
  <1>2. CASE Totals
    <2>1. CASE \E c \in Caller : Summarize(c)
      BY <2>1, SummarizeStep
    <2>2. CASE \E c \in Caller : SummarizeFails(c)
      BY <2>2, SummarizeFailsStep
    <2>3. CASE \E c \in Caller, f \in File : Stat(c, f)
      BY <2>3, StatStep
    <2> QED
      BY <1>2, <2>1, <2>2, <2>3 DEF Totals
  <1>3. CASE Chat
    <2>1. CASE AskTail \/ AskNew \/ AskOlder
      BY <2>1, AsksStep
    <2>2. CASE NoAnswer
      BY <2>2, NoAnswerStep
    <2>3. CASE Reset
      BY <2>3, ResetStep
    <2>4. CASE \E f \in File : FirstPaint(f)
      BY <2>4, FirstPaintStep
    <2>5. CASE \E f \in File : Poll(f)
      BY <2>5, PollStep
    <2>6. CASE \E f \in File : Older(f)
      BY <2>6, OlderStep
    <2> QED
      BY <1>3, <2>1, <2>2, <2>3, <2>4, <2>5, <2>6 DEF Chat
  <1>4. CASE UNCHANGED transcriptVars
    <2>1. UNCHANGED <<log, size, newer, summary, asked, failed, shown, cursor, prev, more, request, of,
                      spliced, late, torn, gaveUp, scanErrors>> /\ UNCHANGED chatVars
      BY <1>4 DEF transcriptVars, logVars, sumVars, chatVars
    <2>2. TranscriptTypeOK'
      BY <2>1 DEF TranscriptInv, TranscriptTypeOK
    <2>3. SummaryInv'
      BY <2>1, SummaryKept DEF TranscriptInv
    <2> QED
      BY <2>1, <2>2, <2>3, ScreenKept DEF TranscriptInv
  <1> QED
    BY <1>1, <1>2, <1>3, <1>4 DEF TranscriptNext

\* The inductive invariant of the transcripts: it holds whatever is written, by
\* however many callers the totals are asked for, and whatever the tab asks.
THEOREM TranscriptInvHolds == TranscriptSpec => []TranscriptInv
  <1>1. TranscriptInit => TranscriptInv
    BY TranscriptInitially
  <1>2. TranscriptInv /\ [TranscriptNext]_transcriptVars => TranscriptInv'
    BY TranscriptStep
  <1> QED
    BY <1>1, <1>2, PTL DEF TranscriptSpec

\* The variables of the transcripts, the totals and the Chat tab keep their types.
THEOREM TranscriptTypesAreKept == TranscriptSpec => []TranscriptTypeOK
  <1>1. TranscriptInv => TranscriptTypeOK
    BY DEF TranscriptInv
  <1> QED
    BY <1>1, TranscriptInvHolds, PTL

\* SummarizeFile's totals (claudelog.go): of a transcript of any length, written and
\* counted in any order, every turn up to where scanning stopped is counted once.
THEOREM SummariesAreExact == TranscriptSpec => []SummaryIsExact
  <1>1. TranscriptInv => SummaryIsExact
    BY DEF TranscriptInv, SummaryInv, SummaryIsExact, Line
  <1> QED
    BY <1>1, TranscriptInvHolds, PTL

LEMMA ScreenIsWhole == ASSUME TranscriptInv PROVE NothingIsSkipped
  <1> USE DEF TranscriptInv
  <1> SUFFICES ASSUME of # NoFile, ~spliced, ~late
               PROVE  NothingIsSkipped
    BY DEF NothingIsSkipped
  <1> DEFINE m == Len(shown)
             no(i) == shown[i][2]
  <1>1. of \in File /\ cursor \in Nat /\ prev \in Nat
    BY DEF TranscriptTypeOK
  <1>2. /\ m \in Nat /\ DOMAIN shown = 1..m /\ (shown = <<>> <=> m = 0)
        /\ \A i \in 1..m : no(i) \in Nat
    BY ShownType
  <1>3. /\ \A i \in 1..m : 3 * (no(i) - 1) < cursor
        /\ \A i, j \in 1..m : i < j => no(i) < no(j)
        /\ \A k \in Readable :
              \/ 3 * (k - 1) >= cursor \/ \E i \in 1..m : no(i) = k
              \/ (\A i \in 1..m : k < no(i)) /\ (more \/ gaveUp)
        /\ more => shown # <<>>
    BY <1>2 DEF ScreenInv, OnScreen, Line
  <1>4. \A k \in Readable : k \in Nat
    BY <1>1, ReadableIs
  <1> HIDE DEF m, no
  <1>5. ASSUME NEW i \in 1..(m - 1)
        PROVE  no(i) < no(i + 1) /\ Readable \cap (no(i) + 1)..(no(i + 1) - 1) = {}
    <2>1. i \in 1..m /\ i + 1 \in 1..m /\ i < i + 1
      BY <1>2
    <2>2. no(i) < no(i + 1)
      BY <1>3, <2>1
    <2>3. ASSUME NEW k \in Readable, k \in (no(i) + 1)..(no(i + 1) - 1)
          PROVE  FALSE
      <3>1. k \in Nat /\ no(i) < k /\ k < no(i + 1) /\ no(i) \in Nat /\ no(i + 1) \in Nat
        BY <1>2, <1>4, <2>1, <2>3
      <3>2. ~(3 * (k - 1) >= cursor)
        <4>1. 3 * (no(i + 1) - 1) < cursor
          BY <1>3, <2>1
        <4> QED
          BY <1>1, <3>1, <4>1
      <3>3. ~(k < no(i))
        BY <3>1
      <3>4. PICK j \in 1..m : no(j) = k
        BY <1>3, <2>1, <3>2, <3>3
      <3>5. j <= i \/ i + 1 <= j
        BY <1>2
      <3>6. j = i \/ j = i + 1 \/ j < i \/ i + 1 < j
        BY <1>2, <2>1, <3>5
      <3>7. CASE j < i
        <4>1. no(j) < no(i)
          BY <1>3, <2>1, <3>7
        <4> QED
          BY <3>1, <3>4, <4>1
      <3>8. CASE i + 1 < j
        <4>1. no(i + 1) < no(j)
          BY <1>3, <2>1, <3>8
        <4> QED
          BY <3>1, <3>4, <4>1
      <3>9. CASE j = i \/ j = i + 1
        BY <3>1, <3>4, <3>9
      <3> QED
        BY <3>6, <3>7, <3>8, <3>9
    <2> QED
      BY <2>2, <2>3
  <1>6. ASSUME m # 0, NEW k \in Readable, k > no(m)
        PROVE  3 * (k - 1) >= cursor
    <2>1. m \in 1..m
      BY <1>2, <1>6
    <2>2. k \in Nat /\ no(m) \in Nat /\ ~(k < no(m))
      BY <1>2, <1>4, <1>6, <2>1
    <2>3. ASSUME NEW i \in 1..m PROVE no(i) # k
      <3>1. i = m \/ i < m
        BY <1>2
      <3>2. no(i) \in Nat /\ (i = m \/ no(i) < no(m))
        BY <1>2, <1>3, <2>1, <3>1
      <3> QED
        BY <1>6, <2>2, <3>2
    <2> QED
      BY <1>3, <2>1, <2>2, <2>3
  <1>7. ASSUME m = 0, ~gaveUp, NEW k \in Readable
        PROVE  3 * (k - 1) >= cursor
    <2>1. ~more /\ 1..m = {}
      BY <1>2, <1>3, <1>7
    <2> QED
      BY <1>3, <1>7, <2>1
  <1>8. ASSUME m # 0, ~more, ~gaveUp, NEW k \in Readable
        PROVE  k >= no(1)
    <2>1. 1 \in 1..m
      BY <1>2, <1>8
    <2>2. k \in Nat /\ no(1) \in Nat /\ 3 * (no(1) - 1) < cursor
      BY <1>2, <1>3, <1>4, <2>1
    <2>3. CASE 3 * (k - 1) >= cursor
      BY <1>1, <2>2, <2>3
    <2>4. CASE \E i \in 1..m : no(i) = k
      <3>1. PICK i \in 1..m : no(i) = k
        BY <2>4
      <3>2. i = 1 \/ 1 < i
        BY <1>2
      <3>3. i = 1 \/ no(1) < no(i)
        BY <1>3, <2>1, <3>2
      <3> QED
        BY <2>2, <3>1, <3>3
    <2> QED
      BY <1>3, <1>8, <2>3, <2>4
  <1> QED
    BY <1>2, <1>5, <1>6, <1>7, <1>8 DEF NothingIsSkipped, Line, m, no

\* The Chat tab (index.html) and the pages it is sent (events.go): however long the
\* transcript and the pages, a tab that tails it, polls and pages back is shown every
\* turn between its oldest and its cursor, once and in order, and is told of the
\* beginning no sooner than it has it.
THEOREM TabsMissNothing == TranscriptSpec => []NothingIsSkipped
  <1>1. TranscriptInv => NothingIsSkipped
    BY ScreenIsWhole
  <1> QED
    BY <1>1, TranscriptInvHolds, PTL
=============================================================================
