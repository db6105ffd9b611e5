---------------------------- MODULE TasksProofs ----------------------------
(***************************************************************************)
(* Theorems about Tasks, for any tasks, update requests, tenants and bound *)
(* on failures: types, the notice of an end, and, for a tenant whose list  *)
(* holds every task, the mentions of quiet ones.                           *)
(***************************************************************************)
EXTENDS Tasks, FiniteSetTheorems, TLAPS

\* A request under way has read a row there was, and asks for what it has yet
\* to write.
RequestInv ==
    \A u \in Update :
        /\ req[u].stage # "idle" => req[u].before \in {"open", "done"}
        /\ req[u].stage = "read" => req[u].to \in {"open", "done"}

\* The updates of t that have written.
Past(t) == {u \in On(t) : req[u].stage \in {"written", "telling"}}

\* Those of them that will tell, or will if they find t ended.
Owes(t) ==
    {u \in Past(t) : req[u].stage = "written" => ~Ended(req[u].before)}

\* A task that has ended was told of, or somebody will; one that is open has no
\* update that takes it for ended.
LeastTask(t) ==
    /\ Ended(state[t]) => told[t] >= 1 \/ Owes(t) # {}
    /\ ~Ended(state[t]) =>
          \A u \in On(t) : req[u].stage = "read" => ~Ended(req[u].before)

\* At most one update has written, those that only read have read what is
\* there, and nobody has told while somebody still owes it.
MostTask(t) ==
    /\ \A u, v \in Past(t) : u = v
    /\ \A u \in On(t) : req[u].stage = "read" => (Ended(req[u].before) <=> Ended(state[t]))
    /\ Ended(state[t]) => told[t] <= 1 /\ (Owes(t) # {} => told[t] = 0)
    /\ ~Ended(state[t]) => told[t] = 0 /\ \A u \in Past(t) : req[u].stage = "written"

CleanTask(t) ==
    /\ t \notin untold \cup reopened => LeastTask(t)
    /\ t \notin raced \cup misread => MostTask(t)

CleanInv == \A t \in Task : CleanTask(t)

Inv == TypeOK /\ RequestInv /\ CleanInv

-----------------------------------------------------------------------------
(* Types and requests.                                                     *)

LEMMA InvInit == Init => Inv
  <1> SUFFICES ASSUME Init
               PROVE  Inv
    OBVIOUS
  <1>1. MaxFaults \in Nat
    BY TasksAssumption
  <1>2. NoRequest \in Request /\ NoSweep \in Sweep
    BY DEF NoRequest, Request, NoSweep, Sweep
  <1>3. TypeOK
    BY <1>1, <1>2 DEF Init, TypeOK, NoRequest, Mention
  <1>4. RequestInv
    BY DEF Init, RequestInv, NoRequest
  <1>5. ASSUME NEW t \in Task
        PROVE  CleanTask(t)
    <2>1. On(t) = {} /\ Past(t) = {} /\ Owes(t) = {}
      BY TasksAssumption DEF Init, Past, On, Owes, NoRequest
    <2>2. state[t] = "none" /\ told[t] = 0
      BY DEF Init
    <2> QED
      BY <2>1, <2>2 DEF CleanTask, LeastTask, MostTask, Ended
  <1> QED
    BY <1>3, <1>4, <1>5 DEF Inv, CleanInv

\* What is known of one task stays so.
Kept(t) == (LeastTask(t) => LeastTask(t)') /\ (MostTask(t) => MostTask(t)')

\* With its row, its notices and its updates as they were, all of it does.
LEMMA SameTask ==
    ASSUME NEW t \in Task, state'[t] = state[t] \/ (~Ended(state[t]) /\ ~Ended(state'[t])),
           told'[t] = told[t], On(t)' = On(t), \A u \in On(t) : req'[u] = req[u]
    PROVE  Kept(t)
  <1>1. Past(t)' = Past(t)
    BY DEF Past
  <1>2. Owes(t)' = Owes(t)
    <2>1. \A u \in Past(t) : req'[u] = req[u]
      BY DEF Past
    <2> QED
      BY <1>1, <2>1 DEF Owes
  <1>3. Ended(state'[t]) <=> Ended(state[t])
    BY DEF Ended
  <1>4. \A u \in Past(t) : req'[u] = req[u]
    BY DEF Past
  <1> QED
    BY <1>1, <1>2, <1>3, <1>4 DEF Kept, LeastTask, MostTask

\* Tasks whose row and requests stay as they are stay clean.
LEMMA CleanKept ==
    ASSUME Inv, UNCHANGED <<state, req, told, raced, misread, reopened, untold>>
    PROVE  RequestInv' /\ CleanInv'
  <1>1. RequestInv'
    BY DEF Inv, RequestInv
  <1>2. ASSUME NEW t \in Task
        PROVE  CleanTask(t)'
    <2>1. Kept(t)
      BY SameTask DEF On
    <2> QED
      BY <2>1 DEF Inv, CleanInv, CleanTask, Kept
  <1> QED
    BY <1>1, <1>2 DEF CleanInv

\* A request that ends, or one that comes, leaves the other tasks alone.
LEMMA OtherTasks ==
    ASSUME Inv, NEW u \in Update, NEW t \in Task, NEW x \in Task, x # t,
           NEW q \in Request, req' = [req EXCEPT ![u] = q],
           req[u].task \in {t, NoTask}, q.task \in {t, NoTask},
           state'[x] = state[x], told'[x] = told[x]
    PROVE  Kept(x)
  <1>1. x # NoTask
    BY TasksAssumption
  <1>2. On(x)' = On(x) /\ u \notin On(x)
    BY <1>1 DEF On, Inv, TypeOK
  <1>3. \A v \in On(x) : req'[v] = req[v]
    BY <1>2 DEF On, Inv, TypeOK
  <1> QED
    BY <1>2, <1>3, SameTask

\* The row of a task that is created has had no requests.
LEMMA CreateInv ==
    ASSUME Inv, NEW t \in Task, CreateTask(t)
    PROVE  Inv'
  <1>1. MaxFaults \in Nat
    BY TasksAssumption
  <1>2. TypeOK'
    <2>1. newer' \in [Task -> SUBSET Task] /\ \A x \in Task : x \notin newer'[x]
      BY DEF CreateTask, NowNewest, Inv, TypeOK
    <2>2. state' \in [Task -> {"none", "open", "done"}] /\ \A x \in quiet : state'[x] # "none"
      BY DEF CreateTask, Inv, TypeOK
    <2>3. faults' \in 0..MaxFaults
      BY <1>1 DEF CreateTask, Fault, Inv, TypeOK
    <2> QED
      BY <2>1, <2>2, <2>3 DEF CreateTask, Inv, TypeOK, updateVars, crossVars, watchVars
  <1>3. UNCHANGED <<req, told, untold, raced, misread, reopened>>
    BY DEF CreateTask, updateVars, crossVars
  <1>4. RequestInv'
    BY <1>3 DEF Inv, RequestInv
  <1>5. ASSUME NEW x \in Task
        PROVE  CleanTask(x)'
    <2>1. state'[x] = state[x] \/ (~Ended(state[x]) /\ ~Ended(state'[x]))
      BY DEF CreateTask, Inv, TypeOK, Ended
    <2>2. Kept(x)
      BY <1>3, <2>1, SameTask DEF On
    <2> QED
      BY <1>3, <2>2 DEF Inv, CleanInv, CleanTask, Kept
  <1> QED
    BY <1>2, <1>4, <1>5 DEF Inv, CleanInv

-----------------------------------------------------------------------------
(* The updates.                                                            *)

\* What replaces one request, with its type.
LEMMA RequestType ==
    ASSUME Inv, NEW u \in Update, NEW q \in Request, q.stage = "idle" <=> q.task = NoTask,
           q.stage # "idle" => q.before \in {"open", "done"},
           q.stage = "read" => q.to \in {"open", "done"},
           req' = [req EXCEPT ![u] = q]
    PROVE  /\ req' \in [Update -> Request]
           /\ \A v \in Update : req'[v].stage = "idle" <=> req'[v].task = NoTask
           /\ RequestInv'
  BY DEF Inv, TypeOK, RequestInv

LEMMA NoRequestType ==
    NoRequest \in Request /\ NoRequest.stage = "idle" /\ NoRequest.task = NoTask
  BY DEF NoRequest, Request

\* The fields of a request under way.
LEMMA UnderWay ==
    ASSUME Inv, NEW u \in Update, req[u].stage # "idle"
    PROVE  /\ req[u].task \in Task
           /\ req[u].before \in {"open", "done"}
           /\ req[u].stage \in {"read", "written", "telling"}
           /\ req[u].stage = "read" => req[u].to \in {"open", "done"}
  BY DEF Inv, TypeOK, RequestInv, Request

\* A read that failed counts as one of an open task.
LEMMA ReadInv ==
    ASSUME Inv, NEW u \in Update, NEW t \in Task, NEW s \in {"open", "done"},
           ReadBefore(u, t, s) \/ ReadBeforeFails(u, t, s)
    PROVE  Inv'
  <1>1. PICK before \in {"open", "done"} :
           /\ Reads(u, t, s, before)
           /\ before = state[t] \/ (before = "open" /\ (Ended(state[t]) => t \in misread'))
    <2>1. CASE ReadBefore(u, t, s)
      <3>1. state[t] \in {"open", "done"} /\ Reads(u, t, s, state[t])
        BY <2>1 DEF ReadBefore, Reads, Inv, TypeOK
      <3> QED
        BY <3>1
    <2>2. CASE ReadBeforeFails(u, t, s)
      BY <2>2 DEF ReadBeforeFails
    <2> QED
      BY <2>1, <2>2
  <1> DEFINE q == [stage |-> "read", task |-> t, to |-> s, before |-> before]
  <1>2. t # NoTask
    BY TasksAssumption
  <1>3. /\ q \in Request /\ q.stage = "read" /\ q.task = t /\ q.to = s
        /\ q.before = before
    BY DEF Request
  <1>4. req' = [req EXCEPT ![u] = q]
    BY <1>1 DEF Reads
  <1> HIDE DEF q
  <1>5. /\ req' \in [Update -> Request]
        /\ \A v \in Update : req'[v].stage = "idle" <=> req'[v].task = NoTask
        /\ RequestInv'
    BY <1>2, <1>3, <1>4, RequestType
  <1>6. /\ UNCHANGED <<state, told, untold, raced, reopened>>
        /\ misread \subseteq misread' /\ misread' \subseteq misread \cup {t}
    BY <1>1 DEF Reads, rowVars, ReadBefore, ReadBeforeFails
  <1>7. TypeOK'
    <2>1. MaxFaults \in Nat
      BY TasksAssumption
    <2>2. faults' \in 0..MaxFaults
      BY <2>1 DEF ReadBefore, ReadBeforeFails, Fault, Inv, TypeOK
    <2>3. misread' \subseteq Task
      BY <1>6 DEF Inv, TypeOK
    <2> QED
      BY <1>1, <1>5, <1>6, <2>2, <2>3 DEF Reads, Inv, TypeOK, rowVars, watchVars
  <1>8. req[u].task = NoTask
    BY <1>1 DEF Reads, Inv, TypeOK
  <1>9. ASSUME NEW x \in Task
        PROVE  CleanTask(x)'
    <2>1. CASE x # t
      <3>1. Kept(x)
        BY <1>3, <1>4, <1>6, <1>8, <2>1, OtherTasks
      <3> QED
        BY <1>6, <3>1 DEF Inv, CleanInv, CleanTask, Kept
    <2>2. CASE x = t
      <3>1. On(t)' = On(t) \cup {u} /\ u \notin On(t)
        BY <1>2, <1>3, <1>4, <1>8 DEF On, Inv, TypeOK
      <3>2. \A v \in On(t) : req'[v] = req[v]
        BY <1>4, <3>1 DEF On, Inv, TypeOK
      <3>3. req'[u] = q
        BY <1>4 DEF Inv, TypeOK
      <3>4. Past(t)' = Past(t) /\ \A v \in Past(t) : req'[v] = req[v]
        BY <1>3, <3>1, <3>2, <3>3 DEF Past
      <3>5. Owes(t)' = Owes(t)
        BY <3>4 DEF Owes
      <3>6. ASSUME LeastTask(t)
            PROVE  LeastTask(t)'
        <4>1. ~Ended(state[t]) => ~Ended(before)
          BY <1>1 DEF Ended
        <4> QED
          BY <1>3, <1>6, <3>1, <3>2, <3>3, <3>5, <3>6, <4>1 DEF LeastTask
      <3>7. ASSUME MostTask(t), t \notin misread'
            PROVE  MostTask(t)'
        <4>1. Ended(before) <=> Ended(state[t])
          BY <1>1, <3>7 DEF Ended
        <4> QED
          BY <1>3, <1>6, <3>1, <3>2, <3>3, <3>4, <3>5, <3>7, <4>1 DEF MostTask
      <3> QED
        BY <1>6, <2>2, <3>6, <3>7 DEF Inv, CleanInv, CleanTask
    <2> QED
      BY <2>1, <2>2
  <1> QED
    BY <1>5, <1>7, <1>9 DEF Inv, CleanInv

LEMMA WriteInv ==
    ASSUME Inv, NEW u \in Update, WriteRow(u)
    PROVE  Inv'
  <1> DEFINE t == req[u].task
             s == req[u].to
             q == [req[u] EXCEPT !.stage = "written", !.to = "none"]
  <1>1. req[u].stage = "read"
    BY DEF WriteRow
  <1>2. t \in Task /\ s \in {"open", "done"} /\ req[u].before \in {"open", "done"}
    BY <1>1, UnderWay
  <1>3. req[u] \in Request
    BY DEF Inv, TypeOK
  <1>4. /\ q \in Request /\ q.stage = "written" /\ q.task = t
        /\ q.before = req[u].before
    BY <1>3 DEF Request
  <1>5. req' = [req EXCEPT ![u] = q]
    BY DEF WriteRow
  <1>6. state' = [state EXCEPT ![t] = s]
    BY DEF WriteRow
  <1>7. told' = [told EXCEPT ![t] = IF Ended(s) THEN @ ELSE 0]
    BY DEF WriteRow
  <1>8. /\ raced' = IF On(t) # {u} THEN raced \cup {t}
                    ELSE IF Ended(s) THEN raced ELSE raced \ {t}
        /\ misread' = IF On(t) = {u} /\ ~Ended(s) THEN misread \ {t} ELSE misread
        /\ reopened' = IF Ended(s) THEN reopened
                       ELSE IF HoldsEnd(u, t) # {} THEN reopened \cup {t}
                       ELSE reopened \ {t}
        /\ untold' = IF Ended(s) THEN untold ELSE untold \ {t}
    BY DEF WriteRow
  <1>9. quiet' = quiet \ {t} /\ newer' = NowNewest(t)
    BY DEF WriteRow, Touch
  <1>10. UNCHANGED <<warned, watchVars, running, faults>>
    BY DEF WriteRow
  <1> HIDE DEF q
  <1>11. t # NoTask
    BY <1>2, TasksAssumption
  <1>12. /\ req' \in [Update -> Request]
         /\ \A v \in Update : req'[v].stage = "idle" <=> req'[v].task = NoTask
         /\ RequestInv'
    BY <1>2, <1>4, <1>5, <1>11, RequestType
  <1>13. TypeOK'
    <2>1. newer' \in [Task -> SUBSET Task] /\ \A x \in Task : x \notin newer'[x]
      BY <1>2, <1>9 DEF NowNewest, Inv, TypeOK
    <2>2. /\ state' \in [Task -> {"none", "open", "done"}] /\ quiet' \subseteq Task
          /\ \A x \in quiet' : state'[x] # "none"
      BY <1>2, <1>6, <1>9 DEF Inv, TypeOK
    <2>3. told' \in [Task -> Nat]
      BY <1>2, <1>7 DEF Inv, TypeOK
    <2>4. /\ raced' \subseteq Task /\ misread' \subseteq Task
          /\ reopened' \subseteq Task /\ untold' \subseteq Task
      BY <1>2, <1>8 DEF Inv, TypeOK
    <2> QED
      BY <1>10, <1>12, <2>1, <2>2, <2>3, <2>4 DEF Inv, TypeOK, watchVars
  <1>14. ASSUME NEW x \in Task
         PROVE  CleanTask(x)'
    <2>1. CASE x # t
      <3>1. state'[x] = state[x] /\ told'[x] = told[x]
        BY <1>2, <1>6, <1>7, <2>1 DEF Inv, TypeOK
      <3>2. Kept(x)
        BY <1>2, <1>4, <1>5, <2>1, <3>1, OtherTasks
      <3>3. /\ x \in raced' <=> x \in raced
            /\ x \in misread' <=> x \in misread
            /\ x \in reopened' <=> x \in reopened
            /\ x \in untold' <=> x \in untold
        BY <1>8, <2>1
      <3> QED
        BY <3>2, <3>3 DEF Inv, CleanInv, CleanTask, Kept
    <2>2. CASE x = t
      <3>1. req'[u] = q /\ \A v \in Update \ {u} : req'[v] = req[v]
        BY <2>2, <1>5 DEF Inv, TypeOK
      <3>2. u \in On(t) /\ On(x)' = On(t)
        BY <2>2, <1>4, <3>1 DEF On
      <3>3. state'[t] = s /\ told'[t] = IF Ended(s) THEN told[t] ELSE 0
        BY <2>2, <1>2, <1>6, <1>7 DEF Inv, TypeOK
      <3>4. u \notin Past(t) /\ Past(x)' = Past(t) \cup {u}
            /\ \A v \in Past(t) : req'[v] = req[v]
        BY <2>2, <1>1, <1>4, <3>1, <3>2 DEF Past, On
      <3>5. Owes(x)' = IF Ended(req[u].before) THEN Owes(t) ELSE Owes(t) \cup {u}
        BY <2>2, <1>4, <3>1, <3>4 DEF Owes
      <3>6. ASSUME x \notin (untold \cup reopened)'
            PROVE  LeastTask(x)'
        <4>1. CASE Ended(s)
          <5>1. LeastTask(t)
            BY <2>2, <1>2, <1>8, <3>6, <4>1 DEF Inv, CleanInv, CleanTask
          <5>2. CASE Ended(state[t])
            <6>1. told'[t] >= 1 \/ Owes(x)' # {}
              BY <2>2, <3>3, <3>5, <4>1, <5>1, <5>2 DEF LeastTask
            <6> QED
              BY <2>2, <3>3, <4>1, <6>1 DEF LeastTask, Ended
          <5>3. CASE ~Ended(state[t])
            <6>1. ~Ended(req[u].before)
              BY <2>2, <1>1, <3>2, <5>1, <5>3 DEF LeastTask
            <6>2. Owes(x)' # {}
              BY <2>2, <3>5, <6>1
            <6> QED
              BY <2>2, <3>3, <4>1, <6>2 DEF LeastTask, Ended
          <5> QED
            BY <2>2, <5>2, <5>3
        <4>2. CASE ~Ended(s)
          <5>1. HoldsEnd(u, t) = {}
            BY <2>2, <1>8, <3>6, <4>2
          <5>2. ASSUME NEW v \in On(x)', req'[v].stage = "read"
                PROVE  ~Ended(req'[v].before)
            <6>1. v # u /\ v \in On(t) /\ req'[v] = req[v]
              BY <2>2, <1>4, <3>1, <3>2, <5>2 DEF On
            <6> QED
              BY <2>2, <5>1, <5>2, <6>1 DEF HoldsEnd
          <5> QED
            BY <2>2, <3>3, <4>2, <5>2 DEF LeastTask, Ended
        <4> QED
          BY <2>2, <4>1, <4>2
      <3>7. ASSUME x \notin (raced \cup misread)'
            PROVE  MostTask(x)'
        <4>1. On(t) = {u}
          BY <2>2, <1>8, <3>7
        <4>2. Past(t) = {} /\ Past(x)' = {u} /\ Owes(t) = {}
          BY <2>2, <3>4, <4>1 DEF Past, Owes
        <4>3. \A v \in On(x)' : req'[v].stage # "read"
          BY <2>2, <1>4, <3>1, <3>2, <4>1
        <4>4. CASE ~Ended(s)
          BY <2>2, <1>4, <3>1, <3>3, <4>2, <4>3, <4>4 DEF MostTask
        <4>5. CASE Ended(s)
          <5>1. MostTask(t)
            BY <2>2, <1>2, <1>8, <3>7, <4>1, <4>5 DEF Inv, CleanInv, CleanTask
          <5>2. Ended(req[u].before) <=> Ended(state[t])
            BY <2>2, <1>1, <3>2, <5>1 DEF MostTask
          <5>3. told'[t] <= 1 /\ (Owes(x)' # {} => told'[t] = 0)
            BY <2>2, <3>3, <3>5, <4>2, <4>5, <5>1, <5>2 DEF MostTask
          <5> QED
            BY <2>2, <3>3, <4>2, <4>3, <4>5, <5>3 DEF MostTask, Ended
        <4> QED
          BY <2>2, <4>4, <4>5
      <3> QED
        BY <2>2, <3>6, <3>7 DEF CleanTask, Ended
    <2> QED
      BY <2>1, <2>2
  <1> QED
    BY <1>12, <1>13, <1>14 DEF Inv, CleanInv

\* A request that ends takes nothing from what is known of its task, unless it
\* was one that owes the notice.
LEMMA Leaves ==
    ASSUME Inv, NEW u \in Update, NEW t \in Task, req[u].task = t,
           req' = [req EXCEPT ![u] = NoRequest], state' = state, told'[t] = told[t]
    PROVE  /\ LeastTask(t) /\ (Ended(state[t]) => u \notin Owes(t)) => LeastTask(t)'
           /\ MostTask(t) => MostTask(t)'
  <1>1. req'[u] = NoRequest /\ \A v \in Update \ {u} : req'[v] = req[v]
    BY DEF Inv, TypeOK
  <1>2. On(t)' = On(t) \ {u}
    BY <1>1, NoRequestType, TasksAssumption DEF On
  <1>3. \A v \in On(t)' : req'[v] = req[v]
    BY <1>1, <1>2 DEF On
  <1>4. Past(t)' = Past(t) \ {u} /\ \A v \in Past(t)' : req'[v] = req[v]
    BY <1>2, <1>3 DEF Past
  <1>5. Owes(t)' = Owes(t) \ {u}
    BY <1>4 DEF Owes
  <1>6. ASSUME LeastTask(t), Ended(state[t]) => u \notin Owes(t)
        PROVE  LeastTask(t)'
    BY <1>2, <1>3, <1>5, <1>6 DEF LeastTask
  <1>7. ASSUME MostTask(t)
        PROVE  MostTask(t)'
    BY <1>2, <1>3, <1>4, <1>5, <1>7 DEF MostTask
  <1> QED
    BY <1>6, <1>7

\* A request that has written ends, or goes on to tell.
LEMMA BackInv ==
    ASSUME Inv, NEW u \in Update, ReadBack(u)
    PROVE  Inv'
  <1> DEFINE t == req[u].task
             q == IF NewlyEnded(u) THEN [req[u] EXCEPT !.stage = "telling"] ELSE NoRequest
  <1>1. req[u].stage = "written" /\ req' = [req EXCEPT ![u] = q]
    BY DEF ReadBack
  <1>2. t \in Task /\ req[u].before \in {"open", "done"}
    BY <1>1, UnderWay
  <1>3. req[u] \in Request /\ t # NoTask
    BY <1>2, TasksAssumption DEF Inv, TypeOK
  <1>4. /\ q \in Request /\ q.stage \in {"idle", "telling"}
        /\ q.stage = "telling" => q.task = t /\ q.before = req[u].before
        /\ q.stage = "idle" => q.task = NoTask
    <2>1. CASE NewlyEnded(u)
      BY <1>3, <2>1 DEF Request
    <2>2. CASE ~NewlyEnded(u)
      BY <2>2, NoRequestType
    <2> QED
      BY <2>1, <2>2
  <1>5. UNCHANGED <<rowVars, warned, told, untold, crossVars, watchVars, running, faults>>
    BY DEF ReadBack
  <1>6. /\ req' \in [Update -> Request]
        /\ \A v \in Update : req'[v].stage = "idle" <=> req'[v].task = NoTask
        /\ RequestInv'
    <2> HIDE DEF q
    <2> QED
      BY <1>1, <1>2, <1>3, <1>4, RequestType
  <1>7. TypeOK'
    BY <1>5, <1>6 DEF Inv, TypeOK, rowVars, crossVars, watchVars
  <1>8. ASSUME NEW x \in Task
        PROVE  CleanTask(x)'
    <2>1. UNCHANGED <<state, told, untold, raced, misread, reopened>>
      BY <1>5 DEF rowVars, crossVars
    <2>2. CASE x # t
      <3> HIDE DEF q
      <3>1. Kept(x)
        BY <1>1, <1>2, <1>4, <2>1, <2>2, OtherTasks
      <3> QED
        BY <2>1, <3>1 DEF Inv, CleanInv, CleanTask, Kept
    <2>3. CASE x = t /\ ~NewlyEnded(u)
      <3>1. Ended(state[t]) => u \notin Owes(t)
        BY <1>1, <2>3 DEF NewlyEnded, Owes
      <3> QED
        BY <1>1, <1>2, <2>1, <2>3, <3>1, Leaves DEF Inv, CleanInv, CleanTask
    <2>4. CASE x = t /\ NewlyEnded(u)
      <3>1. Ended(state[t]) /\ ~Ended(req[u].before) /\ q.stage = "telling"
        BY <2>4 DEF NewlyEnded
      <3> HIDE DEF q
      <3>2. req'[u] = q /\ \A v \in Update \ {u} : req'[v] = req[v]
        BY <2>4, <1>1 DEF Inv, TypeOK
      <3>3. On(x)' = On(t) /\ u \in Past(t)
        BY <2>4, <1>1, <1>4, <3>1, <3>2 DEF On, Past
      <3>4. Past(x)' = Past(t)
        BY <2>4, <1>1, <1>4, <3>1, <3>2, <3>3 DEF Past, On
      <3>5. Owes(x)' = Owes(t) /\ u \in Owes(t)
        BY <2>4, <1>1, <1>4, <3>1, <3>2, <3>3, <3>4 DEF Owes, Past, On
      <3>6. \A v \in On(t) : req'[v].stage = "read" => req'[v] = req[v]
        BY <2>4, <3>1, <3>2 DEF On
      <3>7. LeastTask(t) => LeastTask(x)'
        BY <2>4, <2>1, <3>1, <3>5 DEF LeastTask, Ended
      <3>8. MostTask(t) => MostTask(x)'
        BY <2>4, <2>1, <3>1, <3>3, <3>4, <3>5, <3>6 DEF MostTask, Ended
      <3> QED
        BY <1>2, <2>1, <2>4, <3>7, <3>8 DEF Inv, CleanInv, CleanTask, Ended
    <2> QED
      BY <2>2, <2>3, <2>4
  <1> QED
    BY <1>6, <1>7, <1>8 DEF Inv, CleanInv

LEMMA TellInv ==
    ASSUME Inv, NEW u \in Update, TellAsker(u)
    PROVE  Inv'
  <1> DEFINE t == req[u].task
  <1>1. req[u].stage = "telling" /\ req' = [req EXCEPT ![u] = NoRequest]
    BY DEF TellAsker
  <1>2. t \in Task /\ t # NoTask
    BY <1>1, UnderWay, TasksAssumption
  <1>3. /\ UNCHANGED <<rowVars, untold, crossVars, watchVars, running, faults>>
        /\ warned' \subseteq Task
        /\ told' = [told EXCEPT ![t] = IF Ended(state[t]) THEN @ + 1 ELSE @]
    BY <1>2 DEF TellAsker, Inv, TypeOK
  <1>4. /\ req' \in [Update -> Request]
        /\ \A v \in Update : req'[v].stage = "idle" <=> req'[v].task = NoTask
        /\ RequestInv'
    BY <1>1, NoRequestType, RequestType
  <1>5. told' \in [Task -> Nat]
    BY <1>2, <1>3 DEF Inv, TypeOK
  <1>6. TypeOK'
    BY <1>3, <1>4, <1>5 DEF Inv, TypeOK, rowVars, crossVars, watchVars
  <1>7. ASSUME NEW x \in Task
        PROVE  CleanTask(x)'
    <2>1. UNCHANGED <<state, untold, raced, misread, reopened>>
      BY <1>3 DEF rowVars, crossVars
    <2>2. CASE x # t
      <3>1. told'[x] = told[x]
        BY <1>2, <1>3, <2>2 DEF Inv, TypeOK
      <3>2. Kept(x)
        BY <1>1, <1>2, <2>1, <2>2, <3>1, NoRequestType, OtherTasks
      <3> QED
        BY <2>1, <3>2 DEF Inv, CleanInv, CleanTask, Kept
    <2>3. CASE x = t /\ ~Ended(state[t])
      <3>1. told'[t] = told[t]
        BY <1>2, <1>3, <2>3 DEF Inv, TypeOK
      <3> QED
        BY <1>1, <1>2, <2>1, <2>3, <3>1, Leaves DEF Inv, CleanInv, CleanTask
    <2>4. CASE x = t /\ Ended(state[t])
      <3>1. told'[t] = told[t] + 1 /\ told[t] \in Nat
        BY <1>2, <1>3, <2>4 DEF Inv, TypeOK
      <3>2. LeastTask(x)'
        <4>1. told'[t] >= 1
          BY <2>4, <3>1
        <4> QED
          BY <2>1, <2>4, <4>1 DEF LeastTask, Ended
      <3>3. ASSUME MostTask(x)
            PROVE  MostTask(x)'
        <4>1. u \in On(t) /\ u \in Past(t) /\ u \in Owes(t)
          BY <2>4, <1>1 DEF On, Past, Owes
        <4>2. told[t] = 0 /\ Past(t) = {u}
          BY <2>4, <3>3, <4>1 DEF MostTask
        <4>3. req'[u] = NoRequest /\ \A v \in Update \ {u} : req'[v] = req[v]
          BY <2>4, <1>1 DEF Inv, TypeOK
        <4>4. On(x)' = On(t) \ {u} /\ \A v \in On(x)' : req'[v] = req[v]
          BY <2>4, <1>2, <4>3, NoRequestType DEF On, Inv, TypeOK
        <4>5. Past(x)' = {} /\ Owes(x)' = {}
          BY <2>4, <4>2, <4>4 DEF Past, Owes
        <4>6. told'[t] <= 1
          BY <2>4, <3>1, <4>2
        <4> QED
          BY <2>1, <2>4, <3>3, <4>4, <4>5, <4>6 DEF MostTask, Ended
      <3> QED
        BY <1>2, <2>1, <2>4, <3>2, <3>3 DEF Inv, CleanInv, CleanTask, Ended
    <2> QED
      BY <2>2, <2>3, <2>4
  <1> QED
    BY <1>4, <1>6, <1>7 DEF Inv, CleanInv

\* A request that fails leaves what it read, or a task that counts as untold.
LEMMA FailInv ==
    ASSUME Inv, NEW u \in Update, UpdateFails(u) \/ TellFails(u)
    PROVE  Inv'
  <1> DEFINE t == req[u].task
  <1>1. req[u].stage \in {"read", "written", "telling"} /\ Fault
    BY DEF UpdateFails, TellFails
  <1>2. t \in Task
    BY <1>1, UnderWay
  <1>3. req' = [req EXCEPT ![u] = NoRequest]
    BY DEF UpdateFails, TellFails
  <1>4. untold' = IF req[u].stage = "read" THEN untold ELSE untold \cup {t}
    BY DEF UpdateFails, TellFails
  <1>5. UNCHANGED <<rowVars, warned, told, crossVars, watchVars, running>>
    BY DEF UpdateFails, TellFails
  <1>6. t # NoTask /\ MaxFaults \in Nat
    BY <1>2, TasksAssumption
  <1>7. /\ req' \in [Update -> Request]
        /\ \A v \in Update : req'[v].stage = "idle" <=> req'[v].task = NoTask
        /\ RequestInv'
    BY <1>3, NoRequestType, RequestType
  <1>8. TypeOK'
    <2>1. faults' \in 0..MaxFaults
      BY <1>1, <1>6 DEF Fault, Inv, TypeOK
    <2>2. untold' \subseteq Task
      BY <1>2, <1>4 DEF Inv, TypeOK
    <2> QED
      BY <1>5, <1>7, <2>1, <2>2 DEF Inv, TypeOK, rowVars, crossVars, watchVars
  <1>9. ASSUME NEW x \in Task
        PROVE  CleanTask(x)'
    <2>1. UNCHANGED <<state, told, raced, misread, reopened>>
      BY <1>5 DEF rowVars, crossVars
    <2>2. CASE x # t
      <3>1. Kept(x)
        BY <1>2, <1>3, <2>1, <2>2, NoRequestType, OtherTasks
      <3> QED
        BY <1>4, <2>1, <2>2, <3>1 DEF Inv, CleanInv, CleanTask, Kept
    <2>3. CASE x = t
      <3>1. ASSUME t \notin (untold \cup reopened)'
            PROVE  LeastTask(t) /\ u \notin Owes(t)
        <4>1. req[u].stage = "read"
          BY <1>4, <3>1
        <4> QED
          BY <1>2, <1>4, <2>1, <3>1, <4>1 DEF Inv, CleanInv, CleanTask, Owes, Past
      <3> QED
        BY <1>2, <1>3, <2>1, <2>3, <3>1, Leaves DEF Inv, CleanInv, CleanTask
    <2> QED
      BY <2>2, <2>3
  <1> QED
    BY <1>7, <1>8, <1>9 DEF Inv, CleanInv

\* A restart ends every request; those that had written count as untold.
LEMMA RestartInv == Inv /\ Restart => Inv'
  <1> SUFFICES ASSUME Inv, Restart
               PROVE  Inv'
    OBVIOUS
  <1> DEFINE lost == {req[u].task : u \in {v \in Update : req[v].stage \in {"written", "telling"}}}
  <1>1. MaxFaults \in Nat /\ NoTask \notin Task
    BY TasksAssumption
  <1>2. req' = [u \in Update |-> NoRequest] /\ untold' = untold \cup lost
        /\ UNCHANGED <<rowVars, warned, told, crossVars, raised, running>>
    BY DEF Restart
  <1>3. lost \subseteq Task
    BY UnderWay
  <1>4. TypeOK'
    <2>1. faults' \in 0..MaxFaults
      BY <1>1 DEF Restart, Fault, Inv, TypeOK
    <2>2. sweep' \in Sweep
      BY DEF Restart, NoSweep, Sweep
    <2>3. untold' \subseteq Task
      BY <1>2, <1>3 DEF Inv, TypeOK
    <2>4. /\ req' \in [Update -> Request]
          /\ \A u \in Update : req'[u].stage = "idle" <=> req'[u].task = NoTask
      BY <1>2, NoRequestType
    <2>5. seen' \in [Task -> Mention] /\ sending' \subseteq Task /\ forgotten' \subseteq raised'
      BY DEF Restart, Mention
    <2> QED
      BY <1>2, <2>1, <2>2, <2>3, <2>4, <2>5 DEF Inv, TypeOK, rowVars, crossVars
  <1>5. RequestInv'
    BY <1>2, NoRequestType DEF RequestInv
  <1>6. ASSUME NEW x \in Task
        PROVE  CleanTask(x)'
    <2>1. UNCHANGED <<state, told, raced, misread, reopened>>
      BY <1>2 DEF rowVars, crossVars
    <2>2. On(x)' = {}
      BY <1>1, <1>2, NoRequestType DEF On
    <2>3. Past(x)' = {} /\ Owes(x)' = {}
      BY <2>2 DEF Past, Owes
    <2>4. ASSUME x \notin (untold \cup reopened)'
          PROVE  LeastTask(x)'
      <3>1. LeastTask(x)
        BY <1>2, <2>1, <2>4 DEF Inv, CleanInv, CleanTask
      <3>2. Owes(x) = {}
        BY <1>2, <2>4 DEF Owes, Past, On
      <3> QED
        BY <2>1, <2>2, <2>3, <3>1, <3>2 DEF LeastTask
    <2>5. ASSUME x \notin (raced \cup misread)'
          PROVE  MostTask(x)'
      <3>1. MostTask(x)
        BY <2>1, <2>5 DEF Inv, CleanInv, CleanTask
      <3> QED
        BY <2>1, <2>2, <2>3, <3>1 DEF MostTask
    <2> QED
      BY <2>4, <2>5 DEF CleanTask
  <1> QED
    BY <1>4, <1>5, <1>6 DEF Inv, CleanInv

-----------------------------------------------------------------------------
(* The watcher.                                                            *)

LEMMA WatcherInv ==
    ASSUME Inv, Watcher \/ \E s \in Session : Stops(s)
    PROVE  Inv'
  <1>1. UNCHANGED <<state, req, told, raced, misread, reopened, untold, warned>>
    BY DEF Watcher, Sweeps, GoesQuiet, RepeatPasses, SendMention, StartSweep, Observe,
           ListTenant, Stops, rowVars, updateVars, crossVars
  <1>2. RequestInv' /\ CleanInv'
    BY <1>1, CleanKept
  <1>3. MaxFaults \in Nat
    BY TasksAssumption
  <1>4. TypeOK'
    <2>1. CASE \E s \in Session : Stops(s)
      BY <1>3, <2>1 DEF Stops, Fault, Inv, TypeOK, rowVars, updateVars, crossVars, watchVars
    <2>2. ASSUME NEW t \in Task, GoesQuiet(t) \/ RepeatPasses(t) \/ SendMention(t)
          PROVE  TypeOK'
      BY <2>2 DEF GoesQuiet, RepeatPasses, SendMention, Inv, TypeOK, rowVars, updateVars,
                  crossVars, Mention
    <2>3. CASE StartSweep
      <3>1. sweep' \in Sweep
        BY <2>3 DEF StartSweep, NoSweep, Sweep
      <3> QED
        BY <2>3, <3>1 DEF StartSweep, Inv, TypeOK, rowVars, updateVars, crossVars
    <2>4. CASE Observe
      <3>1. sweep \in Sweep
        BY DEF Inv, TypeOK
      <3>2. sweep' \in Sweep
        BY <2>4, <3>1 DEF Observe, NoSweep, Sweep
      <3>3. seen' \in [Task -> Mention]
        BY <2>4 DEF Observe, Carried, Inv, TypeOK, Mention
      <3>4. Due \subseteq Task
        BY <3>1 DEF Due, Sweep
      <3> QED
        BY <2>4, <3>2, <3>3, <3>4 DEF Observe, Inv, TypeOK, rowVars, updateVars, crossVars
    <2>5. ASSUME NEW tn \in Tenant, ListTenant(tn)
          PROVE  TypeOK'
      <3>1. sweep \in Sweep
        BY DEF Inv, TypeOK
      <3>2. Listed(tn) \subseteq Task
        BY DEF Listed, Outstanding
      <3>3. sweep' \in Sweep
        BY <2>5, <3>1, <3>2 DEF ListTenant, Sweep
      <3>4. faults' \in 0..MaxFaults
        BY <1>3, <2>5 DEF ListTenant, Inv, TypeOK
      <3> QED
        BY <2>5, <3>3, <3>4 DEF ListTenant, Inv, TypeOK, rowVars, updateVars, crossVars
    <2> QED
      BY <2>1, <2>2, <2>3, <2>4, <2>5 DEF Watcher, Sweeps
  <1> QED
    BY <1>2, <1>4 DEF Inv

LEMMA InvNext == Inv /\ [Next]_vars => Inv'
  <1> SUFFICES ASSUME Inv, [Next]_vars
               PROVE  Inv'
    OBVIOUS
  <1>1. CASE UNCHANGED vars
    <2>1. RequestInv' /\ CleanInv'
      BY <1>1, CleanKept DEF vars, rowVars, updateVars, crossVars
    <2> QED
      BY <1>1, <2>1 DEF vars, rowVars, updateVars, crossVars, watchVars, Inv, TypeOK
  <1>2. CASE \E t \in Task : CreateTask(t)
    BY <1>2, CreateInv
  <1>3. CASE \E u \in Update, t \in Task, s \in {"open", "done"} :
                ReadBefore(u, t, s) \/ ReadBeforeFails(u, t, s)
    BY <1>3, ReadInv
  <1>4. ASSUME NEW u \in Update, \/ WriteRow(u) \/ ReadBack(u) \/ UpdateFails(u)
                                 \/ TellAsker(u) \/ TellFails(u)
        PROVE  Inv'
    BY <1>4, WriteInv, BackInv, TellInv, FailInv
  <1>5. CASE Restart
    BY <1>5, RestartInv
  <1>6. CASE Watcher \/ \E s \in Session : Stops(s)
    BY <1>6, WatcherInv
  <1> QED
    BY <1>1, <1>2, <1>3, <1>4, <1>5, <1>6 DEF Next, Handlers

LEMMA Invariance == Spec => []Inv
  BY InvInit, InvNext, PTL DEF Spec

-----------------------------------------------------------------------------
\* Every variable keeps its type, restarts between the steps of an update
\* included.
THEOREM TasksTypeCorrect == Spec => []TypeOK
  <1>1. Inv => TypeOK
    BY DEF Inv
  <1> QED
    BY <1>1, Invariance, PTL

\* For any number of tasks and of updates at once that cross as they may, an end
\* is told of at least once, unless a notice or an answer failed or the task was
\* reopened under an update that had read its end; and at most once, unless two
\* updates crossed or a first read missed the end (agentTaskUpdate: read, write,
\* read back, compare, send).
THEOREM EndTold == Spec => []EndToldOnce
  <1>1. Inv => EndToldOnce
    <2> SUFFICES ASSUME Inv, NEW t \in Task, Ended(state[t]), On(t) = {}
                 PROVE  /\ t \notin untold \cup reopened => told[t] >= 1
                        /\ t \notin raced \cup misread => told[t] <= 1
      BY DEF EndToldOnce
    <2>1. Owes(t) = {}
      BY DEF Owes, Past
    <2> QED
      BY <2>1 DEF Inv, CleanInv, CleanTask, LeastTask, MostTask
  <1> QED
    BY <1>1, Invariance, PTL

-----------------------------------------------------------------------------
(* The mentions of a quiet task.                                           *)

\* The watcher keeps one set of entries and replaces it by what it lists, so
\* what it has raised is remembered while one list holds every task.
WholeList == (\A a, b \in Tenant : a = b) /\ Cardinality(Task) <= ListLimit

\* A task raised in this spell has its entry, unless a restart lost it, and the
\* next list has it too.
MentionInv ==
    /\ sweep.stale \subseteq sweep.list
    /\ sweep.list \cap quiet \subseteq sweep.stale
    /\ \A t \in raised \ forgotten : t \in quiet \cup sweep.stale => seen[t] = "recent"
    /\ \A t \in quiet : t \in raised \cup sweep.stale => ~Ended(state[t])
    /\ sweep.list # {} => raised \cap quiet \subseteq sweep.list

LEMMA MentionInit == Init => MentionInv
  BY DEF Init, MentionInv, NoSweep

\* A list holds every task that is there and has not ended.
LEMMA ListsAll ==
    ASSUME TypeOK, WholeList, NEW tn \in Tenant, NEW t \in Task,
           state[t] # "none", ~Ended(state[t])
    PROVE  t \in Listed(tn)
  <1> DEFINE S == newer[t] \cap Outstanding(tn)
  <1>1. TenantOf[t] = tn
    BY TasksAssumption DEF WholeList
  <1>2. t \in Outstanding(tn)
    BY <1>1 DEF Outstanding
  <1>3. S \subseteq Task /\ t \notin S
    BY DEF TypeOK
  <1>4. IsFiniteSet(Task)
    BY TasksAssumption
  <1>5. Cardinality(S) < Cardinality(Task)
    BY <1>3, <1>4, FS_Subset, FS_CardinalityType
  <1>6. Cardinality(S) \in Nat /\ Cardinality(Task) \in Nat
    BY <1>3, <1>4, FS_Subset, FS_CardinalityType
  <1>7. ListLimit \in Nat /\ Cardinality(Task) <= ListLimit
    BY TasksAssumption DEF WholeList
  <1>8. Cardinality(S) < ListLimit
    BY <1>5, <1>6, <1>7
  <1> QED
    BY <1>2, <1>8 DEF Listed

\* The handlers take tasks out of the quiet ones.
LEMMA HandlersMention ==
    ASSUME TypeOK, MentionInv, Handlers
    PROVE  MentionInv'
  <1>1. ASSUME NEW t \in Task, CreateTask(t)
        PROVE  MentionInv'
    <2>1. t \notin quiet /\ \A x \in quiet : state'[x] = state[x]
      BY <1>1 DEF CreateTask, TypeOK
    <2> QED
      BY <1>1, <2>1 DEF CreateTask, MentionInv, watchVars
  <1>2. ASSUME NEW u \in Update, WriteRow(u)
        PROVE  MentionInv'
    <2> DEFINE t == req[u].task
    <2>1. quiet' = quiet \ {t} /\ \A x \in quiet' : state'[x] = state[x]
      BY <1>2 DEF WriteRow, Touch, TypeOK
    <2> QED
      BY <1>2, <2>1 DEF WriteRow, MentionInv, watchVars
  <1>3. CASE UNCHANGED <<state, quiet, sweep, seen, raised, forgotten>>
    BY <1>3 DEF MentionInv
  <1>4. CASE Restart
    BY <1>4 DEF Restart, MentionInv, NoSweep, rowVars
  <1>5. ASSUME NEW u \in Update, ReadBack(u) \/ UpdateFails(u) \/ TellAsker(u) \/ TellFails(u)
        PROVE  MentionInv'
    BY <1>3, <1>5 DEF ReadBack, UpdateFails, TellAsker, TellFails, rowVars, watchVars
  <1>6. ASSUME NEW u \in Update, NEW t \in Task, NEW s \in {"open", "done"},
               ReadBefore(u, t, s) \/ ReadBeforeFails(u, t, s)
        PROVE  MentionInv'
    BY <1>3, <1>6 DEF ReadBefore, ReadBeforeFails, Reads, rowVars, watchVars
  <1>7. ASSUME NEW s \in Session, Stops(s)
        PROVE  MentionInv'
    BY <1>3, <1>7 DEF Stops, rowVars, watchVars
  <1> QED
    BY <1>1, <1>2, <1>4, <1>5, <1>6, <1>7 DEF Handlers

LEMMA WatcherMention ==
    ASSUME TypeOK, WholeList, MentionInv, Watcher
    PROVE  MentionInv'
  <1>1. ASSUME NEW t \in Task, GoesQuiet(t)
        PROVE  MentionInv'
    BY <1>1 DEF GoesQuiet, MentionInv
  <1>2. ASSUME NEW t \in Task, RepeatPasses(t)
        PROVE  MentionInv'
    <2>1. /\ raised' = raised \ {t} /\ forgotten' = forgotten \ {t}
          /\ \A x \in Task \ {t} : seen'[x] = seen[x]
          /\ UNCHANGED <<state, quiet, sweep>>
      BY <1>2 DEF RepeatPasses, TypeOK, rowVars
    <2> QED
      BY <2>1 DEF MentionInv, TypeOK
  <1>3. ASSUME NEW t \in Task, SendMention(t)
        PROVE  MentionInv'
    BY <1>3 DEF SendMention, MentionInv, rowVars
  <1>4. CASE StartSweep
    <2>1. /\ sweep'.list = sweep.list /\ sweep'.stale = sweep.stale
          /\ UNCHANGED <<state, quiet, seen, raised, forgotten>>
      BY <1>4 DEF StartSweep, NoSweep, rowVars
    <2> QED
      BY <2>1 DEF MentionInv
  <1>5. CASE Observe
    <2>1. sweep'.list = {} /\ sweep'.stale = {} /\ UNCHANGED <<state, quiet>>
      BY <1>5 DEF Observe, NoSweep, rowVars
    <2>2. /\ raised' = raised \cup Due /\ forgotten' = forgotten \ Due
          /\ Due \subseteq sweep.stale
      BY <1>5 DEF Observe, Due
    <2>3. ASSUME NEW t \in raised', t \notin forgotten', t \in quiet
          PROVE  seen'[t] = "recent"
      <3>1. t \in Task /\ sweep.list # {}
        BY <1>5, <2>3 DEF Observe, TypeOK
      <3>2. t \in sweep.stale /\ t \in sweep.list
        BY <2>2, <2>3, <3>1 DEF MentionInv
      <3>3. CASE t \in Due
        BY <1>5, <3>1, <3>2, <3>3 DEF Observe
      <3>4. CASE t \notin Due
        <4>1. Carried(t) = "recent"
          BY <3>2, <3>4 DEF Due
        <4> QED
          BY <1>5, <3>1, <3>2, <3>4, <4>1 DEF Observe
      <3> QED
        BY <3>3, <3>4
    <2> QED
      BY <2>1, <2>2, <2>3 DEF MentionInv
  <1>6. ASSUME NEW tn \in Tenant, ListTenant(tn)
        PROVE  MentionInv'
    <2>1. /\ sweep.list = {} /\ sweep.stale = {}
          /\ UNCHANGED <<state, quiet, seen, raised, forgotten>>
      BY <1>6 DEF ListTenant, MentionInv, rowVars
    <2>2. CASE sweep' = [left |-> sweep.left \ {tn}, list |-> Listed(tn),
                         stale |-> Listed(tn) \cap quiet]
      <3>1. sweep'.list = Listed(tn) /\ sweep'.stale = Listed(tn) \cap quiet
        BY <2>2
      <3>2. \A t \in Listed(tn) : ~Ended(state[t])
        BY DEF Listed, Outstanding
      <3>3. ASSUME NEW t \in raised \cap quiet
            PROVE  t \in Listed(tn)
        <4>1. t \in Task /\ state[t] # "none" /\ ~Ended(state[t])
          BY <3>3 DEF MentionInv, TypeOK
        <4> QED
          BY <4>1, ListsAll
      <3> QED
        BY <2>1, <3>1, <3>2, <3>3 DEF MentionInv
    <2>3. CASE sweep' = [sweep EXCEPT !.left = @ \ {tn}]
      <3>1. sweep'.list = sweep.list /\ sweep'.stale = sweep.stale
        BY <2>3 DEF TypeOK, Sweep
      <3> QED
        BY <2>1, <3>1 DEF MentionInv
    <2> QED
      BY <1>6, <2>2, <2>3 DEF ListTenant
  <1> QED
    BY <1>1, <1>2, <1>3, <1>4, <1>5, <1>6 DEF Watcher, Sweeps

\* For any number of tasks whose one list holds them all, a quiet task is
\* raised once in a taskRepeat, however sweeps, updates and failed reads fall, and
\* once more for each restart of the coordinator (taskWatcher.observe).
THEOREM OneMention ==
    ASSUME WholeList
    PROVE  Spec => OneMentionPerSpell
  <1> DEFINE A == \A t \in Task : t \in sending' \ sending => t \notin raised \ forgotten
  <1>1. Inv /\ MentionInv /\ [Next]_vars => MentionInv'
    <2> SUFFICES ASSUME Inv, MentionInv, [Next]_vars
                 PROVE  MentionInv'
      OBVIOUS
    <2>1. TypeOK
      BY DEF Inv
    <2>2. CASE UNCHANGED vars
      BY <2>2 DEF vars, rowVars, watchVars, MentionInv
    <2> QED
      BY <2>1, <2>2, HandlersMention, WatcherMention DEF Next
  <1>2. MentionInv /\ [Next]_vars => [A]_vars
    <2> SUFFICES ASSUME MentionInv, Next, NEW t \in Task, t \in sending' \ sending
                 PROVE  t \notin raised \ forgotten
      OBVIOUS
    <2>1. Observe
      BY DEF Next, Handlers, Watcher, Sweeps, CreateTask, ReadBefore, ReadBeforeFails, Reads,
             WriteRow, ReadBack,
             UpdateFails, TellAsker, TellFails, Stops, Restart, GoesQuiet, RepeatPasses,
             SendMention, StartSweep, ListTenant, watchVars
    <2>2. t \in sweep.stale /\ seen[t] # "recent"
      BY <2>1 DEF Observe, Due, Carried
    <2> QED
      BY <2>2 DEF MentionInv
  <1> QED
    BY <1>1, <1>2, Invariance, MentionInit, PTL DEF Spec, OneMentionPerSpell
=============================================================================
