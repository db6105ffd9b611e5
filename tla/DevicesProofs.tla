--------------------------- MODULE DevicesProofs ---------------------------
(***************************************************************************)
(* Theorems about Devices, for any devices, codes, callers and limits:     *)
(* types, one device per code, the bound on guesses, and that the store    *)
(* keeps its word (Credentials) across failed writes and restarts.         *)
(***************************************************************************)
EXTENDS Devices, FiniteSetTheorems, TLAPS

\* Memory, table and what the device was told agree as far as each has an entry.
Agree(d) ==
    /\ held[d] # NoGrant => rows[d] = held[d]
    /\ rows[d] # NoGrant => rows[d] = told[d]
    /\ from[d] # NoCode => told[d] \in Grant
AllAgree == \A d \in Device : Agree(d)

\* A code that has enrolled a device is used up.
CodesUsed == \A d \in Device : from[d] \notin codes

Inv == TypeOK /\ AllAgree /\ CodesUsed /\ OneDevicePerCode

-----------------------------------------------------------------------------

LEMMA InvInit == Init => Inv
  <1> USE DevicesAssumption DEF Init
  <1>1. Init => TypeOK
    BY DEF TypeOK
  <1>2. Init => AllAgree /\ CodesUsed /\ OneDevicePerCode
    BY DEF AllAgree, Agree, CodesUsed, OneDevicePerCode
  <1> QED
    BY <1>1, <1>2 DEF Inv

\* What a write of g for d does to memory, table and device.
LEMMA StoreTypes ==
  ASSUME TypeOK, NEW d \in Device, NEW g \in Grant, NEW ok \in BOOLEAN, Store(d, g, ok)
  PROVE  /\ held' \in [Device -> Grant \cup {NoGrant}]
         /\ rows' \in [Device -> Grant \cup {NoGrant}]
         /\ told' \in [Device -> Grant \cup {NoGrant}]
         /\ \A e \in Device \ {d} : held'[e] = held[e] /\ rows'[e] = rows[e] /\ told'[e] = told[e]
         /\ ok => held'[d] = g /\ rows'[d] = g /\ told'[d] = g
         /\ ~ok => UNCHANGED <<held, rows, told>>
  BY DEF Store, TypeOK

\* Every step keeps the types.
LEMMA TypeStep == TypeOK /\ [Next]_vars => TypeOK'
  <1> SUFFICES ASSUME TypeOK, [Next]_vars
               PROVE  TypeOK'
    OBVIOUS
  <1> USE DevicesAssumption DEF TypeOK, storeVars, handlerVars, ghostVars, Redeeming, Idle
  <1>1. CASE UNCHANGED vars
    BY <1>1 DEF vars
  <1>2. CASE CodeStep
    BY <1>2 DEF CodeStep, Mint, CodeExpires, WindowEnds
  <1>3. ASSUME NEW q \in Redeemer,
               \/ \E k \in Client, c \in Code \cup {NoCode} : CheckThrottle(q, k, c)
               \/ RedeemRefused(q)
        PROVE  TypeOK'
    BY <1>3 DEF CheckThrottle, RedeemRefused
  <1>4. ASSUME NEW q \in Redeemer, NEW d \in Device, NEW ok \in BOOLEAN, RedeemCode(q, d, ok)
        PROVE  TypeOK'
    <2> DEFINE g == [until |-> now + TTL, push |-> FALSE]
    <2>1. g \in Grant /\ Store(d, g, ok)
      BY <1>4 DEF RedeemCode, Grant
    <2> HIDE DEF g
    <2>2. /\ held' \in [Device -> Grant \cup {NoGrant}]
          /\ rows' \in [Device -> Grant \cup {NoGrant}]
          /\ told' \in [Device -> Grant \cup {NoGrant}]
          /\ \A e \in Device \ {d} : held'[e] = held[e] /\ rows'[e] = rows[e]
          /\ ~ok => UNCHANGED <<held, rows, told>>
      BY <2>1, StoreTypes
    <2>3. redeem[q] \in Redeeming /\ redeem[q].code \in codes /\ redeem[q].code # NoCode
      BY <1>4 DEF RedeemCode
    <2>4. redeem' \in [Redeemer -> Redeeming \cup {Idle}]
      BY <1>4, <2>3 DEF RedeemCode
    <2>5. /\ codes' \subseteq codes /\ from' \in [Device -> minted \cup {NoCode}]
          /\ \A e \in Device \ {d} : from'[e] = from[e]
          /\ ok => from'[d] # NoCode
          /\ ~ok => from' = from
      BY <1>4, <2>3 DEF RedeemCode, Used
    <2>6. \A e \in Device : from'[e] = NoCode => held'[e] = NoGrant /\ rows'[e] = NoGrant
      BY <2>2, <2>5
    <2> QED
      BY <1>4, <2>2, <2>4, <2>5, <2>6 DEF RedeemCode
  <1>5. ASSUME NEW q \in Redeemer, AnswerRedeem(q)
        PROVE  TypeOK'
    BY <1>5 DEF AnswerRedeem
  <1>6. ASSUME NEW q \in Caller, \E d \in Device : Identify(q, d)
        PROVE  TypeOK'
    BY <1>6 DEF Identify
  <1>7. ASSUME NEW q \in Caller, NEW p \in BOOLEAN, NEW ok \in BOOLEAN,
               Renew(q, ok) \/ SetPushToken(q, p, ok)
        PROVE  TypeOK'
    <2> DEFINE d == caller[q]
    <2>1. d \in Device /\ caller' \in [Caller -> Device \cup {NoDevice}]
      BY <1>7 DEF Renew, SetPushToken
    <2>2. CASE UNCHANGED <<held, rows, told>>
      BY <1>7, <2>1, <2>2 DEF Renew, SetPushToken
    <2>3. ASSUME NEW g \in Grant, held[d] # NoGrant, Store(d, g, ok)
          PROVE  TypeOK'
      <3>1. /\ held' \in [Device -> Grant \cup {NoGrant}]
            /\ rows' \in [Device -> Grant \cup {NoGrant}]
            /\ told' \in [Device -> Grant \cup {NoGrant}]
            /\ \A e \in Device \ {d} : held'[e] = held[e] /\ rows'[e] = rows[e]
        BY <2>1, <2>3, StoreTypes
      <3>2. from[d] # NoCode
        BY <2>1, <2>3
      <3>3. \A e \in Device : from[e] = NoCode => held'[e] = NoGrant /\ rows'[e] = NoGrant
        BY <3>1, <3>2
      <3> QED
        BY <1>7, <2>1, <3>1, <3>3 DEF Renew, SetPushToken
    <2>4. CASE held[d] # NoGrant
      <3>1. held[d] \in Grant
        BY <2>1, <2>4
      <3>2. /\ [held[d] EXCEPT !.until = now + TTL] \in Grant
            /\ [held[d] EXCEPT !.push = p] \in Grant
        BY <3>1 DEF Grant
      <3> QED
        BY <1>7, <2>2, <2>3, <2>4, <3>2 DEF Renew, SetPushToken
    <2> QED
      BY <1>7, <2>2, <2>4 DEF Renew, SetPushToken
  <1>8. ASSUME NEW q \in Operator, \E d \in Device : AskRevoke(q, d)
        PROVE  TypeOK'
    BY <1>8 DEF AskRevoke
  <1>9. ASSUME NEW q \in Operator, NEW ok \in BOOLEAN, Revoke(q, ok)
        PROVE  TypeOK'
    BY <1>9 DEF Revoke
  <1>10. CASE Tick
    BY <1>10 DEF Tick
  <1>11. CASE Restart
    BY <1>11 DEF Restart, Loaded
  <1> QED
    BY <1>1, <1>2, <1>3, <1>4, <1>5, <1>6, <1>7, <1>8, <1>9, <1>10, <1>11
    DEF Next, RedeemStep, DeviceStep, RevokeStep

\* No step makes memory, table and device disagree.
LEMMA AgreeStep == TypeOK /\ AllAgree /\ [Next]_vars => AllAgree'
  <1> SUFFICES ASSUME TypeOK, AllAgree, [Next]_vars
               PROVE  AllAgree'
    OBVIOUS
  <1> USE DevicesAssumption DEF TypeOK, AllAgree, Agree, storeVars, handlerVars, ghostVars
  <1>1. ASSUME UNCHANGED <<held, rows, told, from>>
        PROVE  AllAgree'
    BY <1>1
  <1>2. CASE UNCHANGED vars \/ CodeStep \/ Tick
    BY <1>1, <1>2 DEF vars, CodeStep, Mint, CodeExpires, WindowEnds, Tick
  <1>3. ASSUME NEW q \in Redeemer,
               \/ \E k \in Client, c \in Code \cup {NoCode} : CheckThrottle(q, k, c)
               \/ RedeemRefused(q) \/ AnswerRedeem(q)
        PROVE  AllAgree'
    BY <1>1, <1>3 DEF CheckThrottle, RedeemRefused, AnswerRedeem
  <1>4. ASSUME NEW q \in Operator, \E d \in Device : AskRevoke(q, d)
        PROVE  AllAgree'
    BY <1>1, <1>4 DEF AskRevoke
  <1>5. ASSUME NEW q \in Caller, \E d \in Device : Identify(q, d)
        PROVE  AllAgree'
    BY <1>1, <1>5 DEF Identify
  <1>6. ASSUME NEW d \in Device, NEW g \in Grant, NEW ok \in BOOLEAN, Store(d, g, ok),
               \A e \in Device \ {d} : from'[e] = from[e], ~ok => from' = from
        PROVE  AllAgree'
    BY <1>6, StoreTypes
  <1>7. ASSUME NEW q \in Redeemer, NEW d \in Device, NEW ok \in BOOLEAN, RedeemCode(q, d, ok)
        PROVE  AllAgree'
    <2>1. [until |-> now + TTL, push |-> FALSE] \in Grant
      BY DEF Grant
    <2> QED
      BY <1>6, <1>7, <2>1 DEF RedeemCode
  <1>8. ASSUME NEW q \in Caller, NEW p \in BOOLEAN, NEW ok \in BOOLEAN,
               Renew(q, ok) \/ SetPushToken(q, p, ok)
        PROVE  AllAgree'
    <2> DEFINE d == caller[q]
    <2>1. d \in Device /\ from' = from
      BY <1>8 DEF Renew, SetPushToken
    <2>2. CASE UNCHANGED <<held, rows, told>>
      BY <1>1, <2>1, <2>2
    <2>3. CASE held[d] # NoGrant
      <3>1. /\ [held[d] EXCEPT !.until = now + TTL] \in Grant
            /\ [held[d] EXCEPT !.push = p] \in Grant
        BY <2>1, <2>3 DEF Grant
      <3> QED
        BY <1>6, <1>8, <2>1, <2>2, <2>3, <3>1 DEF Renew, SetPushToken
    <2> QED
      BY <1>8, <2>2, <2>3 DEF Renew, SetPushToken
  <1>9. ASSUME NEW q \in Operator, NEW ok \in BOOLEAN, Revoke(q, ok)
        PROVE  AllAgree'
    BY <1>9 DEF Revoke
  <1>10. CASE Restart
    BY <1>10 DEF Restart, Loaded
  <1> QED
    BY <1>2, <1>3, <1>4, <1>5, <1>7, <1>8, <1>9, <1>10
    DEF Next, RedeemStep, DeviceStep, RevokeStep

\* A code is gone before its device is stored, and never comes back.
LEMMA CodesStep ==
  TypeOK /\ CodesUsed /\ OneDevicePerCode /\ [Next]_vars => CodesUsed' /\ OneDevicePerCode'
  <1> SUFFICES ASSUME TypeOK, CodesUsed, OneDevicePerCode, [Next]_vars
               PROVE  CodesUsed' /\ OneDevicePerCode'
    OBVIOUS
  <1> USE DevicesAssumption DEF TypeOK, CodesUsed, OneDevicePerCode, storeVars, handlerVars, ghostVars
  <1>1. ASSUME codes' \subseteq codes, UNCHANGED from
        PROVE  CodesUsed' /\ OneDevicePerCode'
    BY <1>1
  <1>2. ASSUME NEW c \in Code, Mint(c)
        PROVE  CodesUsed' /\ OneDevicePerCode'
    BY <1>2 DEF Mint
  <1>3. ASSUME NEW q \in Redeemer, NEW d \in Device, NEW ok \in BOOLEAN, RedeemCode(q, d, ok)
        PROVE  CodesUsed' /\ OneDevicePerCode'
    <2> DEFINE c == redeem[q].code
    <2>1. c \in codes /\ codes' = codes \ {c}
      BY <1>3 DEF RedeemCode, Used
    <2>2. from' = from \/ from' = [from EXCEPT ![d] = c]
      BY <1>3 DEF RedeemCode
    <2> HIDE DEF c
    <2> QED
      BY <2>1, <2>2
  <1>4. CASE UNCHANGED vars \/ Tick \/ Restart
    BY <1>1, <1>4 DEF vars, Tick, Restart
  <1>5. CASE CodeStep
    BY <1>1, <1>2, <1>5 DEF CodeStep, CodeExpires, WindowEnds
  <1>6. ASSUME NEW q \in Redeemer, RedeemStep(q)
        PROVE  CodesUsed' /\ OneDevicePerCode'
    BY <1>1, <1>3, <1>6 DEF RedeemStep, CheckThrottle, RedeemRefused, AnswerRedeem
  <1>7. ASSUME NEW q \in Caller, DeviceStep(q)
        PROVE  CodesUsed' /\ OneDevicePerCode'
    BY <1>1, <1>7 DEF DeviceStep, Identify, Renew, SetPushToken
  <1>8. ASSUME NEW q \in Operator, RevokeStep(q)
        PROVE  CodesUsed' /\ OneDevicePerCode'
    BY <1>1, <1>8 DEF RevokeStep, AskRevoke, Revoke
  <1> QED
    BY <1>4, <1>5, <1>6, <1>7, <1>8 DEF Next

\* The inductive invariant of the device store.
THEOREM Invariance == Spec => []Inv
  <1>1. Inv /\ [Next]_vars => Inv'
    BY TypeStep, AgreeStep, CodesStep DEF Inv
  <1> QED
    BY InvInit, <1>1, PTL DEF Spec

\* Every variable keeps its type, and a device that no code has enrolled has no entry.
THEOREM TypesCorrect == Spec => []TypeOK
  <1>1. Inv => TypeOK
    BY DEF Inv
  <1> QED
    BY Invariance, <1>1, PTL

\* A code enrols one device at most, whoever redeems it at once and whatever fails.
THEOREM OneDevice == Spec => []OneDevicePerCode
  <1>1. Inv => OneDevicePerCode
    BY DEF Inv
  <1> QED
    BY Invariance, <1>1, PTL

-----------------------------------------------------------------------------
(* The throttle.                                                           *)

Trying(k) == {q \in Redeemer : redeem[q].client = k}

\* Only a check the throttle lets through adds a try, and no check adds more
\* than one per request; an answer turns a try into a failure, or clears them.
LEMMA GuessStep == TypeOK /\ GuessesBounded /\ [Next]_vars => GuessesBounded'
  <1> SUFFICES ASSUME TypeOK, GuessesBounded, [Next]_vars, NEW k \in Client
               PROVE  failures'[k] + Cardinality(Trying(k)') <= Limit - 1 + Cardinality(Redeemer)
    BY DEF GuessesBounded, Trying
  <1> USE DevicesAssumption DEF TypeOK, Redeeming, Idle, storeVars, handlerVars
  <1>1. /\ IsFiniteSet(Trying(k)) /\ IsFiniteSet(Trying(k)')
        /\ Cardinality(Trying(k)') <= Cardinality(Redeemer)
    BY FS_Subset DEF Trying
  <1>2. /\ Cardinality(Trying(k)) \in Nat /\ Cardinality(Trying(k)') \in Nat
        /\ Cardinality(Redeemer) \in Nat
    BY <1>1, FS_CardinalityType
  <1>3. failures[k] + Cardinality(Trying(k)) <= Limit - 1 + Cardinality(Redeemer)
    BY DEF GuessesBounded, Trying
  <1>4. failures[k] \in Nat
    OBVIOUS
  <1> DEFINE Goal == failures'[k] + Cardinality(Trying(k)') <= Limit - 1 + Cardinality(Redeemer)
  <1>5. ASSUME Trying(k)' \subseteq Trying(k), failures'[k] \in Nat, failures'[k] <= failures[k]
        PROVE  Goal
    <2>1. Cardinality(Trying(k)') <= Cardinality(Trying(k))
      BY <1>1, <1>5, FS_Subset
    <2> QED
      BY <1>2, <1>3, <1>4, <1>5, <2>1
  <1>6. ASSUME NEW q \in Redeemer, NEW l \in Client, NEW c \in Code \cup {NoCode},
               CheckThrottle(q, l, c)
        PROVE  Goal
    <2>1. CASE l = k
      BY <1>1, <1>2, <1>4, <1>6, <2>1 DEF CheckThrottle, Throttled
    <2>2. CASE l # k
      <3>1. Trying(k)' \subseteq Trying(k)
        BY <1>6, <2>2 DEF CheckThrottle, Trying
      <3> QED
        BY <1>4, <1>5, <1>6, <3>1 DEF CheckThrottle
    <2> QED
      BY <2>1, <2>2
  <1>7. ASSUME NEW q \in Redeemer,
               RedeemRefused(q) \/ \E d \in Device, ok \in BOOLEAN : RedeemCode(q, d, ok)
        PROVE  Goal
    <2>1. Trying(k)' \subseteq Trying(k) /\ failures' = failures
      BY <1>7 DEF RedeemRefused, RedeemCode, Trying
    <2> QED
      BY <1>4, <1>5, <2>1
  <1>8. ASSUME NEW q \in Redeemer, AnswerRedeem(q)
        PROVE  Goal
    <2>1. redeem[q].client \in Client
      BY <1>8 DEF AnswerRedeem
    <2>2. CASE redeem[q].client = k
      <3>1. q \in Trying(k) /\ Trying(k)' = Trying(k) \ {q}
        BY <1>8, <2>2 DEF AnswerRedeem, Trying
      <3>2. Cardinality(Trying(k)') = Cardinality(Trying(k)) - 1
        BY <1>1, <3>1, FS_RemoveElement
      <3>3. failures'[k] = 0 \/ failures'[k] = failures[k] + 1
        BY <1>8, <2>2 DEF AnswerRedeem
      <3> QED
        BY <1>2, <1>3, <1>4, <3>2, <3>3
    <2>3. CASE redeem[q].client # k
      <3>1. Trying(k)' \subseteq Trying(k) /\ failures'[k] = failures[k]
        BY <1>8, <2>1, <2>3 DEF AnswerRedeem, Trying
      <3> QED
        BY <1>4, <1>5, <3>1
    <2> QED
      BY <2>2, <2>3
  <1>9. CASE CodeStep
    <2>1. Trying(k)' = Trying(k)
      BY <1>9 DEF CodeStep, Mint, CodeExpires, WindowEnds, Trying
    <2>2. failures'[k] \in Nat /\ failures'[k] <= failures[k]
      BY <1>4, <1>9 DEF CodeStep, Mint, CodeExpires, WindowEnds
    <2> QED
      BY <1>5, <2>1, <2>2
  <1>10. ASSUME UNCHANGED <<redeem, failures>>
         PROVE  Goal
    BY <1>4, <1>5, <1>10 DEF Trying
  <1>11. CASE Restart
    <2>1. Trying(k)' = {} /\ failures'[k] = 0
      BY <1>11 DEF Restart, Trying
    <2> QED
      BY <1>4, <1>5, <2>1
  <1>12. CASE UNCHANGED vars \/ Tick
    BY <1>10, <1>12 DEF vars, Tick
  <1>13. ASSUME NEW q \in Caller, DeviceStep(q)
         PROVE  Goal
    BY <1>10, <1>13 DEF DeviceStep, Identify, Renew, SetPushToken
  <1>14. ASSUME NEW q \in Operator, RevokeStep(q)
         PROVE  Goal
    BY <1>10, <1>14 DEF RevokeStep, AskRevoke, Revoke
  <1> QED
    BY <1>6, <1>7, <1>8, <1>9, <1>11, <1>12, <1>13, <1>14 DEF Next, RedeemStep

\* Whatever requests run at once, the bad codes of one client stay within the limit
\* and one more for each of the other requests.
THEOREM GuessesCorrect == Spec => []GuessesBounded
  <1>1. Init => GuessesBounded
    <2> SUFFICES ASSUME Init, NEW k \in Client
                 PROVE  failures[k] + Cardinality(Trying(k)) <= Limit - 1 + Cardinality(Redeemer)
      BY DEF GuessesBounded, Trying
    <2>1. Trying(k) = {} /\ failures[k] = 0
      BY DevicesAssumption DEF Init, Trying, Idle
    <2>2. Cardinality(Redeemer) \in Nat
      BY DevicesAssumption, FS_CardinalityType
    <2> QED
      BY <2>1, <2>2, FS_EmptySet, DevicesAssumption
  <1> QED
    BY TypesCorrect, <1>1, GuessStep, PTL DEF Spec

-----------------------------------------------------------------------------
(* Refinement of Credentials.                                              *)

\* Entries that a step leaves alone belong to a life it leaves alone.
LEMMA LifeFrame ==
  ASSUME NEW d \in Device, now' = now, from'[d] = from[d],
         held'[d] = held[d], rows'[d] = rows[d], told'[d] = told[d]
  PROVE  LifeOf(d)' = LifeOf(d)
  BY DEF LifeOf, Expired

\* What a device with an entry in memory was told is what it has.
LEMMA HeldIsTold ==
  ASSUME TypeOK, AllAgree, NEW d \in Device, held[d] # NoGrant
  PROVE  /\ from[d] # NoCode /\ held[d] = told[d] /\ rows[d] = told[d] /\ told[d] \in Grant
         /\ LifeOf(d) = IF Expired(told[d]) THEN "ended" ELSE "live"
  BY DEF TypeOK, AllAgree, Agree, LifeOf

\* Every step of the store is a step of the credentials, or none.
LEMMA RefinementStep == Inv /\ Inv' /\ [Next]_vars => [CR!Next]_(CR!vars)
  <1> DEFINE life == [d \in Device |-> LifeOf(d)]
  <1> SUFFICES ASSUME TypeOK, AllAgree, TypeOK', AllAgree', [Next]_vars
               PROVE  CR!Next \/ UNCHANGED <<now, life, told>>
    BY DEF CR!vars, Inv
  <1> USE DevicesAssumption DEF TypeOK, storeVars, handlerVars, ghostVars
  <1>1. ASSUME UNCHANGED <<now, from, held, rows, told>>
        PROVE  UNCHANGED <<now, life, told>>
    BY <1>1, LifeFrame
  <1>2. CASE UNCHANGED vars \/ CodeStep
    BY <1>1, <1>2 DEF vars, CodeStep, Mint, CodeExpires, WindowEnds
  <1>3. ASSUME NEW q \in Redeemer,
               \/ \E k \in Client, c \in Code \cup {NoCode} : CheckThrottle(q, k, c)
               \/ RedeemRefused(q) \/ AnswerRedeem(q)
        PROVE  UNCHANGED <<now, life, told>>
    BY <1>1, <1>3 DEF CheckThrottle, RedeemRefused, AnswerRedeem
  <1>4. ASSUME NEW q \in Caller, \E d \in Device : Identify(q, d)
        PROVE  UNCHANGED <<now, life, told>>
    BY <1>1, <1>4 DEF Identify
  <1>5. ASSUME NEW q \in Operator, \E d \in Device : AskRevoke(q, d)
        PROVE  UNCHANGED <<now, life, told>>
    BY <1>1, <1>5 DEF AskRevoke
  <1>6. ASSUME NEW q \in Redeemer, NEW d \in Device, NEW ok \in BOOLEAN, RedeemCode(q, d, ok)
        PROVE  CR!Next \/ UNCHANGED <<now, life, told>>
    <2> DEFINE g == [until |-> now + TTL, push |-> FALSE]
    <2>1. g \in Grant /\ g # NoGrant /\ Store(d, g, ok) /\ from[d] = NoCode /\ now' = now
      <3>1. g \in Grant
        BY DEF Grant
      <3>2. g # NoGrant
        BY <3>1 DEF Grant
      <3> QED
        BY <1>6, <3>1, <3>2 DEF RedeemCode
    <2>2. CASE ~ok
      BY <1>1, <1>6, <2>1, <2>2 DEF RedeemCode, Store
    <2>3. CASE ok
      <3>1. /\ held'[d] = g /\ told' = [told EXCEPT ![d] = g]
            /\ \A e \in Device \ {d} : LifeOf(e)' = LifeOf(e)
        BY <1>6, <2>1, <2>3, LifeFrame DEF RedeemCode, Store
      <3>2. life[d] = "none" /\ ~Expired(g)'
        BY <2>1 DEF LifeOf, Expired
      <3>3. LifeOf(d)' = "live"
        BY <2>1, <3>1, <3>2, HeldIsTold
        DEF LifeOf, AllAgree, Agree, Expired
      <3>4. CR!Issue(d)
        <4>1. life' = [life EXCEPT ![d] = "live"]
          BY <3>1, <3>3
        <4> QED
          BY <2>1, <3>1, <3>2, <4>1 DEF CR!Issue
      <3> QED
        BY <3>4 DEF CR!Next
    <2> QED
      BY <2>2, <2>3
  <1>7. ASSUME NEW q \in Caller, NEW ok \in BOOLEAN, Renew(q, ok)
        PROVE  CR!Next \/ UNCHANGED <<now, life, told>>
    <2>1. PICK d \in Device : d = caller[q]
      BY <1>7 DEF Renew
    <2>2. UNCHANGED <<now, from>>
      BY <1>7 DEF Renew
    <2> DEFINE g == [held[d] EXCEPT !.until = now + TTL]
    <2>3. CASE UNCHANGED <<rows, held, told>>
      BY <1>1, <2>1, <2>2, <2>3
    <2>4. CASE held[d] # NoGrant /\ ~Expired(held[d]) /\ Store(d, g, TRUE)
      <3>1. held[d] = told[d] /\ life[d] = "live" /\ told[d] \in Grant
        BY <2>1, <2>2, <2>4, HeldIsTold
      <3>2. /\ held'[d] = g /\ told' = [told EXCEPT ![d] = g]
            /\ \A e \in Device \ {d} : LifeOf(e)' = LifeOf(e)
        BY <2>1, <2>2, <2>4, LifeFrame DEF Store
      <3>3. g \in Grant /\ g.until = now + TTL
        BY <3>1 DEF Grant
      <3> HIDE DEF g
      <3>4. g # NoGrant
        BY <3>3 DEF Grant
      <3>5. LifeOf(d)' = "live"
        <4>1. held'[d] = g /\ told'[d] = g /\ from'[d] # NoCode
          BY <2>2, <2>4, <3>2
        <4>2. ~(now > g.until)
          BY <3>3
        <4> QED
          BY <2>2, <3>4, <4>1, <4>2 DEF LifeOf, Expired
      <3>6. life' = life
        BY <3>1, <3>2, <3>5
      <3>7. told' = [told EXCEPT ![d].until = now + TTL]
        BY <3>1, <3>2 DEF g
      <3>8. CR!Renew(d)
        BY <2>1, <2>2, <3>1, <3>6, <3>7 DEF CR!Renew
      <3> QED
        BY <2>1, <2>2, <3>8 DEF CR!Next
    <2> QED
      BY <1>7, <2>1, <2>3, <2>4 DEF Renew, Store
  <1>8. ASSUME NEW q \in Caller, NEW p \in BOOLEAN, NEW ok \in BOOLEAN, SetPushToken(q, p, ok)
        PROVE  CR!Next \/ UNCHANGED <<now, life, told>>
    <2>1. PICK d \in Device : d = caller[q]
      BY <1>8 DEF SetPushToken
    <2>2. UNCHANGED <<now, from>>
      BY <1>8 DEF SetPushToken
    <2> DEFINE g == [held[d] EXCEPT !.push = p]
    <2>3. CASE UNCHANGED <<rows, held, told>>
      BY <1>1, <2>1, <2>2, <2>3
    <2>4. CASE held[d] # NoGrant /\ Store(d, g, TRUE)
      <3>1. /\ held[d] = told[d] /\ told[d] \in Grant /\ from[d] # NoCode
            /\ life[d] = IF Expired(told[d]) THEN "ended" ELSE "live"
        BY <2>1, <2>2, <2>4, HeldIsTold
      <3>2. /\ held'[d] = g /\ told' = [told EXCEPT ![d] = g]
            /\ \A e \in Device \ {d} : LifeOf(e)' = LifeOf(e)
        BY <2>1, <2>2, <2>4, LifeFrame DEF Store
      <3>3. g \in Grant /\ g.until = told[d].until
        BY <3>1 DEF Grant
      <3>4. held'[d] # NoGrant /\ told'[d] = held'[d] /\ told'[d].until = told[d].until
        BY <2>1, <2>2, <3>2, <3>3 DEF Grant, Expired
      <3>5. LifeOf(d)' = LifeOf(d)
        BY <2>1, <2>2, <3>1, <3>4 DEF LifeOf, Expired
      <3>6. life' = life
        BY <3>2, <3>5
      <3>7. told' = [told EXCEPT ![d].push = p]
        BY <3>1, <3>2
      <3>8. CR!Notify(d)
        BY <2>1, <2>2, <3>1, <3>6, <3>7 DEF CR!Notify
      <3> QED
        BY <2>1, <2>2, <3>8 DEF CR!Next
    <2> QED
      BY <1>8, <2>1, <2>3, <2>4 DEF SetPushToken, Store
  <1>9. ASSUME NEW q \in Operator, NEW ok \in BOOLEAN, Revoke(q, ok)
        PROVE  CR!Next \/ UNCHANGED <<now, life, told>>
    <2>1. PICK d \in Device : d = revoking[q]
      BY <1>9 DEF Revoke
    <2>2. UNCHANGED <<now, from, told>>
      BY <1>9 DEF Revoke
    <2>3. CASE held[d] = NoGrant
      BY <1>1, <1>9, <2>1, <2>2, <2>3 DEF Revoke
    <2>4. CASE held[d] # NoGrant
      <3>1. /\ held[d] = told[d] /\ rows[d] = told[d] /\ from[d] # NoCode
            /\ life[d] = IF Expired(told[d]) THEN "ended" ELSE "live"
        BY <2>1, <2>2, <2>4, HeldIsTold
      <3>2. /\ held'[d] = NoGrant /\ rows'[d] \in {rows[d], NoGrant}
            /\ \A e \in Device \ {d} : LifeOf(e)' = LifeOf(e)
        BY <1>9, <2>1, <2>2, <2>4, LifeFrame DEF Revoke
      <3>3. /\ LifeOf(d)' \in {"suspended", "ended"}
            /\ Expired(told[d]) => LifeOf(d)' = "ended"
        BY <2>1, <2>2, <3>1, <3>2 DEF LifeOf, Expired
      <3>4. life' = [life EXCEPT ![d] = LifeOf(d)']
        BY <2>1, <2>2, <3>2
      <3>5. CASE Expired(told[d])
        <4>1. life' = life
          BY <3>1, <3>3, <3>4, <3>5
        <4> QED
          BY <2>2, <4>1
      <3>6. CASE ~Expired(told[d])
        <4>1. CR!Revoke(d)
          BY <2>1, <2>2, <3>1, <3>3, <3>4, <3>6 DEF CR!Revoke
        <4> QED
          BY <2>1, <2>2, <4>1 DEF CR!Next
      <3> QED
        BY <3>5, <3>6
    <2> QED
      BY <2>3, <2>4
  <1>10. CASE Tick
    <2> DEFINE E == {d \in Device : life[d] \in {"live", "suspended"} /\ told[d].until < now + 1}
    <2>1. now \in Nat /\ now' = now + 1 /\ UNCHANGED <<from, held, rows, told>>
      BY <1>10 DEF Tick
    <2>2. CR!RunOut(E, now + 1)
      <3>1. \A d \in Device : life[d] \in {"live", "suspended"} => told[d] \in Grant
        BY HeldIsTold DEF LifeOf, AllAgree, Agree
      <3> QED
        BY <2>1, <3>1 DEF CR!RunOut, Grant
    <2>3. ASSUME NEW d \in Device
          PROVE  LifeOf(d)' = IF d \in E THEN "ended" ELSE LifeOf(d)
      <3>1. CASE held[d] # NoGrant
        BY <2>1, <3>1, HeldIsTold DEF LifeOf, Expired, Grant
      <3>2. CASE held[d] = NoGrant
        BY <2>1, <3>2 DEF LifeOf, Expired, AllAgree, Agree, Grant
      <3> QED
        BY <3>1, <3>2
    <2>4. E \in SUBSET Device /\ CR!Pass(E)
      BY <2>1, <2>2, <2>3 DEF CR!Pass
    <2> QED
      BY <2>4 DEF CR!Next
  <1>11. CASE Restart
    <2> DEFINE E == {d \in Device : life[d] \in {"live", "suspended"} /\ told[d].until <= now}
    <2>1. /\ now \in Nat /\ UNCHANGED <<now, from, told>>
          /\ held' = Loaded /\ rows' = Loaded
      BY <1>11 DEF Restart
    <2>2. ASSUME NEW d \in Device, held[d] # NoGrant \/ rows[d] # NoGrant
          PROVE  from[d] # NoCode /\ rows[d] = told[d] /\ told[d] \in Grant
      BY <2>2, HeldIsTold DEF AllAgree, Agree
    <2>3. CR!RunOut(E, now)
      <3>1. \A d \in Device : life[d] \in {"live", "suspended"} => ~(told[d].until < now)
        <4> SUFFICES ASSUME NEW d \in Device, life[d] \in {"live", "suspended"}
                     PROVE  ~(told[d].until < now)
          OBVIOUS
        <4>1. held[d] # NoGrant => ~Expired(told[d])
          BY HeldIsTold
        <4>2. held[d] = NoGrant => rows[d] # NoGrant /\ ~Expired(rows[d])
          BY DEF LifeOf
        <4>3. told[d] \in Grant
          BY <2>2, <4>2
        <4> QED
          BY <2>1, <2>2, <4>1, <4>2, <4>3 DEF Expired, Grant
      <3> QED
        BY <3>1 DEF CR!RunOut
    <2>4. ASSUME NEW d \in Device
          PROVE  LifeOf(d)' = IF d \in E THEN "ended"
                              ELSE IF LifeOf(d) = "suspended" THEN "live" ELSE LifeOf(d)
      <3>1. CASE rows[d] # NoGrant
        BY <2>1, <2>2, <3>1, HeldIsTold DEF LifeOf, Loaded, Expired, Grant
      <3>2. CASE rows[d] = NoGrant
        BY <2>1, <2>2, <3>2, HeldIsTold DEF LifeOf, Loaded, Expired, Grant
      <3> QED
        BY <3>1, <3>2
    <2>5. E \in SUBSET Device /\ CR!Restart(E)
      BY <2>1, <2>3, <2>4 DEF CR!Restart
    <2> QED
      BY <2>5 DEF CR!Next
  <1> QED
    BY <1>2, <1>3, <1>4, <1>5, <1>6, <1>7, <1>8, <1>9, <1>10, <1>11
    DEF Next, RedeemStep, DeviceStep, RevokeStep

\* The device store implements Credentials: what a device was told it holds it holds
\* until it was told, through any failed write and restart, unless it is revoked;
\* and what has ended stays ended.
THEOREM WordKept == Spec => KeepsItsWord
  <1>1. Init => CR!Init
    BY DEF Init, CR!Init, LifeOf
  <1> QED
    BY Invariance, <1>1, RefinementStep, PTL DEF Spec, KeepsItsWord, CR!Spec

=============================================================================
