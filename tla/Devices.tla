------------------------------ MODULE Devices ------------------------------
(***************************************************************************)
(* The device store of src/hub/identity.go: pairing codes, the tokens they *)
(* are redeemed for, renewal, revocation, and the throttle on redeeming.   *)
(* `held` is byHash, the copy in memory; `rows` is the devices table, from *)
(* which a start of the coordinator fills it.  A step is one hold of       *)
(* DeviceStore.mu; a handler (redeem, and renew, push and revoke of        *)
(* human.go) takes several.                                                *)
(*                                                                         *)
(* Time is for tokens.  A code's five minutes and a throttle's window are  *)
(* nothing beside a token's life: they just end.                           *)
(***************************************************************************)
EXTENDS Naturals, FiniteSets

CONSTANTS
    Device,     \* devices (and their tokens); each is enrolled once at most
    Code,       \* pairing codes; each is minted once at most
    Client,     \* callers of the redeem endpoint (clientKey)
    Redeemer,   \* requests to redeem a code, under way at once
    Caller,     \* requests of enrolled devices
    Operator,   \* requests to revoke a device
    Limit,      \* redeemFailureLimit
    TTL,        \* deviceTokenTTL
    MaxTime,    \* bound on time
    NoGrant, NoDevice, NoCode, NoClient

ASSUME DevicesAssumption ==
    /\ IsFiniteSet(Redeemer)
    /\ Limit \in Nat \ {0}
    /\ TTL \in Nat \ {0}
    /\ MaxTime \in Nat
    /\ NoGrant \notin [until : Nat, push : BOOLEAN]
    /\ NoDevice \notin Device /\ NoCode \notin Code /\ NoClient \notin Client

VARIABLES
    now,
    \* --- DeviceStore, in memory
    codes,      \* codes unexpired and unused
    held,       \* held[d]: d's entry of byHash
    failures,   \* failures[k]: bad codes counted against client k
    \* --- the database
    rows,       \* rows[d]: d's row of devices
    \* --- handlers
    redeem,     \* redeem[q]: a redeem request: how far, whose, with what code
    caller,     \* caller[q]: the device identified behind request q
    revoking,   \* revoking[q]: the device request q is about to revoke
    \* --- ghosts
    minted,     \* codes ever minted
    from,       \* from[d]: the code d was enrolled with
    told,       \* told[d]: what d was last told it holds
    answer      \* answer[d]: the last answer to a revocation of d

storeVars == <<codes, held, failures>>
handlerVars == <<redeem, caller, revoking>>
ghostVars == <<minted, from, told, answer>>
vars == <<now, storeVars, rows, handlerVars, ghostVars>>

\* A credential: until when, and whether there is an address to notify.
Grant == [until : Nat, push : BOOLEAN]
Idle == [pc |-> "idle", client |-> NoClient, code |-> NoCode]
Redeeming == [pc : {"checked", "good", "bad"}, client : Client, code : Code \cup {NoCode}]

TypeOK ==
    /\ now \in 0..MaxTime
    /\ codes \subseteq minted /\ minted \subseteq Code
    /\ held \in [Device -> Grant \cup {NoGrant}]
    /\ rows \in [Device -> Grant \cup {NoGrant}]
    /\ failures \in [Client -> Nat]
    /\ redeem \in [Redeemer -> Redeeming \cup {Idle}]
    /\ caller \in [Caller -> Device \cup {NoDevice}]
    /\ revoking \in [Operator -> Device \cup {NoDevice}]
    /\ from \in [Device -> minted \cup {NoCode}]
    /\ told \in [Device -> Grant \cup {NoGrant}]
    /\ answer \in [Device -> {"none", "done", "unknown"}]
    /\ \A d \in Device : from[d] = NoCode => held[d] = NoGrant /\ rows[d] = NoGrant

Init ==
    /\ now = 0
    /\ codes = {}
    /\ held = [d \in Device |-> NoGrant]
    /\ failures = [k \in Client |-> 0]
    /\ rows = [d \in Device |-> NoGrant]
    /\ redeem = [q \in Redeemer |-> Idle]
    /\ caller = [q \in Caller |-> NoDevice]
    /\ revoking = [q \in Operator |-> NoDevice]
    /\ minted = {}
    /\ from = [d \in Device |-> NoCode]
    /\ told = [d \in Device |-> NoGrant]
    /\ answer = [d \in Device |-> "none"]

Tick ==
    /\ now < MaxTime
    /\ now' = now + 1
    /\ UNCHANGED <<storeVars, rows, handlerVars, ghostVars>>

-----------------------------------------------------------------------------
(* Codes and their redemption.                                             *)

Mint(c) ==
    /\ c \in Code \ minted
    /\ minted' = minted \cup {c}
    /\ codes' = codes \cup {c}
    /\ UNCHANGED <<now, held, failures, rows, handlerVars, from, told, answer>>

CodeExpires(c) ==
    /\ c \in codes
    /\ codes' = codes \ {c}
    /\ UNCHANGED <<now, held, failures, rows, handlerVars, ghostVars>>

\* The throttle looks before the code is tried and counts after it: three holds
\* of the mutex.  c is what the caller typed, NoCode something never minted.
\* (The fault: one more than the limit.)
ThrottledLate(k) == failures[k] > Limit
Throttled(k) == failures[k] >= Limit

CheckThrottle(q, k, c) ==
    /\ redeem[q] = Idle
    /\ c \in minted \cup {NoCode}
    /\ ~Throttled(k)
    /\ redeem' = [redeem EXCEPT ![q] = [pc |-> "checked", client |-> k, code |-> c]]
    /\ UNCHANGED <<now, storeVars, rows, caller, revoking, ghostVars>>

RedeemRefused(q) ==
    /\ redeem[q].pc = "checked" /\ redeem[q].code \notin codes
    /\ redeem' = [redeem EXCEPT ![q].pc = "bad"]
    /\ UNCHANGED <<now, storeVars, rows, caller, revoking, ghostVars>>

\* The credential g of d goes to the database first, and with it, or not at all,
\* to memory and to the device.  (The fault: memory does not wait.)
StoreHasty(d, g, ok) ==
    /\ held' = [held EXCEPT ![d] = g]
    /\ told' = [told EXCEPT ![d] = g]
    /\ rows' = IF ok THEN [rows EXCEPT ![d] = g] ELSE rows
Store(d, g, ok) ==
    IF ok THEN /\ rows' = [rows EXCEPT ![d] = g]
               /\ held' = [held EXCEPT ![d] = g]
               /\ told' = [told EXCEPT ![d] = g]
    ELSE UNCHANGED <<rows, held, told>>

\* (The fault: a code is not used up.)
UsedNever(c) == {}
Used(c) == {c}

\* A code is used up even when its device cannot be stored, and the caller is
\* then charged with a bad one.
RedeemCode(q, d, ok) ==
    LET c == redeem[q].code
    IN  /\ redeem[q].pc = "checked" /\ c \in codes
        /\ from[d] = NoCode
        /\ codes' = codes \ Used(c)
        /\ Store(d, [until |-> now + TTL, push |-> FALSE], ok)
        /\ from' = IF ok THEN [from EXCEPT ![d] = c] ELSE from
        /\ redeem' = [redeem EXCEPT ![q].pc = IF ok THEN "good" ELSE "bad"]
        /\ UNCHANGED <<now, failures, caller, revoking, minted, answer>>

\* clearRedeemFailures or noteRedeemFailure, and the answer.
AnswerRedeem(q) ==
    LET k == redeem[q].client
    IN  /\ redeem[q].pc \in {"good", "bad"}
        /\ failures' = [failures EXCEPT ![k] = IF redeem[q].pc = "good" THEN 0 ELSE @ + 1]
        /\ redeem' = [redeem EXCEPT ![q] = Idle]
        /\ UNCHANGED <<now, codes, held, rows, caller, revoking, ghostVars>>

WindowEnds(k) ==
    /\ failures[k] > 0
    /\ failures' = [failures EXCEPT ![k] = 0]
    /\ UNCHANGED <<now, codes, held, rows, handlerVars, ghostVars>>

-----------------------------------------------------------------------------
(* A device's own requests.                                                *)

Expired(g) == now > g.until

Identify(q, d) ==
    /\ caller[q] = NoDevice
    /\ held[d] # NoGrant /\ ~Expired(held[d])
    /\ caller' = [caller EXCEPT ![q] = d]
    /\ UNCHANGED <<now, storeVars, rows, redeem, revoking, ghostVars>>

\* By now d may be revoked, or have expired.
Renew(q, ok) ==
    LET d == caller[q]
    IN  /\ d # NoDevice
        /\ IF held[d] # NoGrant /\ ~Expired(held[d])
           THEN Store(d, [held[d] EXCEPT !.until = now + TTL], ok)
           ELSE UNCHANGED <<rows, held, told>>
        /\ caller' = [caller EXCEPT ![q] = NoDevice]
        /\ UNCHANGED <<now, codes, failures, redeem, revoking, minted, from, answer>>

SetPushToken(q, p, ok) ==
    LET d == caller[q]
    IN  /\ d # NoDevice
        /\ IF held[d] # NoGrant
           THEN Store(d, [held[d] EXCEPT !.push = p], ok)
           ELSE UNCHANGED <<rows, held, told>>
        /\ caller' = [caller EXCEPT ![q] = NoDevice]
        /\ UNCHANGED <<now, codes, failures, redeem, revoking, minted, from, answer>>

-----------------------------------------------------------------------------
(* The operator.                                                           *)

\* revokeDevice looks for the device in List, which is the copy in memory.
AskRevoke(q, d) ==
    /\ revoking[q] = NoDevice /\ from[d] # NoCode
    /\ IF held[d] # NoGrant
       THEN revoking' = [revoking EXCEPT ![q] = d] /\ UNCHANGED answer
       ELSE answer' = [answer EXCEPT ![d] = "unknown"] /\ UNCHANGED revoking
    /\ UNCHANGED <<now, storeVars, rows, redeem, caller, minted, from, told>>

\* By now d may be gone; a failed delete is only logged.  The answer is the same.
Revoke(q, ok) ==
    LET d == revoking[q]
    IN  /\ d # NoDevice
        /\ IF held[d] # NoGrant
           THEN /\ held' = [held EXCEPT ![d] = NoGrant]
                /\ rows' = IF ok THEN [rows EXCEPT ![d] = NoGrant] ELSE rows
           ELSE UNCHANGED <<held, rows>>
        /\ answer' = [answer EXCEPT ![d] = "done"]
        /\ revoking' = [revoking EXCEPT ![q] = NoDevice]
        /\ UNCHANGED <<now, codes, failures, redeem, caller, minted, from, told>>

\* What OpenDeviceStore loads: the rows that have not expired; the others go.
Loaded == [d \in Device |->
              IF rows[d] # NoGrant /\ rows[d].until > now THEN rows[d] ELSE NoGrant]

Restart ==
    /\ rows' = Loaded
    /\ held' = Loaded
    /\ codes' = {}
    /\ failures' = [k \in Client |-> 0]
    /\ redeem' = [q \in Redeemer |-> Idle]
    /\ caller' = [q \in Caller |-> NoDevice]
    /\ revoking' = [q \in Operator |-> NoDevice]
    /\ UNCHANGED <<now, ghostVars>>

-----------------------------------------------------------------------------

CodeStep ==
    \/ \E c \in Code : Mint(c) \/ CodeExpires(c)
    \/ \E k \in Client : WindowEnds(k)
RedeemStep(q) ==
    \/ \E k \in Client, c \in Code \cup {NoCode} : CheckThrottle(q, k, c)
    \/ RedeemRefused(q)
    \/ \E d \in Device, ok \in BOOLEAN : RedeemCode(q, d, ok)
    \/ AnswerRedeem(q)
DeviceStep(q) ==
    \/ \E d \in Device : Identify(q, d)
    \/ \E ok \in BOOLEAN : Renew(q, ok)
    \/ \E p, ok \in BOOLEAN : SetPushToken(q, p, ok)
RevokeStep(q) ==
    \/ \E d \in Device : AskRevoke(q, d)
    \/ \E ok \in BOOLEAN : Revoke(q, ok)

Next ==
    \/ CodeStep
    \/ \E q \in Redeemer : RedeemStep(q)
    \/ \E q \in Caller : DeviceStep(q)
    \/ \E q \in Operator : RevokeStep(q)
    \/ Tick \/ Restart

Spec == Init /\ [][Next]_vars

-----------------------------------------------------------------------------
(* Properties.                                                             *)

\* A code enrols one device at most, whoever redeems it at once, whatever saves
\* fail and whenever the coordinator restarts.
OneDevicePerCode ==
    \A d, e \in Device : from[d] = from[e] /\ from[d] # NoCode => d = e

\* The bad codes a client has tried, the ones under way that the throttle has let
\* through included: checking before charging costs one more per other request.
GuessesBounded ==
    \A k \in Client :
        failures[k] + Cardinality({q \in Redeemer : redeem[q].client = k})
            <= Limit - 1 + Cardinality(Redeemer)

\* What has become of a credential (Credentials).
LifeOf(d) ==
    IF from[d] = NoCode THEN "none"
    ELSE IF held[d] # NoGrant
         THEN IF held[d] = told[d] /\ ~Expired(held[d]) THEN "live" ELSE "ended"
         ELSE IF rows[d] # NoGrant /\ ~Expired(rows[d]) THEN "suspended" ELSE "ended"

CR == INSTANCE Credentials WITH life <- [d \in Device |-> LifeOf(d)]
KeepsItsWord == CR!Spec

\* The log line of a failed delete asks the operator to retry the revocation: one
\* told "unknown device" can be sure it will not come back.
RetryRevokes ==
    \A d \in Device : answer[d] = "unknown" => Loaded[d] = NoGrant

=============================================================================
