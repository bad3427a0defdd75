--------------------------- MODULE MessagingProof ---------------------------
(* Proofs about how mail is sent and announced, for every value of the         *)
(* constants: what the ChatGPT server's ledger promises (MessageLedger), and   *)
(* the notification signals with their leases (MailSignals).                   *)
EXTENDS MessageLedger, MailSignals, TLAPS, FiniteSetTheorems

-----------------------------------------------------------------------------
(* MessageLedger.                                                             *)
(* LedgerTypeOK, part by part: an action disturbs few of the parts.           *)
RecordsOK == ledger \in [Keys -> [preview : Previews, state : Outcomes] \cup {NoRecord}]
PreviewsOK == previews \in [Previews -> [at : Gateways \cup {"unmade", "gone"},
                                         consumed : BOOLEAN]]
CallsOK == call \in [Callers -> [at : {"free", "lock", "reserve", "consume", "dispatch",
                                       "verify", "sent", "finish", "observe"},
                                 gateway : Gateways \cup {"none"},
                                 preview : Previews \cup {NoPreview},
                                 key : Keys \cup {NoPreview},
                                 outcome : Outcomes \cup {"none"}]]
GatesOK == gate \in [Gateways -> Callers \cup {NoCaller}]
WayOK == /\ recent \subseteq Keys /\ approvals \subseteq Previews
         /\ wire \subseteq Previews /\ profile \in Callers \cup {NoCaller}
         /\ mail \in [Previews -> Nat]
KnownOK == known \in BOOLEAN
FaultsOK == gatewayFaults \in 0..MaxGatewayFaults

\* The parts are the type invariant.
LEMMA PartsOfLedgerTypeOK ==
    LedgerTypeOK <=> RecordsOK /\ PreviewsOK /\ CallsOK /\ GatesOK /\ WayOK /\ KnownOK /\ FaultsOK
BY DEF LedgerTypeOK, RecordsOK, PreviewsOK, CallsOK, GatesOK, WayOK, KnownOK, FaultsOK

(* The calls on their way to Mail: from the reservation on they have the      *)
(* record of their key, and until the outcome is written nobody else writes   *)
(* a refusal there.                                                           *)
CallAt(c, steps) == call[c].at \in steps
Reserving(c) == CallAt(c, {"reserve", "consume"})
Sending(c) == \/ CallAt(c, {"consume", "dispatch", "verify", "sent"})
              \/ CallAt(c, {"finish"}) /\ call[c].outcome # "accepted"
UnderWay(c) == Reserving(c) \/ Sending(c)
NotYetSent(c) == CallAt(c, {"reserve", "consume", "dispatch", "verify"})

(* A call that runs has a gateway, a preview and a key.                       *)
Busy ==
    \A c \in Callers : call[c].at # "free" =>
        /\ call[c].gateway \in Gateways /\ call[c].preview \in Previews
        /\ call[c].key \in Keys
        /\ call[c].at = "finish" => call[c].outcome \in Outcomes

(* Under the lock of the gateway that holds the preview.                      *)
LockHeld ==
    \A c \in Callers : Reserving(c) =>
        /\ gate[call[c].gateway] = c
        /\ \/ previews[call[c].preview] = Gone
           \/ previews[call[c].preview].at = call[c].gateway /\ ~previews[call[c].preview].consumed

(* A preview with a record can get no other.                                  *)
UsedUp ==
    \A k \in Keys : ledger[k] # NoRecord =>
        \/ previews[ledger[k].preview] = Gone
        \/ previews[ledger[k].preview].consumed
        \/ \E c \in Callers : CallAt(c, {"consume"}) /\ call[c].preview = ledger[k].preview

(* A call about to reserve a key has a preview no key was used for.           *)
NoneYet ==
    \A c \in Callers, k \in Keys : CallAt(c, {"reserve"}) => ledger[k].preview # call[c].preview

(* One key for each message that was reserved.                                *)
OneKey ==
    \A k, l \in Keys : ledger[k] # NoRecord /\ ledger[k].preview = ledger[l].preview => k = l

(* The record a call will write to, or looks up, is its own message's.        *)
Owned ==
    \A c \in Callers : Sending(c) \/ CallAt(c, {"finish", "observe"}) =>
        ledger[call[c].key].preview = call[c].preview

(* One call for each message that is under way.                               *)
OneSender ==
    \A c, d \in Callers : UnderWay(c) /\ UnderWay(d) /\ call[c].preview = call[d].preview => c = d

(* What left, left once, after a reservation.                                 *)
LeftOnce ==
    /\ \A p \in Previews : mail[p] \in {0, 1} /\ (p \in wire => mail[p] = 0)
    /\ \A p \in Previews : Leaving(p) => \E k \in Keys : ledger[k].preview = p
    /\ \A c \in Callers : NotYetSent(c) => ~Leaving(call[c].preview)

(* What a call is about to write, and what it will not have to write over.    *)
Truthful ==
    /\ \A c \in Callers : CallAt(c, {"finish"}) =>
          /\ call[c].outcome = "rejected" => ~Leaving(call[c].preview)
          /\ call[c].outcome = "accepted" => mail[call[c].preview] > 0
    /\ \A k \in Keys : ledger[k].state = "rejected" =>
          \A c \in Callers : Sending(c) => call[c].preview # ledger[k].preview

LedgerInv ==
    /\ RecordsOK /\ PreviewsOK /\ CallsOK /\ GatesOK /\ WayOK /\ KnownOK /\ FaultsOK
    /\ Busy /\ LockHeld /\ UsedUp /\ NoneYet /\ OneKey /\ Owned
    /\ OneSender /\ LeftOnce /\ Truthful /\ OutcomeTruthful

-----------------------------------------------------------------------------
(* The cases of the two actions that decide under the gateway's lock.         *)

EnterGranted(c) ==
    /\ call[c].at = "lock" /\ gate[call[c].gateway] = NoCaller
    /\ previews[call[c].preview].at = call[c].gateway
    /\ ~previews[call[c].preview].consumed
    /\ gate' = [gate EXCEPT ![call[c].gateway] = c]
    /\ Step(c, "reserve")
    /\ UNCHANGED <<durableVars, previews, profile, mailVars, gatewayFaults>>

EnterReplay(c) ==
    /\ call[c].at = "lock" /\ ledger[call[c].key].preview = call[c].preview
    /\ Step(c, "observe")
    /\ UNCHANGED <<durableVars, previews, gate, profile, mailVars, gatewayFaults>>

EnterRefused(c) ==
    /\ call[c].at = "lock" /\ Return(c)
    /\ UNCHANGED <<durableVars, previews, gate, profile, mailVars, gatewayFaults>>

\* Under the lock of its gateway a commit goes on, is a replay or is refused.
LEMMA EnterSendCases ==
    ASSUME NEW c \in Callers, EnterCommit(c)
    PROVE  EnterGranted(c) \/ EnterReplay(c) \/ EnterRefused(c)
BY DEF EnterCommit, EnterGranted, EnterReplay, EnterRefused

Reserved(c) ==
    /\ call[c].at = "reserve" /\ ledger[call[c].key] = NoRecord
    /\ ledger' = [ledger EXCEPT ![call[c].key] =
                     [preview |-> call[c].preview, state |-> "dispatching"]]
    /\ recent' = recent \cup {call[c].key}
    /\ Step(c, "consume")
    /\ UNCHANGED <<gate, previews, approvals, profile, mailVars, gatewayFaults>>

ReserveReplay(c) ==
    /\ call[c].at = "reserve" /\ ledger[call[c].key].preview = call[c].preview
    /\ gate' = [gate EXCEPT ![call[c].gateway] = NoCaller]
    /\ Step(c, "observe")
    /\ UNCHANGED <<durableVars, previews, profile, mailVars, gatewayFaults>>

ReserveRefused(c) ==
    /\ call[c].at = "reserve"
    /\ gate' = [gate EXCEPT ![call[c].gateway] = NoCaller]
    /\ Return(c)
    /\ UNCHANGED <<durableVars, previews, profile, mailVars, gatewayFaults>>

\* The reservation is made, was made by an earlier commit, or is refused.
LEMMA ReserveCases ==
    ASSUME NEW c \in Callers, Reserve(c)
    PROVE  Reserved(c) \/ ReserveReplay(c) \/ ReserveRefused(c)
BY DEF Reserve, MayReserve, Recorded, Reserved, ReserveReplay, ReserveRefused,
       durableVars

ConsumedHeld(c) ==
    /\ call[c].at = "consume" /\ previews[call[c].preview] # Gone
    /\ previews' = [previews EXCEPT ![call[c].preview].consumed = TRUE]
    /\ approvals' = approvals \ {call[c].preview}
    /\ gate' = [gate EXCEPT ![call[c].gateway] = NoCaller]
    /\ Step(c, "dispatch")
    /\ UNCHANGED <<ledger, recent, profile, mailVars, gatewayFaults>>

ConsumedGone(c) ==
    /\ call[c].at = "consume" /\ previews[call[c].preview] = Gone
    /\ approvals' = approvals \ {call[c].preview}
    /\ gate' = [gate EXCEPT ![call[c].gateway] = NoCaller]
    /\ Step(c, "dispatch")
    /\ UNCHANGED <<ledger, recent, previews, profile, mailVars, gatewayFaults>>

\* The preview is consumed, or expired while the reservation was made.
LEMMA ConsumeCases ==
    ASSUME NEW c \in Callers, ConsumePreview(c)
    PROVE  ConsumedHeld(c) \/ ConsumedGone(c)
BY DEF ConsumePreview, ConsumedHeld, ConsumedGone

Sends(c) ==
    /\ call[c].at = "verify"
    /\ wire' = wire \cup {call[c].preview} /\ Step(c, "sent")
    /\ UNCHANGED <<durableVars, previews, gate, profile, mail, known, gatewayFaults>>

Differs(c) ==
    /\ call[c].at = "verify" /\ profile' = NoCaller /\ Concludes(c, "rejected")
    /\ UNCHANGED <<durableVars, previews, gate, wire, mail, known, gatewayFaults>>

\* The message leaves only for the sender and recipient of the preview.
LEMMA VerifyCases ==
    ASSUME NEW c \in Callers, VerifyAndSend(c)
    PROVE  Sends(c) \/ Differs(c)
BY DEF VerifyAndSend, Sends, Differs

Reconciles(c) ==
    /\ call[c].at = "observe" /\ mail[call[c].preview] > 0
    /\ Concludes(c, "accepted")
    /\ UNCHANGED <<durableVars, previews, gate, profile, mailVars, gatewayFaults>>

Looked(c) ==
    /\ call[c].at = "observe" /\ Return(c)
    /\ UNCHANGED <<durableVars, previews, gate, profile, mailVars, gatewayFaults>>

\* A look at the dashboard reconciles an open outcome, or it does not.
LEMMA ObserveCases ==
    ASSUME NEW c \in Callers, Observe(c)
    PROVE  Reconciles(c) \/ Looked(c)
BY DEF Observe, Reconciles, Looked

\* A call that has its outcome.
LEMMA ConcludesType ==
    ASSUME CallsOK, NEW c \in Callers, NEW o \in Outcomes, Concludes(c, o)
    PROVE  CallsOK'
<1>1. [call[c] EXCEPT !.at = "finish", !.outcome = o] \in
         [at : {"free", "lock", "reserve", "consume", "dispatch",
                "verify", "sent", "finish", "observe"},
          gateway : Gateways \cup {"none"}, preview : Previews \cup {NoPreview},
          key : Keys \cup {NoPreview}, outcome : Outcomes \cup {"none"}]
  BY DEF CallsOK
<1>2. QED  BY <1>1 DEF CallsOK, Concludes

\* A preview that is not consumed has not left: a record of it would belong to a
\* call that consumes it now, under the lock that is free.
LEMMA EnterGrantedLeft ==
    ASSUME LedgerInv, NEW c \in Callers, EnterGranted(c)
    PROVE  LeftOnce'
<1>1. ~Leaving(call[c].preview)
  <2> SUFFICES ASSUME NEW k \in Keys, ledger[k].preview = call[c].preview
               PROVE  FALSE
    BY DEF LedgerInv, LeftOnce, EnterGranted, Busy
  <2>1. PICK e \in Callers : CallAt(e, {"consume"}) /\ call[e].preview = call[c].preview
    BY MessageLedgerAssumption DEF LedgerInv, UsedUp, EnterGranted, Gone, NoRecord, Busy
  <2>2. QED BY <2>1, MessageLedgerAssumption DEF LedgerInv, LockHeld, CallAt, Reserving,
     EnterGranted, Gone, Busy
<1>2. QED
  BY <1>1 DEF LedgerInv, LeftOnce, EnterGranted, NotYetSent, CallAt, Step, durableVars,
     mailVars, Leaving, CallsOK

\* The preview of any other record is as it was, and so is the call that is about
\* to consume it.
LEMMA ConsumedUsedUp ==
    ASSUME LedgerInv, NEW c \in Callers, ConsumedHeld(c)
    PROVE  UsedUp'
<1> SUFFICES ASSUME NEW k \in Keys, ledger[k] # NoRecord,
                    previews'[ledger[k].preview] # Gone,
                    previews'[ledger[k].preview].consumed # TRUE
             PROVE  \E d \in Callers :
                         CallAt(d, {"consume"})' /\ (call[d].preview)' = ledger[k].preview
  BY DEF UsedUp, ConsumedHeld, CallAt
<1>1. ledger[k].preview # call[c].preview
  BY DEF LedgerInv, ConsumedHeld, PreviewsOK, Busy
<1>2. previews'[ledger[k].preview] = previews[ledger[k].preview]
  BY <1>1 DEF LedgerInv, ConsumedHeld, PreviewsOK
<1>3. PICK d \in Callers : CallAt(d, {"consume"}) /\ call[d].preview = ledger[k].preview
  BY <1>2 DEF LedgerInv, UsedUp
<1>4. QED BY <1>1, <1>3 DEF LedgerInv, CallsOK, ConsumedHeld, Step, CallAt

\* The record keeps its preview when the outcome is written to it.
LEMMA FinishUsedUp ==
    ASSUME LedgerInv, NEW c \in Callers, Finish(c)
    PROVE  UsedUp'
<1>1. /\ call[c].at = "finish" /\ previews' = previews
      /\ ledger[call[c].key].preview = call[c].preview
      /\ call[c].key \in Keys /\ call[c].preview \in Previews
      /\ ledger[call[c].key] \in [preview : Previews, state : Outcomes] \cup {NoRecord}
  BY DEF LedgerInv, Finish, Owned, CallAt, Busy, CallsOK, RecordsOK
<1>2. ledger[call[c].key] # NoRecord
  BY <1>1, MessageLedgerAssumption DEF NoRecord
<1>3. ASSUME NEW k \in Keys, ledger'[k] # NoRecord
      PROVE  ledger'[k].preview = ledger[k].preview /\ ledger[k] # NoRecord
  <2>1. CASE k = call[c].key
    <3>1. ASSUME NEW r \in [preview : Previews, state : Outcomes], NEW o
          PROVE  [r EXCEPT !.state = o].preview = r.preview
      OBVIOUS
    <3>2. ledger'[k] = [ledger[k] EXCEPT !.state = call[c].outcome]
      BY <2>1 DEF Finish, LedgerInv, RecordsOK
    <3>3. QED  BY <1>1, <1>2, <2>1, <3>1, <3>2
  <2>2. CASE k # call[c].key
    BY <1>3, <2>2 DEF Finish, LedgerInv, RecordsOK
  <2>3. QED  BY <2>1, <2>2
<1>4. ASSUME NEW d \in Callers, CallAt(d, {"consume"})
      PROVE  CallAt(d, {"consume"})' /\ (call[d].preview)' = call[d].preview
  BY <1>1, <1>4 DEF Finish, Return, CallAt, LedgerInv, CallsOK
<1>5. QED  BY <1>1, <1>3, <1>4 DEF LedgerInv, UsedUp

-----------------------------------------------------------------------------
\* The gateway's lock is taken for a preview nobody consumed.
LEMMA EnterGrantedKeeps ==
    ASSUME LedgerInv, NEW c \in Callers, EnterGranted(c)
    PROVE  LedgerInv'
<1>1. /\ RecordsOK' /\ PreviewsOK' /\ WayOK' /\ KnownOK' /\ FaultsOK'
      /\ OneKey' /\ OutcomeTruthful'
  BY DEF LedgerInv, RecordsOK, PreviewsOK, WayOK, KnownOK, FaultsOK, OneKey,
     OutcomeTruthful, EnterGranted, durableVars, mailVars, Leaving
<1>2. CallsOK'
  BY DEF LedgerInv, CallsOK, EnterGranted, Step
<1>3. GatesOK'
  BY DEF LedgerInv, GatesOK, Busy, EnterGranted
<1>4. Busy'
  BY DEF LedgerInv, Busy, EnterGranted, Step
<1>5. LockHeld'
  BY MessageLedgerAssumption DEF LedgerInv, GatesOK, Busy, LockHeld,
     EnterGranted, Step, Reserving, CallAt
<1>6. UsedUp'
  BY DEF LedgerInv, UsedUp, EnterGranted, Step, durableVars, CallAt
<1>7. NoneYet'
  BY MessageLedgerAssumption DEF LedgerInv, Busy, LockHeld, UsedUp, NoneYet,
     EnterGranted, Step, durableVars, CallAt, Reserving, Gone, NoRecord
<1>8. Owned'
  BY DEF LedgerInv, Owned, EnterGranted, Step, durableVars, Sending, CallAt
<1>9. OneSender'
  BY MessageLedgerAssumption DEF LedgerInv, Busy, LockHeld, UsedUp, Owned,
     OneSender, LeftOnce, Truthful, OutcomeTruthful, EnterGranted, Step,
     UnderWay, Reserving, CallAt, Sending, Gone, NoRecord
<1>10. LeftOnce'
  BY EnterGrantedLeft
<1>11. Truthful'
  BY DEF LedgerInv, Truthful, EnterGranted, Step, durableVars, mailVars, CallAt,
     Leaving, Sending
<1>12. QED  BY <1>1, <1>2, <1>3, <1>4, <1>5, <1>6, <1>7, <1>8, <1>9,
     <1>10, <1>11 DEF LedgerInv

\* The key has its record by now.
LEMMA EnterReplayKeeps ==
    ASSUME LedgerInv, NEW c \in Callers, EnterReplay(c)
    PROVE  LedgerInv'
<1>1. /\ RecordsOK' /\ PreviewsOK' /\ GatesOK' /\ WayOK' /\ KnownOK'
      /\ FaultsOK' /\ OneKey' /\ OutcomeTruthful'
  BY DEF LedgerInv, RecordsOK, PreviewsOK, GatesOK, WayOK, KnownOK,
     FaultsOK, OneKey, OutcomeTruthful, EnterReplay, durableVars, mailVars,
     Leaving
<1>2. CallsOK'
  BY DEF LedgerInv, CallsOK, EnterReplay, Step
<1>3. Busy'
  BY DEF LedgerInv, Busy, EnterReplay, Step
<1>4. LockHeld'
  BY DEF LedgerInv, LockHeld, EnterReplay, Step, Reserving, CallAt
<1>5. UsedUp'
  BY DEF LedgerInv, UsedUp, EnterReplay, Step, durableVars, CallAt
<1>6. NoneYet'
  BY DEF LedgerInv, NoneYet, EnterReplay, Step, durableVars, CallAt
<1>7. Owned'
  BY DEF LedgerInv, Owned, EnterReplay, Step, durableVars, Sending, CallAt
<1>8. OneSender'
  BY DEF LedgerInv, OneSender, EnterReplay, Step, UnderWay, Reserving, CallAt,
     Sending
<1>9. LeftOnce'
  BY DEF LedgerInv, LeftOnce, EnterReplay, Step, durableVars, mailVars,
     Leaving, NotYetSent, CallAt
<1>10. Truthful'
  BY DEF LedgerInv, Truthful, EnterReplay, Step, durableVars, mailVars, CallAt,
     Leaving, Sending
<1>11. QED  BY <1>1, <1>2, <1>3, <1>4, <1>5, <1>6, <1>7, <1>8,
     <1>9, <1>10 DEF LedgerInv

\* A refused commit changes nothing but itself.
LEMMA EnterRefusedKeeps ==
    ASSUME LedgerInv, NEW c \in Callers, EnterRefused(c)
    PROVE  LedgerInv'
<1>1. /\ RecordsOK' /\ PreviewsOK' /\ GatesOK' /\ WayOK' /\ KnownOK'
      /\ FaultsOK' /\ OneKey' /\ OutcomeTruthful'
  BY DEF LedgerInv, RecordsOK, PreviewsOK, GatesOK, WayOK, KnownOK,
     FaultsOK, OneKey, OutcomeTruthful, EnterRefused, durableVars, mailVars,
     Leaving
<1>2. CallsOK'
  BY DEF LedgerInv, CallsOK, EnterRefused, Return, Free
<1>3. Busy'
  BY DEF LedgerInv, Busy, EnterRefused, Return, Free
<1>4. LockHeld'
  BY DEF LedgerInv, LockHeld, EnterRefused, Return, Free, Reserving, CallAt
<1>5. UsedUp'
  BY DEF LedgerInv, UsedUp, EnterRefused, Return, durableVars, CallAt
<1>6. NoneYet'
  BY DEF LedgerInv, NoneYet, EnterRefused, Return, Free, durableVars, CallAt
<1>7. Owned'
  BY DEF LedgerInv, Owned, EnterRefused, Return, Free, durableVars, Sending,
     CallAt
<1>8. OneSender'
  BY DEF LedgerInv, OneSender, EnterRefused, Return, Free, UnderWay,
     Reserving, CallAt, Sending
<1>9. LeftOnce'
  BY DEF LedgerInv, LeftOnce, EnterRefused, Return, Free, durableVars,
     mailVars, Leaving, NotYetSent, CallAt
<1>10. Truthful'
  BY DEF LedgerInv, Truthful, EnterRefused, Return, Free, durableVars,
     mailVars, CallAt, Leaving, Sending
<1>11. QED  BY <1>1, <1>2, <1>3, <1>4, <1>5, <1>6, <1>7, <1>8,
     <1>9, <1>10 DEF LedgerInv

\* The record is written before the preview is consumed.
LEMMA ReservedKeeps ==
    ASSUME LedgerInv, NEW c \in Callers, Reserved(c)
    PROVE  LedgerInv'
<1>1. PreviewsOK' /\ GatesOK' /\ KnownOK' /\ FaultsOK'
  BY DEF LedgerInv, PreviewsOK, GatesOK, KnownOK, FaultsOK, Reserved,
     mailVars
<1>2. RecordsOK'
  BY DEF LedgerInv, RecordsOK, Busy, Reserved, Outcomes
<1>3. CallsOK'
  BY DEF LedgerInv, CallsOK, Reserved, Step
<1>4. WayOK'
  BY DEF LedgerInv, WayOK, Busy, Reserved, mailVars
<1>5. Busy'
  BY DEF LedgerInv, Busy, Reserved, Step
<1>6. LockHeld'
  BY DEF LedgerInv, LockHeld, Reserved, Step, Reserving, CallAt
<1>7. UsedUp'
  BY DEF LedgerInv, CallsOK, UsedUp, Reserved, Step, CallAt
<1>8. NoneYet'
  BY DEF LedgerInv, CallsOK, NoneYet, OneSender, Reserved, Step, CallAt,
     UnderWay, Reserving
<1>9. OneKey'
  BY DEF LedgerInv, NoneYet, OneKey, Reserved, CallAt
<1>10. Owned'
  BY MessageLedgerAssumption DEF LedgerInv, RecordsOK, Busy, Owned,
     Reserved, NoRecord, Step, Sending, CallAt
<1>11. OneSender'
  BY DEF LedgerInv, OneSender, Reserved, Step, UnderWay, Reserving, CallAt,
     Sending
<1>12. LeftOnce'
  BY MessageLedgerAssumption DEF LedgerInv, LeftOnce, Reserved, NoRecord,
     Step, mailVars, Leaving, NotYetSent, CallAt
<1>13. Truthful'
  BY DEF LedgerInv, RecordsOK, PreviewsOK, CallsOK, GatesOK, WayOK, KnownOK,
     FaultsOK, Busy, NoneYet, Truthful, Reserved, Step, mailVars, CallAt, Leaving,
     Sending
<1>14. OutcomeTruthful'
  BY DEF LedgerInv, OutcomeTruthful, Reserved, mailVars, Leaving
<1>15. QED  BY <1>1, <1>2, <1>3, <1>4, <1>5, <1>6, <1>7, <1>8, <1>9, <1>10,
     <1>11, <1>12, <1>13, <1>14 DEF LedgerInv

\* Another commit of the same message was faster.
LEMMA ReserveReplayKeeps ==
    ASSUME LedgerInv, NEW c \in Callers, ReserveReplay(c)
    PROVE  LedgerInv'
<1>1. /\ RecordsOK' /\ PreviewsOK' /\ WayOK' /\ KnownOK' /\ FaultsOK'
      /\ OneKey' /\ OutcomeTruthful'
  BY DEF LedgerInv, RecordsOK, PreviewsOK, WayOK, KnownOK, FaultsOK, OneKey,
     OutcomeTruthful, ReserveReplay, durableVars, mailVars, Leaving
<1>2. CallsOK'
  BY DEF LedgerInv, CallsOK, ReserveReplay, Step
<1>3. GatesOK'
  BY DEF LedgerInv, GatesOK, Busy, ReserveReplay
<1>4. Busy'
  BY DEF LedgerInv, Busy, ReserveReplay, Step
<1>5. LockHeld'
  BY DEF LedgerInv, Busy, LockHeld, NoneYet, ReserveReplay, CallAt
<1>6. UsedUp'
  BY DEF LedgerInv, UsedUp, ReserveReplay, Step, durableVars, CallAt
<1>7. NoneYet'
  BY DEF LedgerInv, NoneYet, ReserveReplay, Step, durableVars, CallAt
<1>8. Owned'
  BY DEF LedgerInv, Owned, ReserveReplay, Step, durableVars, Sending, CallAt
<1>9. OneSender'
  BY MessageLedgerAssumption DEF LedgerInv, OneSender, ReserveReplay, Step,
     durableVars, UnderWay, Reserving, CallAt, Sending
<1>10. LeftOnce'
  BY DEF LedgerInv, LeftOnce, ReserveReplay, Step, durableVars, mailVars,
     Leaving, NotYetSent, CallAt
<1>11. Truthful'
  BY DEF LedgerInv, Truthful, ReserveReplay, Step, durableVars, mailVars,
     CallAt, Leaving, Sending
<1>12. QED  BY <1>1, <1>2, <1>3, <1>4, <1>5, <1>6, <1>7, <1>8, <1>9,
     <1>10, <1>11 DEF LedgerInv

\* No record is made when the cap is reached or the key was used.
LEMMA ReserveRefusedKeeps ==
    ASSUME LedgerInv, NEW c \in Callers, ReserveRefused(c)
    PROVE  LedgerInv'
<1>1. /\ RecordsOK' /\ PreviewsOK' /\ WayOK' /\ KnownOK' /\ FaultsOK'
      /\ OneKey' /\ OutcomeTruthful'
  BY DEF LedgerInv, RecordsOK, PreviewsOK, WayOK, KnownOK, FaultsOK, OneKey,
     OutcomeTruthful, ReserveRefused, durableVars, mailVars, Leaving
<1>2. CallsOK'
  BY DEF LedgerInv, CallsOK, ReserveRefused, Return, Free
<1>3. GatesOK'
  BY DEF LedgerInv, GatesOK, Busy, ReserveRefused
<1>4. Busy'
  BY DEF LedgerInv, Busy, ReserveRefused, Return, Free
<1>5. LockHeld'
  BY DEF LedgerInv, CallsOK, LockHeld, ReserveRefused, Return, Free,
     Reserving, CallAt
<1>6. UsedUp'
  BY DEF LedgerInv, UsedUp, ReserveRefused, Return, durableVars, CallAt
<1>7. NoneYet'
  BY DEF LedgerInv, NoneYet, ReserveRefused, Return, Free, durableVars, CallAt
<1>8. Owned'
  BY DEF LedgerInv, Owned, ReserveRefused, Return, Free, durableVars,
     Sending, CallAt
<1>9. OneSender'
  BY DEF LedgerInv, OneSender, ReserveRefused, Return, Free, UnderWay,
     Reserving, CallAt, Sending
<1>10. LeftOnce'
  BY DEF LedgerInv, LeftOnce, ReserveRefused, Return, Free, durableVars,
     mailVars, Leaving, NotYetSent, CallAt
<1>11. Truthful'
  BY DEF LedgerInv, Truthful, ReserveRefused, Return, Free, durableVars,
     mailVars, CallAt, Leaving, Sending
<1>12. QED  BY <1>1, <1>2, <1>3, <1>4, <1>5, <1>6, <1>7, <1>8, <1>9,
     <1>10, <1>11 DEF LedgerInv

\* From here on no commit of this preview passes the gateway's lock.
LEMMA ConsumedHeldKeeps ==
    ASSUME LedgerInv, NEW c \in Callers, ConsumedHeld(c)
    PROVE  LedgerInv'
<1>1. RecordsOK' /\ KnownOK' /\ FaultsOK' /\ OneKey' /\ OutcomeTruthful'
  BY DEF LedgerInv, RecordsOK, KnownOK, FaultsOK, OneKey, OutcomeTruthful,
     ConsumedHeld, mailVars, Leaving
<1>2. PreviewsOK'
  BY DEF LedgerInv, PreviewsOK, ConsumedHeld
<1>3. CallsOK'
  BY DEF LedgerInv, CallsOK, ConsumedHeld, Step
<1>4. GatesOK'
  BY DEF LedgerInv, GatesOK, Busy, ConsumedHeld
<1>5. WayOK'
  BY DEF LedgerInv, WayOK, ConsumedHeld, mailVars
<1>6. Busy'
  BY DEF LedgerInv, Busy, ConsumedHeld, Step
<1>7. LockHeld'
  BY DEF LedgerInv, CallsOK, LockHeld, ConsumedHeld, Step, Reserving, CallAt
<1>8. UsedUp'
  BY ConsumedUsedUp
<1>9. NoneYet'
  BY DEF LedgerInv, NoneYet, ConsumedHeld, Step, CallAt
<1>10. Owned'
  BY DEF LedgerInv, Owned, ConsumedHeld, Step, Sending, CallAt
<1>11. OneSender'
  BY DEF LedgerInv, OneSender, ConsumedHeld, Step, UnderWay, Reserving, CallAt,
     Sending
<1>12. LeftOnce'
  BY DEF LedgerInv, LeftOnce, ConsumedHeld, Step, mailVars, Leaving,
     NotYetSent, CallAt
<1>13. Truthful'
  BY DEF LedgerInv, Truthful, ConsumedHeld, Step, mailVars, CallAt, Leaving,
     Sending
<1>14. QED  BY <1>1, <1>2, <1>3, <1>4, <1>5, <1>6, <1>7, <1>8, <1>9, <1>10,
     <1>11, <1>12, <1>13 DEF LedgerInv

\* A preview that expired can never be committed again.
LEMMA ConsumedGoneKeeps ==
    ASSUME LedgerInv, NEW c \in Callers, ConsumedGone(c)
    PROVE  LedgerInv'
<1>1. /\ RecordsOK' /\ PreviewsOK' /\ KnownOK' /\ FaultsOK' /\ OneKey'
      /\ OutcomeTruthful'
  BY DEF LedgerInv, RecordsOK, PreviewsOK, KnownOK, FaultsOK, OneKey,
     OutcomeTruthful, ConsumedGone, mailVars, Leaving
<1>2. CallsOK'
  BY DEF LedgerInv, CallsOK, ConsumedGone, Step
<1>3. GatesOK'
  BY DEF LedgerInv, GatesOK, Busy, ConsumedGone
<1>4. WayOK'
  BY DEF LedgerInv, WayOK, ConsumedGone, mailVars
<1>5. Busy'
  BY DEF LedgerInv, Busy, ConsumedGone, Step
<1>6. LockHeld'
  BY DEF LedgerInv, CallsOK, LockHeld, ConsumedGone, Step, Reserving, CallAt
<1>7. UsedUp'
  BY DEF LedgerInv, UsedUp, ConsumedGone, Step, CallAt
<1>8. NoneYet'
  BY DEF LedgerInv, NoneYet, ConsumedGone, Step, CallAt
<1>9. Owned'
  BY DEF LedgerInv, Owned, ConsumedGone, Step, Sending, CallAt
<1>10. OneSender'
  BY DEF LedgerInv, OneSender, ConsumedGone, Step, UnderWay, Reserving, CallAt,
     Sending
<1>11. LeftOnce'
  BY DEF LedgerInv, LeftOnce, ConsumedGone, Step, mailVars, Leaving,
     NotYetSent, CallAt
<1>12. Truthful'
  BY DEF LedgerInv, Truthful, ConsumedGone, Step, mailVars, CallAt, Leaving,
     Sending
<1>13. QED  BY <1>1, <1>2, <1>3, <1>4, <1>5, <1>6, <1>7, <1>8, <1>9, <1>10,
     <1>11, <1>12 DEF LedgerInv

\* The sender's lock is taken.
LEMMA OpenSessionKeeps ==
    ASSUME LedgerInv, NEW c \in Callers, OpenSession(c)
    PROVE  LedgerInv'
<1>1. /\ RecordsOK' /\ PreviewsOK' /\ GatesOK' /\ KnownOK' /\ FaultsOK'
      /\ OneKey' /\ OutcomeTruthful'
  BY DEF LedgerInv, RecordsOK, PreviewsOK, GatesOK, KnownOK, FaultsOK,
     OneKey, OutcomeTruthful, OpenSession, durableVars, mailVars, Leaving
<1>2. CallsOK'
  BY DEF LedgerInv, CallsOK, OpenSession, Step
<1>3. WayOK'
  BY DEF LedgerInv, WayOK, OpenSession, durableVars, mailVars
<1>4. Busy'
  BY DEF LedgerInv, Busy, OpenSession, Step
<1>5. LockHeld'
  BY DEF LedgerInv, LockHeld, OpenSession, Step, Reserving, CallAt
<1>6. UsedUp'
  BY DEF LedgerInv, UsedUp, OpenSession, Step, durableVars, CallAt
<1>7. NoneYet'
  BY DEF LedgerInv, NoneYet, OpenSession, Step, durableVars, CallAt
<1>8. Owned'
  BY DEF LedgerInv, Owned, OpenSession, Step, durableVars, Sending, CallAt
<1>9. OneSender'
  BY DEF LedgerInv, OneSender, OpenSession, Step, UnderWay, Reserving, CallAt,
     Sending
<1>10. LeftOnce'
  BY DEF LedgerInv, LeftOnce, OpenSession, Step, durableVars, mailVars,
     Leaving, NotYetSent, CallAt
<1>11. Truthful'
  BY DEF LedgerInv, Truthful, OpenSession, Step, durableVars, mailVars, CallAt,
     Leaving, Sending
<1>12. QED  BY <1>1, <1>2, <1>3, <1>4, <1>5, <1>6, <1>7, <1>8, <1>9,
     <1>10, <1>11 DEF LedgerInv

\* Nothing was sent: the outcome is a refusal.
LEMMA SenderBusyKeeps ==
    ASSUME LedgerInv, NEW c \in Callers, SenderBusy(c)
    PROVE  LedgerInv'
<1>1. /\ RecordsOK' /\ PreviewsOK' /\ GatesOK' /\ WayOK' /\ KnownOK'
      /\ FaultsOK' /\ OneKey' /\ OutcomeTruthful'
  BY DEF LedgerInv, RecordsOK, PreviewsOK, GatesOK, WayOK, KnownOK,
     FaultsOK, OneKey, OutcomeTruthful, SenderBusy, durableVars, mailVars,
     Leaving
<1>2. CallsOK'
  BY MessageLedgerAssumption, ConcludesType DEF LedgerInv, RecordsOK,
     PreviewsOK, CallsOK, SenderBusy, Concludes, durableVars, Outcomes
<1>3. Busy'
  BY DEF LedgerInv, Busy, SenderBusy, Concludes, Outcomes
<1>4. LockHeld'
  BY DEF LedgerInv, LockHeld, SenderBusy, Concludes, Reserving, CallAt
<1>5. UsedUp'
  BY DEF LedgerInv, UsedUp, SenderBusy, Concludes, durableVars, CallAt
<1>6. NoneYet'
  BY DEF LedgerInv, NoneYet, SenderBusy, Concludes, durableVars, CallAt
<1>7. Owned'
  BY DEF LedgerInv, Owned, SenderBusy, Concludes, durableVars, Sending, CallAt
<1>8. OneSender'
  BY DEF LedgerInv, OneSender, SenderBusy, Concludes, UnderWay, Reserving,
     CallAt, Sending
<1>9. LeftOnce'
  BY DEF LedgerInv, LeftOnce, SenderBusy, Concludes, durableVars, mailVars,
     Leaving, NotYetSent, CallAt
<1>10. Truthful'
  BY DEF LedgerInv, LeftOnce, Truthful, SenderBusy, Concludes, durableVars,
     mailVars, CallAt, Leaving, Sending, NotYetSent
<1>11. QED  BY <1>1, <1>2, <1>3, <1>4, <1>5, <1>6, <1>7, <1>8,
     <1>9, <1>10 DEF LedgerInv

\* The only step by which a message leaves.
LEMMA SendsKeeps ==
    ASSUME LedgerInv, NEW c \in Callers, Sends(c)
    PROVE  LedgerInv'
<1>1. /\ RecordsOK' /\ PreviewsOK' /\ GatesOK' /\ KnownOK' /\ FaultsOK'
      /\ OneKey'
  BY DEF LedgerInv, RecordsOK, PreviewsOK, GatesOK, KnownOK, FaultsOK,
     OneKey, Sends, durableVars
<1>2. CallsOK'
  BY DEF LedgerInv, CallsOK, Sends, Step
<1>3. WayOK'
  BY DEF LedgerInv, WayOK, Busy, Sends, durableVars
<1>4. Busy'
  BY DEF LedgerInv, Busy, Sends, Step
<1>5. LockHeld'
  BY DEF LedgerInv, LockHeld, Sends, Step, Reserving, CallAt
<1>6. UsedUp'
  BY DEF LedgerInv, UsedUp, Sends, Step, durableVars, CallAt
<1>7. NoneYet'
  BY DEF LedgerInv, NoneYet, Sends, Step, durableVars, CallAt
<1>8. Owned'
  BY DEF LedgerInv, Owned, Sends, Step, durableVars, Sending, CallAt
<1>9. OneSender'
  BY DEF LedgerInv, OneSender, Sends, Step, UnderWay, Reserving, CallAt, Sending
<1>10. LeftOnce'
  BY DEF LedgerInv, CallsOK, FaultsOK, Busy, LockHeld, UsedUp, NoneYet,
     OneKey, Owned, OneSender, LeftOnce, Sends, Step, durableVars, Leaving,
     NotYetSent, CallAt, Sending, UnderWay
<1>11. Truthful'
  BY DEF LedgerInv, OneSender, Truthful, Sends, Step, durableVars, CallAt,
     Leaving, Sending, UnderWay
<1>12. OutcomeTruthful'
  BY DEF LedgerInv, Truthful, OutcomeTruthful, Sends, durableVars, Leaving,
     CallAt, Sending
<1>13. QED  BY <1>1, <1>2, <1>3, <1>4, <1>5, <1>6, <1>7, <1>8, <1>9, <1>10,
     <1>11, <1>12 DEF LedgerInv

\* Nothing was sent: the outcome is a refusal.
LEMMA DiffersKeeps ==
    ASSUME LedgerInv, NEW c \in Callers, Differs(c)
    PROVE  LedgerInv'
<1>1. /\ RecordsOK' /\ PreviewsOK' /\ GatesOK' /\ KnownOK' /\ FaultsOK'
      /\ OneKey' /\ OutcomeTruthful'
  BY DEF LedgerInv, RecordsOK, PreviewsOK, GatesOK, KnownOK, FaultsOK,
     OneKey, OutcomeTruthful, Differs, durableVars, Leaving
<1>2. CallsOK'
  BY ConcludesType DEF LedgerInv, CallsOK, Differs, Outcomes
<1>3. WayOK'
  BY DEF LedgerInv, WayOK, Differs, durableVars
<1>4. Busy'
  BY DEF LedgerInv, Busy, Differs, Concludes, Outcomes
<1>5. LockHeld'
  BY DEF LedgerInv, LockHeld, Differs, Concludes, Reserving, CallAt
<1>6. UsedUp'
  BY DEF LedgerInv, UsedUp, Differs, Concludes, durableVars, CallAt
<1>7. NoneYet'
  BY DEF LedgerInv, NoneYet, Differs, Concludes, durableVars, CallAt
<1>8. Owned'
  BY DEF LedgerInv, Owned, Differs, Concludes, durableVars, Sending, CallAt
<1>9. OneSender'
  BY DEF LedgerInv, OneSender, Differs, Concludes, UnderWay, Reserving, CallAt,
     Sending
<1>10. LeftOnce'
  BY DEF LedgerInv, LeftOnce, Differs, Concludes, durableVars, Leaving,
     NotYetSent, CallAt
<1>11. Truthful'
  BY DEF LedgerInv, LeftOnce, Truthful, Differs, Concludes, durableVars, CallAt,
     Leaving, Sending, NotYetSent
<1>12. QED  BY <1>1, <1>2, <1>3, <1>4, <1>5, <1>6, <1>7, <1>8, <1>9,
     <1>10, <1>11 DEF LedgerInv

\* Mail refused it and will not store it.
LEMMA RefusedKeeps ==
    ASSUME LedgerInv, NEW c \in Callers, Refused(c)
    PROVE  LedgerInv'
<1>1. /\ RecordsOK' /\ PreviewsOK' /\ GatesOK' /\ KnownOK' /\ FaultsOK'
      /\ OneKey'
  BY DEF LedgerInv, RecordsOK, PreviewsOK, GatesOK, KnownOK, FaultsOK,
     OneKey, Refused, durableVars
<1>2. CallsOK'
  BY ConcludesType DEF LedgerInv, CallsOK, Refused, Concludes, durableVars,
     Outcomes
<1>3. WayOK'
  BY DEF LedgerInv, WayOK, Refused, durableVars
<1>4. Busy'
  BY DEF LedgerInv, Busy, Refused, Concludes, Outcomes
<1>5. LockHeld'
  BY DEF LedgerInv, LockHeld, Refused, Concludes, Reserving, CallAt
<1>6. UsedUp'
  BY DEF LedgerInv, UsedUp, Refused, Concludes, durableVars, CallAt
<1>7. NoneYet'
  BY DEF LedgerInv, NoneYet, Refused, Concludes, durableVars, CallAt
<1>8. Owned'
  BY DEF LedgerInv, Owned, Refused, Concludes, durableVars, Sending, CallAt
<1>9. OneSender'
  BY DEF LedgerInv, OneSender, Refused, Concludes, UnderWay, Reserving, CallAt,
     Sending
<1>10. LeftOnce'
  BY DEF LedgerInv, LeftOnce, Refused, Concludes, durableVars, Leaving,
     NotYetSent, CallAt
<1>11. Truthful'
  BY DEF LedgerInv, Busy, LeftOnce, Truthful, Refused, Concludes,
     durableVars, CallAt, Leaving, Sending
<1>12. OutcomeTruthful'
  BY DEF LedgerInv, OutcomeTruthful, Refused, durableVars, Leaving
<1>13. QED  BY <1>1, <1>2, <1>3, <1>4, <1>5, <1>6, <1>7, <1>8, <1>9, <1>10,
     <1>11, <1>12 DEF LedgerInv

\* Mail has it.
LEMMA ReceiptKeeps ==
    ASSUME LedgerInv, NEW c \in Callers, Receipt(c)
    PROVE  LedgerInv'
<1>1. /\ RecordsOK' /\ PreviewsOK' /\ GatesOK' /\ KnownOK' /\ FaultsOK'
      /\ OneKey' /\ OutcomeTruthful'
  BY DEF LedgerInv, RecordsOK, PreviewsOK, GatesOK, KnownOK, FaultsOK,
     OneKey, OutcomeTruthful, Receipt, durableVars, mailVars, Leaving
<1>2. CallsOK'
  BY ConcludesType DEF LedgerInv, CallsOK, Receipt, Outcomes
<1>3. WayOK'
  BY DEF LedgerInv, WayOK, Receipt, durableVars, mailVars
<1>4. Busy'
  BY DEF LedgerInv, Busy, Receipt, Concludes, Outcomes
<1>5. LockHeld'
  BY DEF LedgerInv, LockHeld, Receipt, Concludes, Reserving, CallAt
<1>6. UsedUp'
  BY DEF LedgerInv, UsedUp, Receipt, Concludes, durableVars, CallAt
<1>7. NoneYet'
  BY DEF LedgerInv, NoneYet, Receipt, Concludes, durableVars, CallAt
<1>8. Owned'
  BY DEF LedgerInv, Owned, Receipt, Concludes, durableVars, Sending, CallAt
<1>9. OneSender'
  BY DEF LedgerInv, OneSender, Receipt, Concludes, UnderWay, Reserving, CallAt,
     Sending
<1>10. LeftOnce'
  BY MessageLedgerAssumption DEF LedgerInv, LeftOnce, Receipt, Concludes,
     durableVars, mailVars, Leaving, NotYetSent, CallAt
<1>11. Truthful'
  BY DEF LedgerInv, Truthful, Receipt, Concludes, durableVars, mailVars, CallAt,
     Leaving, Sending
<1>12. QED  BY <1>1, <1>2, <1>3, <1>4, <1>5, <1>6, <1>7, <1>8, <1>9,
     <1>10, <1>11 DEF LedgerInv

\* Nothing is known of it, and so the outcome is unknown.
LEMMA NoReceiptKeeps ==
    ASSUME LedgerInv, NEW c \in Callers, NoReceipt(c)
    PROVE  LedgerInv'
<1>1. RecordsOK' /\ PreviewsOK' /\ GatesOK' /\ KnownOK' /\ OneKey'
  BY DEF LedgerInv, RecordsOK, PreviewsOK, GatesOK, KnownOK, OneKey,
     NoReceipt, durableVars
<1>2. CallsOK'
  BY ConcludesType DEF LedgerInv, CallsOK, NoReceipt, Outcomes
<1>3. WayOK'
  BY DEF LedgerInv, WayOK, NoReceipt, durableVars
<1>4. FaultsOK'
  BY MessageLedgerAssumption DEF LedgerInv, FaultsOK, NoReceipt,
     GatewayFault
<1>5. Busy'
  BY DEF LedgerInv, Busy, NoReceipt, Concludes, Outcomes
<1>6. LockHeld'
  BY DEF LedgerInv, LockHeld, NoReceipt, Concludes, Reserving, CallAt
<1>7. UsedUp'
  BY DEF LedgerInv, UsedUp, NoReceipt, Concludes, durableVars, CallAt
<1>8. NoneYet'
  BY DEF LedgerInv, NoneYet, NoReceipt, Concludes, durableVars, CallAt
<1>9. Owned'
  BY DEF LedgerInv, Owned, NoReceipt, Concludes, durableVars, Sending, CallAt
<1>10. OneSender'
  BY DEF LedgerInv, OneSender, NoReceipt, Concludes, UnderWay, Reserving,
     CallAt, Sending
<1>11. LeftOnce'
  BY DEF LedgerInv, LeftOnce, NoReceipt, Concludes, durableVars, Leaving,
     NotYetSent, CallAt
<1>12. Truthful'
  BY DEF LedgerInv, Truthful, NoReceipt, Concludes, durableVars, CallAt,
     Leaving, Sending
<1>13. OutcomeTruthful'
  BY DEF LedgerInv, OutcomeTruthful, NoReceipt, durableVars, Leaving
<1>14. QED  BY <1>1, <1>2, <1>3, <1>4, <1>5, <1>6, <1>7, <1>8, <1>9, <1>10,
     <1>11, <1>12, <1>13 DEF LedgerInv

\* The outcome reaches the record of its own message.
LEMMA FinishKeeps ==
    ASSUME LedgerInv, NEW c \in Callers, Finish(c)
    PROVE  LedgerInv'
<1>1. PreviewsOK' /\ GatesOK' /\ WayOK' /\ KnownOK' /\ FaultsOK'
  BY DEF LedgerInv, PreviewsOK, GatesOK, WayOK, KnownOK, FaultsOK, Finish,
     mailVars
<1>2. RecordsOK'
  BY DEF LedgerInv, RecordsOK, Busy, Owned, Finish, NoRecord, CallAt
<1>3. CallsOK'
  BY DEF LedgerInv, CallsOK, Finish, Return, Free
<1>4. Busy'
  BY DEF LedgerInv, Busy, Finish, Return, Free
<1>5. LockHeld'
  BY DEF LedgerInv, LockHeld, Finish, Return, Free, Reserving, CallAt
<1>6. UsedUp'
  BY FinishUsedUp
<1>7. NoneYet'
  BY DEF LedgerInv, NoneYet, Finish, Return, Free, CallAt
<1>8. OneKey'
  BY MessageLedgerAssumption DEF LedgerInv, Busy, OneKey, Owned, Finish,
     NoRecord, CallAt
<1>9. Owned'
  BY DEF LedgerInv, Owned, Finish, Return, Free, Sending, CallAt
<1>10. OneSender'
  BY DEF LedgerInv, OneSender, Finish, Return, Free, UnderWay, Reserving,
     CallAt, Sending
<1>11. LeftOnce'
  BY DEF LedgerInv, LeftOnce, Finish, Return, Free, mailVars, Leaving,
     NotYetSent, CallAt
<1>12. Truthful'
  BY DEF LedgerInv, CallsOK, Owned, OneSender, Truthful, Finish, Return,
     Free, mailVars, CallAt, Leaving, Sending, UnderWay
<1>13. OutcomeTruthful'
  BY DEF LedgerInv, Owned, Truthful, OutcomeTruthful, Finish, mailVars,
     Leaving, CallAt
<1>14. QED  BY <1>1, <1>2, <1>3, <1>4, <1>5, <1>6, <1>7, <1>8, <1>9, <1>10,
     <1>11, <1>12, <1>13 DEF LedgerInv

\* The record stays open.
LEMMA FinishFailsKeeps ==
    ASSUME LedgerInv, NEW c \in Callers, FinishFails(c)
    PROVE  LedgerInv'
<1>1. /\ RecordsOK' /\ PreviewsOK' /\ GatesOK' /\ WayOK' /\ KnownOK'
      /\ OneKey' /\ OutcomeTruthful'
  BY DEF LedgerInv, RecordsOK, PreviewsOK, GatesOK, WayOK, KnownOK, OneKey,
     OutcomeTruthful, FinishFails, durableVars, mailVars, Leaving
<1>2. CallsOK'
  BY DEF LedgerInv, CallsOK, FinishFails, Return, Free
<1>3. FaultsOK'
  BY MessageLedgerAssumption DEF LedgerInv, FaultsOK, FinishFails,
     GatewayFault
<1>4. Busy'
  BY DEF LedgerInv, Busy, FinishFails, Return, Free
<1>5. LockHeld'
  BY DEF LedgerInv, LockHeld, FinishFails, Return, Free, Reserving, CallAt
<1>6. UsedUp'
  BY DEF LedgerInv, UsedUp, FinishFails, Return, durableVars, CallAt
<1>7. NoneYet'
  BY DEF LedgerInv, NoneYet, FinishFails, Return, Free, durableVars, CallAt
<1>8. Owned'
  BY DEF LedgerInv, Owned, FinishFails, Return, Free, durableVars, Sending,
     CallAt
<1>9. OneSender'
  BY DEF LedgerInv, OneSender, FinishFails, Return, Free, UnderWay,
     Reserving, CallAt, Sending
<1>10. LeftOnce'
  BY DEF LedgerInv, LeftOnce, FinishFails, Return, Free, durableVars,
     mailVars, Leaving, NotYetSent, CallAt
<1>11. Truthful'
  BY DEF LedgerInv, Truthful, FinishFails, Return, Free, durableVars,
     mailVars, CallAt, Leaving, Sending
<1>12. QED  BY <1>1, <1>2, <1>3, <1>4, <1>5, <1>6, <1>7, <1>8, <1>9,
     <1>10, <1>11 DEF LedgerInv

\* Only a copy in Mail reconciles.
LEMMA ReconcilesKeeps ==
    ASSUME LedgerInv, NEW c \in Callers, Reconciles(c)
    PROVE  LedgerInv'
<1>1. /\ RecordsOK' /\ PreviewsOK' /\ GatesOK' /\ WayOK' /\ KnownOK'
      /\ FaultsOK' /\ OneKey' /\ OutcomeTruthful'
  BY DEF LedgerInv, RecordsOK, PreviewsOK, GatesOK, WayOK, KnownOK,
     FaultsOK, OneKey, OutcomeTruthful, Reconciles, durableVars, mailVars,
     Leaving
<1>2. CallsOK'
  BY MessageLedgerAssumption, ConcludesType DEF LedgerInv, CallsOK,
     Reconciles, Outcomes
<1>3. Busy'
  BY DEF LedgerInv, Busy, Reconciles, Concludes, Outcomes
<1>4. LockHeld'
  BY DEF LedgerInv, LockHeld, Reconciles, Concludes, Reserving, CallAt
<1>5. UsedUp'
  BY DEF LedgerInv, UsedUp, Reconciles, Concludes, durableVars, CallAt
<1>6. NoneYet'
  BY DEF LedgerInv, NoneYet, Reconciles, Concludes, durableVars, CallAt
<1>7. Owned'
  BY DEF LedgerInv, Owned, Reconciles, Concludes, durableVars, Sending, CallAt
<1>8. OneSender'
  BY DEF LedgerInv, OneSender, Reconciles, Concludes, UnderWay, Reserving,
     CallAt, Sending
<1>9. LeftOnce'
  BY DEF LedgerInv, LeftOnce, Reconciles, Concludes, durableVars, mailVars,
     Leaving, NotYetSent, CallAt
<1>10. Truthful'
  BY DEF LedgerInv, Truthful, Reconciles, Concludes, durableVars, mailVars,
     CallAt, Leaving, Sending
<1>11. QED  BY <1>1, <1>2, <1>3, <1>4, <1>5, <1>6, <1>7, <1>8,
     <1>9, <1>10 DEF LedgerInv

\* A look that shows nothing changes nothing.
LEMMA LookedKeeps ==
    ASSUME LedgerInv, NEW c \in Callers, Looked(c)
    PROVE  LedgerInv'
<1>1. /\ RecordsOK' /\ PreviewsOK' /\ GatesOK' /\ WayOK' /\ KnownOK'
      /\ FaultsOK' /\ OneKey' /\ OutcomeTruthful'
  BY DEF LedgerInv, RecordsOK, PreviewsOK, GatesOK, WayOK, KnownOK,
     FaultsOK, OneKey, OutcomeTruthful, Looked, durableVars, mailVars, Leaving
<1>2. CallsOK'
  BY DEF LedgerInv, CallsOK, Looked, Return, Free
<1>3. Busy'
  BY DEF LedgerInv, Busy, Looked, Return, Free
<1>4. LockHeld'
  BY DEF LedgerInv, LockHeld, Looked, Return, Free, Reserving, CallAt
<1>5. UsedUp'
  BY DEF LedgerInv, UsedUp, Looked, Return, durableVars, CallAt
<1>6. NoneYet'
  BY DEF LedgerInv, NoneYet, Looked, Return, Free, durableVars, CallAt
<1>7. Owned'
  BY DEF LedgerInv, Owned, Looked, Return, Free, durableVars, Sending, CallAt
<1>8. OneSender'
  BY DEF LedgerInv, OneSender, Looked, Return, Free, UnderWay, Reserving,
     CallAt, Sending
<1>9. LeftOnce'
  BY DEF LedgerInv, LeftOnce, Looked, Return, Free, durableVars, mailVars,
     Leaving, NotYetSent, CallAt
<1>10. Truthful'
  BY DEF LedgerInv, Truthful, Looked, Return, Free, durableVars, mailVars,
     CallAt, Leaving, Sending
<1>11. QED  BY <1>1, <1>2, <1>3, <1>4, <1>5, <1>6, <1>7, <1>8,
     <1>9, <1>10 DEF LedgerInv

\* A key without a record goes on, an open one is looked up.
LEMMA CommitKeeps ==
    ASSUME LedgerInv, NEW c \in Callers, NEW g \in Gateways, NEW p \in Previews,
           NEW k \in Keys, Commit(c, g, p, k)
    PROVE  LedgerInv'
<1>1. /\ RecordsOK' /\ PreviewsOK' /\ GatesOK' /\ WayOK' /\ KnownOK'
      /\ FaultsOK' /\ OneKey' /\ OutcomeTruthful'
  BY DEF LedgerInv, RecordsOK, PreviewsOK, GatesOK, WayOK, KnownOK,
     FaultsOK, OneKey, OutcomeTruthful, Commit, durableVars, mailVars, Leaving
<1>2. CallsOK'
  BY DEF LedgerInv, CallsOK, Commit, Open, Outcomes
<1>3. Busy'
  BY DEF LedgerInv, RecordsOK, PreviewsOK, CallsOK, GatesOK, Busy, LockHeld,
     Commit, Reserving, CallAt
<1>4. LockHeld'
  BY DEF LedgerInv, CallsOK, LockHeld, Commit, Reserving, CallAt
<1>5. UsedUp'
  BY DEF LedgerInv, CallsOK, UsedUp, Commit, Free, durableVars, CallAt
<1>6. NoneYet'
  BY DEF LedgerInv, CallsOK, NoneYet, Commit, durableVars, CallAt
<1>7. Owned'
  BY DEF LedgerInv, CallsOK, Owned, Commit, durableVars, Sending, CallAt
<1>8. OneSender'
  BY DEF LedgerInv, CallsOK, OneSender, Commit, UnderWay, Reserving, CallAt,
     Sending
<1>9. LeftOnce'
  BY DEF LedgerInv, CallsOK, LeftOnce, Commit, durableVars, mailVars,
     Leaving, NotYetSent, CallAt
<1>10. Truthful'
  BY DEF LedgerInv, CallsOK, Truthful, Commit, durableVars, mailVars, CallAt,
     Leaving, Sending
<1>11. QED  BY <1>1, <1>2, <1>3, <1>4, <1>5, <1>6, <1>7, <1>8,
     <1>9, <1>10 DEF LedgerInv

\* The call looks up the message of the record.
LEMMA StatusKeeps ==
    ASSUME LedgerInv, NEW c \in Callers, NEW g \in Gateways, NEW k \in Keys, Status(c, g, k)
    PROVE  LedgerInv'
<1>1. /\ RecordsOK' /\ PreviewsOK' /\ GatesOK' /\ WayOK' /\ KnownOK'
      /\ FaultsOK' /\ OneKey' /\ OutcomeTruthful'
  BY DEF LedgerInv, RecordsOK, PreviewsOK, GatesOK, WayOK, KnownOK,
     FaultsOK, OneKey, OutcomeTruthful, Status, durableVars, mailVars, Leaving
<1>2. CallsOK'
  BY DEF LedgerInv, RecordsOK, CallsOK, Status, NoRecord
<1>3. Busy'
  BY DEF LedgerInv, RecordsOK, Busy, Status, Recorded
<1>4. LockHeld'
  BY DEF LedgerInv, LockHeld, Status, Reserving, CallAt
<1>5. UsedUp'
  BY DEF LedgerInv, UsedUp, Status, Free, durableVars, CallAt
<1>6. NoneYet'
  BY DEF LedgerInv, NoneYet, Status, durableVars, CallAt
<1>7. Owned'
  BY DEF LedgerInv, Owned, Status, NoRecord, durableVars, mailVars, Sending,
     CallAt
<1>8. OneSender'
  BY DEF LedgerInv, OneSender, Status, UnderWay, Reserving, CallAt, Sending
<1>9. LeftOnce'
  BY DEF LedgerInv, LeftOnce, Status, durableVars, mailVars, Leaving,
     NotYetSent, CallAt
<1>10. Truthful'
  BY DEF LedgerInv, Truthful, Status, durableVars, mailVars, CallAt, Leaving,
     Sending
<1>11. QED  BY <1>1, <1>2, <1>3, <1>4, <1>5, <1>6, <1>7, <1>8,
     <1>9, <1>10 DEF LedgerInv

\* A new preview has no record: its id was never used.
LEMMA PreviewKeeps ==
    ASSUME LedgerInv, NEW g \in Gateways, NEW p \in Previews, Preview(g, p)
    PROVE  LedgerInv'
<1>1. /\ RecordsOK' /\ CallsOK' /\ GatesOK' /\ WayOK' /\ KnownOK'
      /\ FaultsOK' /\ Busy' /\ NoneYet' /\ OneKey' /\ Owned'
      /\ OneSender' /\ LeftOnce' /\ Truthful' /\ OutcomeTruthful'
  BY DEF LedgerInv, RecordsOK, CallsOK, GatesOK, WayOK, KnownOK, FaultsOK,
     Busy, NoneYet, OneKey, Owned, OneSender, LeftOnce, Truthful,
     OutcomeTruthful, Preview, durableVars, mailVars, CallAt, Sending, UnderWay,
     Reserving, Leaving, NotYetSent
<1>2. PreviewsOK'
  BY DEF LedgerInv, PreviewsOK, Preview
<1>3. LockHeld'
  BY MessageLedgerAssumption DEF LedgerInv, Busy, LockHeld, Preview, Unmade,
     Reserving, CallAt, Gone
<1>4. UsedUp'
  BY DEF LedgerInv, UsedUp, Preview, Unmade, durableVars, Gone, CallAt
<1>5. QED  BY <1>1, <1>2, <1>3, <1>4 DEF LedgerInv

\* An expired preview is gone for good.
LEMMA ExpireKeeps ==
    ASSUME LedgerInv, NEW p \in Previews, Expire(p)
    PROVE  LedgerInv'
<1>1. /\ RecordsOK' /\ CallsOK' /\ GatesOK' /\ WayOK' /\ KnownOK'
      /\ FaultsOK' /\ Busy' /\ NoneYet' /\ OneKey' /\ Owned'
      /\ OneSender' /\ LeftOnce' /\ Truthful' /\ OutcomeTruthful'
  BY DEF LedgerInv, RecordsOK, CallsOK, GatesOK, WayOK, KnownOK, FaultsOK,
     Busy, NoneYet, OneKey, Owned, OneSender, LeftOnce, Truthful,
     OutcomeTruthful, Expire, durableVars, mailVars, CallAt, Sending, UnderWay,
     Reserving, Leaving, NotYetSent
<1>2. PreviewsOK'
  BY DEF LedgerInv, PreviewsOK, Expire, Gone
<1>3. LockHeld'
  BY DEF LedgerInv, LockHeld, Expire, Reserving, CallAt
<1>4. UsedUp'
  BY DEF LedgerInv, UsedUp, Expire, durableVars, CallAt
<1>5. QED  BY <1>1, <1>2, <1>3, <1>4 DEF LedgerInv

\* Approvals do not touch the ledger.
LEMMA ApproveKeeps ==
    ASSUME LedgerInv, NEW p \in Previews, Approve(p)
    PROVE  LedgerInv'
<1>1. /\ RecordsOK' /\ PreviewsOK' /\ CallsOK' /\ GatesOK' /\ KnownOK'
      /\ FaultsOK' /\ Busy' /\ LockHeld' /\ UsedUp' /\ NoneYet'
      /\ OneKey' /\ Owned' /\ OneSender' /\ LeftOnce' /\ Truthful'
      /\ OutcomeTruthful'
  BY DEF LedgerInv, RecordsOK, PreviewsOK, CallsOK, GatesOK, KnownOK,
     FaultsOK, Busy, LockHeld, UsedUp, NoneYet, OneKey, Owned, OneSender,
     LeftOnce, Truthful, OutcomeTruthful, Approve, mailVars, Reserving, CallAt,
     Sending, UnderWay, Leaving, NotYetSent
<1>2. WayOK'
  BY DEF LedgerInv, WayOK, Approve, mailVars
<1>3. QED  BY <1>1, <1>2 DEF LedgerInv

\* What is under way becomes the one copy.
LEMMA MailStoresKeeps ==
    ASSUME LedgerInv, NEW p \in Previews, MailStores(p)
    PROVE  LedgerInv'
<1>1. /\ RecordsOK' /\ PreviewsOK' /\ CallsOK' /\ GatesOK' /\ KnownOK'
      /\ FaultsOK' /\ Busy' /\ LockHeld' /\ UsedUp' /\ NoneYet'
      /\ OneKey' /\ Owned' /\ OneSender'
  BY DEF LedgerInv, RecordsOK, PreviewsOK, CallsOK, GatesOK, KnownOK,
     FaultsOK, Busy, LockHeld, UsedUp, NoneYet, OneKey, Owned, OneSender,
     MailStores, durableVars, Reserving, CallAt, Sending, UnderWay
<1>2. WayOK'
  BY DEF LedgerInv, WayOK, MailStores, durableVars
<1>3. LeftOnce'
  BY DEF LedgerInv, LeftOnce, MailStores, durableVars, Leaving, NotYetSent,
     CallAt
<1>4. Truthful'
  BY DEF LedgerInv, LeftOnce, Truthful, MailStores, durableVars, CallAt,
     Leaving, Sending
<1>5. OutcomeTruthful'
  BY DEF LedgerInv, LeftOnce, OutcomeTruthful, MailStores, durableVars,
     Leaving
<1>6. QED  BY <1>1, <1>2, <1>3, <1>4, <1>5 DEF LedgerInv

\* The cap forgets a record, the ledger does not.
LEMMA HourPassesKeeps ==
    ASSUME LedgerInv, NEW k \in Keys, HourPasses(k)
    PROVE  LedgerInv'
<1>1. /\ RecordsOK' /\ PreviewsOK' /\ CallsOK' /\ GatesOK' /\ KnownOK'
      /\ FaultsOK' /\ Busy' /\ LockHeld' /\ UsedUp' /\ NoneYet'
      /\ OneKey' /\ Owned' /\ OneSender' /\ LeftOnce' /\ Truthful'
      /\ OutcomeTruthful'
  BY DEF LedgerInv, RecordsOK, PreviewsOK, CallsOK, GatesOK, KnownOK,
     FaultsOK, Busy, LockHeld, UsedUp, NoneYet, OneKey, Owned, OneSender,
     LeftOnce, Truthful, OutcomeTruthful, HourPasses, mailVars, Reserving, CallAt,
     Sending, UnderWay, Leaving, NotYetSent
<1>2. WayOK'
  BY DEF LedgerInv, WayOK, HourPasses, mailVars
<1>3. QED  BY <1>1, <1>2 DEF LedgerInv

\* The recipient's row is none of the ledger's.
LEMMA RecipientChangesKeeps ==
    ASSUME LedgerInv, RecipientChanges
    PROVE  LedgerInv'
<1>1. /\ RecordsOK' /\ PreviewsOK' /\ CallsOK' /\ GatesOK' /\ WayOK'
      /\ Busy' /\ LockHeld' /\ UsedUp' /\ NoneYet' /\ OneKey' /\ Owned'
      /\ OneSender' /\ LeftOnce' /\ Truthful' /\ OutcomeTruthful'
  BY DEF LedgerInv, RecordsOK, PreviewsOK, CallsOK, GatesOK, WayOK, Busy,
     LockHeld, UsedUp, NoneYet, OneKey, Owned, OneSender, LeftOnce, Truthful,
     OutcomeTruthful, RecipientChanges, durableVars, Reserving, CallAt, Sending,
     UnderWay, Leaving, NotYetSent
<1>2. KnownOK'
  BY DEF LedgerInv, KnownOK, RecipientChanges
<1>3. FaultsOK'
  BY MessageLedgerAssumption DEF LedgerInv, FaultsOK, RecipientChanges,
     GatewayFault
<1>4. QED  BY <1>1, <1>2, <1>3 DEF LedgerInv

\* With a gateway its calls, previews and locks are gone; records stay.
LEMMA GatewayStopsKeeps ==
    ASSUME LedgerInv, NEW g \in Gateways, GatewayStops(g)
    PROVE  LedgerInv'
<1>1. RecordsOK' /\ KnownOK' /\ OneKey' /\ OutcomeTruthful'
  BY DEF LedgerInv, RecordsOK, KnownOK, OneKey, OutcomeTruthful,
     GatewayStops, durableVars, mailVars, Leaving
<1>2. PreviewsOK'
  BY DEF LedgerInv, PreviewsOK, GatewayStops, Gone
<1>3. CallsOK'
  BY DEF LedgerInv, CallsOK, GatewayStops, Free
<1>4. GatesOK'
  BY DEF LedgerInv, GatesOK, GatewayStops
<1>5. WayOK'
  BY DEF LedgerInv, WayOK, GatewayStops, durableVars, mailVars
<1>6. FaultsOK'
  BY MessageLedgerAssumption DEF LedgerInv, FaultsOK, GatewayStops,
     GatewayFault
<1>7. Busy'
  BY DEF LedgerInv, Busy, GatewayStops, Free
<1>8. LockHeld'
  BY DEF LedgerInv, Busy, LockHeld, GatewayStops, Free, Reserving, CallAt
<1>9. UsedUp'
  BY DEF LedgerInv, RecordsOK, CallsOK, LockHeld, UsedUp, GatewayStops,
     durableVars, CallAt, Reserving
<1>10. NoneYet'
  BY DEF LedgerInv, NoneYet, GatewayStops, Free, durableVars, CallAt
<1>11. Owned'
  BY DEF LedgerInv, Owned, GatewayStops, Free, durableVars, Sending, CallAt
<1>12. OneSender'
  BY DEF LedgerInv, OneSender, GatewayStops, Free, UnderWay, Reserving, CallAt,
     Sending
<1>13. LeftOnce'
  BY DEF LedgerInv, LeftOnce, GatewayStops, Free, durableVars, mailVars,
     Leaving, NotYetSent, CallAt
<1>14. Truthful'
  BY DEF LedgerInv, Truthful, GatewayStops, Free, durableVars, mailVars, CallAt,
     Leaving, Sending
<1>15. QED  BY <1>1, <1>2, <1>3, <1>4, <1>5, <1>6, <1>7, <1>8, <1>9, <1>10,
     <1>11, <1>12, <1>13, <1>14 DEF LedgerInv

\* At the start there is no record and no call.
LEMMA LedgerInvStart == LedgerInit => LedgerInv
BY MessageLedgerAssumption DEF LedgerInit, LedgerInv, RecordsOK, PreviewsOK, CallsOK,
   GatesOK, WayOK, KnownOK, FaultsOK, Busy, LockHeld, UsedUp, NoneYet, OneKey, Owned,
   OneSender, LeftOnce, Truthful, OutcomeTruthful, Leaving, NoRecord, Unmade, Free,
   Reserving, Sending, UnderWay, NotYetSent, CallAt

\* Every step of a call, of Mail and of the gateways keeps it.
LEMMA LedgerInvStep == LedgerInv /\ [LedgerNext]_ledgerVars => LedgerInv'
<1> SUFFICES ASSUME LedgerInv, [LedgerNext]_ledgerVars  PROVE LedgerInv'
  OBVIOUS
<1>1. ASSUME NEW c \in Callers, CallStep(c)  PROVE LedgerInv'
  <2>1. CASE EnterCommit(c)
    BY <2>1, EnterSendCases, EnterGrantedKeeps, EnterReplayKeeps, EnterRefusedKeeps
  <2>2. CASE Reserve(c) \/ ConsumePreview(c)
    BY <2>2, ReserveCases, ConsumeCases, ReservedKeeps, ReserveReplayKeeps,
       ReserveRefusedKeeps, ConsumedHeldKeeps, ConsumedGoneKeeps
  <2>3. CASE OpenSession(c) \/ SenderBusy(c) \/ VerifyAndSend(c)
    BY <2>3, VerifyCases, OpenSessionKeeps, SenderBusyKeeps, SendsKeeps, DiffersKeeps
  <2>4. CASE Refused(c) \/ Receipt(c) \/ NoReceipt(c) \/ Finish(c) \/ FinishFails(c)
    BY <2>4, RefusedKeeps, ReceiptKeeps, NoReceiptKeeps, FinishKeeps, FinishFailsKeeps
  <2>5. CASE Observe(c)
    BY <2>5, ObserveCases, ReconcilesKeeps, LookedKeeps
  <2>6. QED
    BY <1>1, <2>1, <2>2, <2>3, <2>4, <2>5 DEF CallStep
<1>2. ASSUME NEW c \in Callers, NEW g \in Gateways, NEW p \in Previews, NEW k \in Keys,
             Commit(c, g, p, k)
      PROVE  LedgerInv'
  BY <1>2, CommitKeeps
<1>3. ASSUME NEW g \in Gateways, NEW p \in Previews, Preview(g, p)  PROVE LedgerInv'
  BY <1>3, PreviewKeeps
<1>4. ASSUME NEW p \in Previews, Expire(p) \/ Approve(p) \/ MailStores(p)
      PROVE  LedgerInv'
  BY <1>4, ExpireKeeps, ApproveKeeps, MailStoresKeeps
<1>5. ASSUME NEW k \in Keys, HourPasses(k)  PROVE LedgerInv'
  BY <1>5, HourPassesKeeps
<1>6. CASE RecipientChanges
  BY <1>6, RecipientChangesKeeps
<1>7. ASSUME NEW g \in Gateways, GatewayStops(g)  PROVE LedgerInv'
  BY <1>7, GatewayStopsKeeps
<1>8. CASE UNCHANGED ledgerVars
  BY <1>8 DEF ledgerVars, LedgerInv, RecordsOK, PreviewsOK, CallsOK,
     GatesOK, WayOK, KnownOK, FaultsOK, Busy, LockHeld, UsedUp, NoneYet, OneKey, Owned,
     OneSender, LeftOnce, Truthful, OutcomeTruthful, Leaving, Reserving, Sending,
     UnderWay, NotYetSent, CallAt
<1>9. ASSUME NEW c \in Callers, NEW g \in Gateways, NEW k \in Keys, Status(c, g, k)
      PROVE  LedgerInv'
  BY <1>9, StatusKeeps
<1>10. QED
  BY <1>1, <1>2, <1>3, <1>4, <1>5, <1>6, <1>7, <1>8, <1>9 DEF LedgerNext

\* The inductive invariant of the ledger.
LEMMA LedgerInvariant == LedgerSpec => []LedgerInv
BY LedgerInvStart, LedgerInvStep, PTL DEF LedgerSpec

\* Every variable of the ledger, the previews and the calls keeps its type.
THEOREM LedgerTypeCorrect == LedgerSpec => []LedgerTypeOK
<1>1. LedgerInv => LedgerTypeOK
  BY PartsOfLedgerTypeOK DEF LedgerInv
<1>2. QED
  BY <1>1, LedgerInvariant, PTL

\* A previewed message reaches Mail at most once and was reserved under one key
\* only, whatever commits run at the same time, whichever gateways stop and
\* whatever answers are lost (commit, reserve, _dispatch).
THEOREM SentOnceTheorem == LedgerSpec => []SentOnce
<1>1. ASSUME LedgerInv, NEW p \in Previews
      PROVE  Cardinality({k \in Keys : ledger[k].preview = p}) <= 1
  <2> DEFINE Used == {k \in Keys : ledger[k].preview = p}
  <2>1. \A k, l \in Used : k = l
    BY <1>1, MessageLedgerAssumption DEF LedgerInv, OneKey, NoRecord
  <2>2. CASE Used = {}
    BY <2>2, FS_EmptySet
  <2>3. ASSUME NEW k \in Used  PROVE Cardinality(Used) = 1
    <3>1. Used = {k}
      BY <2>1, <2>3
    <3>2. QED
      BY <3>1, FS_Singleton
  <2>4. QED
    BY <2>2, <2>3, FS_EmptySet
<1>2. LedgerInv => SentOnce
  BY <1>1 DEF LedgerInv, LeftOnce, SentOnce
<1>3. QED
  BY <1>2, LedgerInvariant, PTL

\* The ledger says "rejected" only of a message Mail neither has nor can still
\* get, and "accepted" only of one it has (_dispatch and a reconciling _observe).
THEOREM OutcomeTruthfulTheorem == LedgerSpec => []OutcomeTruthful
<1>1. LedgerInv => OutcomeTruthful
  BY DEF LedgerInv
<1>2. QED
  BY <1>1, LedgerInvariant, PTL

-----------------------------------------------------------------------------
(* The ledger implements SendContract.                                        *)

(* Until a call writes its own outcome, only a reconciliation wrote one.      *)
Unsaid ==
    \A c \in Callers :
        /\ Sending(c) => ledger[call[c].key].state \in {"dispatching", "accepted"}
        /\ CallAt(c, {"finish"}) => call[c].outcome # "dispatching"

\* What changes one call, and no record.
LEMMA UnsaidKept ==
    ASSUME Unsaid, NEW c \in Callers, ledger' = ledger,
           \A d \in Callers \ {c} : call'[d] = call[d],
           Sending(c)' => Sending(c) /\ call'[c].key = call[c].key,
           CallAt(c, {"finish"})' => call'[c].outcome # "dispatching"
    PROVE  Unsaid'
BY DEF Unsaid, Sending, CallAt

\* A step of a call that gives it another place or outcome, or ends it.
LEMMA CallMoves ==
    ASSUME CallsOK, NEW c \in Callers
    PROVE  /\ \A at : Step(c, at) =>
                 /\ \A d \in Callers \ {c} : call'[d] = call[d]
                 /\ call'[c].at = at /\ call'[c].key = call[c].key
                 /\ call'[c].preview = call[c].preview /\ call'[c].outcome = call[c].outcome
           /\ \A o : Concludes(c, o) =>
                 /\ \A d \in Callers \ {c} : call'[d] = call[d]
                 /\ call'[c].at = "finish" /\ call'[c].key = call[c].key
                 /\ call'[c].preview = call[c].preview /\ call'[c].outcome = o
           /\ Return(c) =>
                 /\ \A d \in Callers \ {c} : call'[d] = call[d]
                 /\ call'[c].at = "free"
<1>1. ASSUME NEW at, Step(c, at)
      PROVE  /\ \A d \in Callers \ {c} : call'[d] = call[d]
             /\ call'[c].at = at /\ call'[c].key = call[c].key
             /\ call'[c].preview = call[c].preview /\ call'[c].outcome = call[c].outcome
  BY <1>1 DEF CallsOK, Step
<1>2. ASSUME NEW o, Concludes(c, o)
      PROVE  /\ \A d \in Callers \ {c} : call'[d] = call[d]
             /\ call'[c].at = "finish" /\ call'[c].key = call[c].key
             /\ call'[c].preview = call[c].preview /\ call'[c].outcome = o
  BY <1>2 DEF CallsOK, Concludes
<1>3. ASSUME Return(c)
      PROVE  /\ \A d \in Callers \ {c} : call'[d] = call[d]
             /\ call'[c].at = "free"
  BY <1>3 DEF CallsOK, Return, Free
<1>4. QED
  BY <1>1, <1>2, <1>3

\* A reservation says that its message is on its way; so far nobody else's call
\* has this key.
LEMMA ReservedUnsaid ==
    ASSUME LedgerInv, Unsaid, NEW c \in Callers, Reserved(c)
    PROVE  Unsaid'
<1>1. call[c].key \in Keys /\ call[c].preview \in Previews
  BY DEF LedgerInv, Busy, Reserved
<1>2. ledger'[call[c].key].state = "dispatching"
  BY <1>1 DEF LedgerInv, RecordsOK, Reserved
<1>3. \A d \in Callers \ {c} : call'[d] = call[d]
  BY CallMoves DEF Reserved, LedgerInv
<1>4. /\ call'[c].at = "consume" /\ call'[c].key = call[c].key
  BY CallMoves DEF Reserved, LedgerInv
<1>5. ASSUME NEW d \in Callers \ {c}, Sending(d)
      PROVE  ledger'[call[d].key] = ledger[call[d].key]
  <2>1. call[d].key \in Keys /\ call[d].preview \in Previews
    BY <1>5 DEF LedgerInv, Busy, Sending, CallAt
  <2>2. ledger[call[d].key].preview = call[d].preview
    BY <1>5 DEF LedgerInv, Owned
  <2>3. call[d].key # call[c].key
    BY <2>1, <2>2, MessageLedgerAssumption DEF Reserved, NoRecord
  <2>4. QED
    BY <1>1, <2>1, <2>3 DEF Reserved, LedgerInv, RecordsOK
<1>6. QED
  BY <1>2, <1>3, <1>4, <1>5 DEF Unsaid, Sending, CallAt

\* An outcome is the own one of the only call on its way, or an acceptance.
LEMMA FinishUnsaid ==
    ASSUME LedgerInv, Unsaid, NEW c \in Callers, Finish(c)
    PROVE  Unsaid'
<1>1. call[c].key \in Keys /\ call[c].preview \in Previews
  BY DEF LedgerInv, Busy, Finish
<1>2. /\ \A d \in Callers \ {c} : call'[d] = call[d]
      /\ call'[c].at = "free"
  BY CallMoves DEF Finish, LedgerInv
<1>3. ASSUME NEW d \in Callers \ {c}, Sending(d)
      PROVE  ledger'[call[d].key].state \in {"dispatching", "accepted"}
  <2>1. call[d].key \in Keys /\ call[d].preview \in Previews
    BY <1>3 DEF LedgerInv, Busy, Sending, CallAt
  <2>2. CASE call[d].key = call[c].key
    <3>1. call[d].preview = call[c].preview
      BY <1>3, <2>2 DEF LedgerInv, Owned, Finish, CallAt
    <3>2. call[c].outcome = "accepted"
      BY <1>3, <3>1 DEF LedgerInv, OneSender, UnderWay, Sending, CallAt, Finish
    <3>3. QED
      BY <1>1, <2>2, <3>2 DEF Finish, LedgerInv, RecordsOK
  <2>3. CASE call[d].key # call[c].key
    BY <1>1, <1>3, <2>1, <2>3 DEF Finish, LedgerInv, RecordsOK, Unsaid
  <2>4. QED
    BY <2>2, <2>3
<1>4. QED
  BY <1>2, <1>3 DEF Unsaid, Sending, CallAt

\* Whoever steps, Unsaid stays.
LEMMA UnsaidStep == LedgerInv /\ Unsaid /\ [LedgerNext]_ledgerVars => Unsaid'
<1> SUFFICES ASSUME LedgerInv, Unsaid, [LedgerNext]_ledgerVars  PROVE Unsaid'
  OBVIOUS
<1> USE DEF durableVars, Sending, CallAt
<1>0. CallsOK
  BY DEF LedgerInv
<1>1. ASSUME NEW c \in Callers, EnterCommit(c)  PROVE Unsaid'
  BY <1>0, <1>1, EnterSendCases, CallMoves, UnsaidKept DEF EnterGranted, EnterReplay,
     EnterRefused
<1>2. ASSUME NEW c \in Callers, Reserve(c)  PROVE Unsaid'
  <2>1. CASE Reserved(c)
    BY <2>1, ReservedUnsaid
  <2>2. CASE ReserveReplay(c) \/ ReserveRefused(c)
    BY <1>0, <2>2, CallMoves, UnsaidKept DEF ReserveReplay, ReserveRefused
  <2>3. QED
    BY <1>2, <2>1, <2>2, ReserveCases
<1>3. ASSUME NEW c \in Callers, ConsumePreview(c) \/ OpenSession(c) \/ SenderBusy(c)
      PROVE  Unsaid'
  BY <1>0, <1>3, CallMoves, UnsaidKept DEF ConsumePreview, OpenSession, SenderBusy
<1>4. ASSUME NEW c \in Callers, VerifyAndSend(c)  PROVE Unsaid'
  BY <1>0, <1>4, CallMoves, UnsaidKept DEF VerifyAndSend
<1>5. ASSUME NEW c \in Callers, Refused(c) \/ Receipt(c) \/ NoReceipt(c)  PROVE Unsaid'
  BY <1>0, <1>5, CallMoves, UnsaidKept DEF Refused, Receipt, NoReceipt
<1>6. ASSUME NEW c \in Callers, Finish(c)  PROVE Unsaid'
  BY <1>6, FinishUnsaid
<1>7. ASSUME NEW c \in Callers, FinishFails(c)  PROVE Unsaid'
  BY <1>0, <1>7, CallMoves, UnsaidKept DEF FinishFails
<1>8. ASSUME NEW c \in Callers, Observe(c)  PROVE Unsaid'
  BY <1>0, <1>8, ObserveCases, CallMoves, UnsaidKept DEF Reconciles, Looked
<1>9. ASSUME NEW c \in Callers, NEW g \in Gateways, NEW k \in Keys,
             \/ \E p \in Previews : Commit(c, g, p, k)
             \/ Status(c, g, k)
      PROVE  Unsaid'
  <2>1. /\ ledger' = ledger /\ \A d \in Callers \ {c} : call'[d] = call[d]
        /\ call'[c].at \in {"lock", "observe"}
    BY <1>0, <1>9 DEF Commit, Status, CallsOK
  <2>2. QED
    BY <2>1, UnsaidKept
<1>10. ASSUME NEW g \in Gateways, GatewayStops(g)  PROVE Unsaid'
  <2>1. ledger' = ledger
    BY <1>10 DEF GatewayStops
  <2>2. \A c \in Callers : call'[c] = Free \/ call'[c] = call[c]
    BY <1>10 DEF GatewayStops
  <2>3. QED
    BY <2>1, <2>2 DEF Unsaid, Free
<1>11. CASE ledger' = ledger /\ call' = call
  BY <1>11 DEF Unsaid
<1>12. QED
  BY <1>1, <1>2, <1>3, <1>4, <1>5, <1>6, <1>7, <1>8, <1>9, <1>10, <1>11
  DEF LedgerNext, CallStep, Preview, Expire, Approve, MailStores, HourPasses,
      RecipientChanges, ledgerVars

-----------------------------------------------------------------------------
(* Where a message is, seen from outside.                                     *)

\* No message is twice on its way or there.
LEMMA PlaceCases ==
    ASSUME LedgerInv, NEW p \in Previews
    PROVE  Place(p) = IF mail[p] = 1 THEN "there" ELSE IF p \in wire THEN "way"
                      ELSE IF Ahead(p) THEN "ahead" ELSE "gone"
BY DEF LedgerInv, LeftOnce, Place

\* A call that has yet to send is the only one for its message, which has its
\* record and has not left.
LEMMA UnsentAhead ==
    ASSUME LedgerInv, NEW c \in Callers, Unsent(c)
    PROVE  /\ Place(call[c].preview) = "ahead"
           /\ call[c].preview \in Previews /\ call[c].key \in Keys
           /\ ledger[call[c].key].preview = call[c].preview
<1>1. CallAt(c, {"consume", "dispatch", "verify"})
  BY DEF Unsent, CallAt
<1>2. /\ call[c].preview \in Previews /\ call[c].key \in Keys
      /\ ledger[call[c].key].preview = call[c].preview
  BY <1>1 DEF LedgerInv, Busy, Owned, Sending, CallAt
<1>3. ~Leaving(call[c].preview) /\ mail[call[c].preview] = 0
  BY <1>1, <1>2 DEF LedgerInv, LeftOnce, NotYetSent, CallAt, Leaving
<1>4. Ahead(call[c].preview)
  BY DEF Ahead
<1>5. QED
  BY <1>2, <1>3, <1>4, PlaceCases DEF Leaving

\* A call under way that will not send any more leaves nobody who may.
LEMMA NobodyElse ==
    ASSUME LedgerInv, NEW c \in Callers, Sending(c)
    PROVE  \A d \in Callers \ {c} : ~(Unsent(d) /\ call[d].preview = call[c].preview)
BY DEF LedgerInv, OneSender, UnderWay, Unsent, Sending, CallAt

\* Without a record written, a message sent or arrived, and a call that stops or
\* starts to be one that will send, every message is where it was.
LEMMA PlaceKept ==
    ASSUME ledger' = ledger, wire' = wire, mail' = mail,
           NEW c \in Callers, \A d \in Callers \ {c} : call'[d] = call[d],
           \/ ~Unsent(c) /\ ~Unsent(c)'
           \/ Unsent(c) /\ Unsent(c)' /\ call'[c].preview = call[c].preview
    PROVE  UNCHANGED Promise!vars
<1>1. \A d \in Callers, p \in Previews :
         (Unsent(d) /\ call[d].preview = p)' <=> (Unsent(d) /\ call[d].preview = p)
  BY DEF Unsent
<1>2. \A p \in Previews : Ahead(p)' <=> Ahead(p)
  BY <1>1 DEF Ahead
<1>3. \A p \in Previews : Place(p)' = Place(p)
  BY <1>2 DEF Place
<1>4. QED
  BY <1>3 DEF Promise!vars

\* One message changes its place.
LEMMA PlaceMoves ==
    ASSUME NEW p \in Previews, \A q \in Previews \ {p} : Place(q)' = Place(q)
    PROVE  [q \in Previews |-> Place(q)]' =
              [[q \in Previews |-> Place(q)] EXCEPT ![p] = Place(p)']
OBVIOUS

\* A call that may no longer send lets the others' messages be.
LEMMA OthersPlaces ==
    ASSUME NEW c \in Callers, ledger' = ledger, mail' = mail,
           \A q \in Previews \ {call[c].preview} : q \in wire' <=> q \in wire,
           \A d \in Callers \ {c} : call'[d] = call[d], ~Unsent(c)'
    PROVE  \A q \in Previews \ {call[c].preview} : Place(q)' = Place(q)
<1>1. \A d \in Callers \ {c} : Unsent(d)' <=> Unsent(d)
  BY DEF Unsent
<1>2. ASSUME NEW q \in Previews \ {call[c].preview}
      PROVE  Ahead(q)' <=> Ahead(q)
  BY <1>1, <1>2 DEF Ahead
<1>3. QED
  BY <1>2 DEF Place

-----------------------------------------------------------------------------
(* The steps of the contract.                                                 *)

\* A message that was to be sent, or on its way, will not arrive.
LEMMA GivesUp ==
    ASSUME LedgerInv, NEW c \in Callers, Sending(c), ledger' = ledger, mail' = mail,
           \A d \in Callers \ {c} : call'[d] = call[d], ~Unsent(c)',
           wire' \in {wire, wire \ {call[c].preview}}, call[c].preview \notin wire',
           Unsent(c) \/ call[c].preview \in wire
    PROVE  \E S \in SUBSET Previews : Promise!GiveUp(S)
<1>1. /\ call[c].preview \in Previews /\ call[c].key \in Keys
      /\ ledger[call[c].key].preview = call[c].preview
  BY DEF LedgerInv, Busy, Owned, Sending, CallAt
<1>2. PICK p \in Previews : p = call[c].preview
  BY <1>1
<1>3. \A q \in Previews \ {p} : Place(q)' = Place(q)
  <2>1. \A q \in Previews \ {call[c].preview} : Place(q)' = Place(q)
    BY OthersPlaces
  <2>2. QED
    BY <1>2, <2>1
<1>4. mail[p] = 0
  BY <1>1, <1>2, UnsentAhead DEF LedgerInv, LeftOnce, NotYetSent, CallAt, Unsent, Leaving
<1>5. Place(p) \in {"ahead", "way"}
  <2>1. CASE Unsent(c)
    <3>1. mail[call[c].preview] = 0 /\ call[c].preview \notin wire
      BY <1>1, <2>1 DEF LedgerInv, LeftOnce, NotYetSent, CallAt, Unsent, Leaving
    <3>2. Ahead(p)
      BY <1>2, <2>1 DEF Ahead
    <3>3. QED
      BY <1>2, <3>1, <3>2 DEF Place
  <2>2. CASE call[c].preview \in wire
    BY <1>2, <1>4, <2>2 DEF Place
  <2>3. QED
    BY <2>1, <2>2
<1>6. ~Ahead(p)'
  <2>1. ~(\A k \in Keys : ledger'[k].preview # p)
    BY <1>1, <1>2
  <2>2. \A d \in Callers : ~(Unsent(d)' /\ call'[d].preview = p)
    BY <1>2, NobodyElse DEF Unsent
  <2>3. QED
    BY <2>1, <2>2 DEF Ahead
<1>7. Place(p)' = "gone"
  BY <1>2, <1>4, <1>6 DEF Place
<1>8. [q \in Previews |-> Place(q)]' =
        [q \in Previews |-> IF q \in {p} THEN "gone" ELSE [r \in Previews |-> Place(r)][q]]
  BY <1>3, <1>7
<1>9. Promise!GiveUp({p})
  BY <1>1, <1>2, <1>5, <1>8 DEF Promise!GiveUp
<1>10. QED
  BY <1>9

\* A reservation binds a key that was not used to a message that has none.
LEMMA ReservedIs ==
    ASSUME LedgerInv, NEW c \in Callers, Reserved(c)
    PROVE  \E k \in Keys, p \in Previews : Promise!Reserve(k, p)
<1>0. PICK k \in Keys, p \in Previews : k = call[c].key /\ p = call[c].preview
  BY DEF LedgerInv, Busy, Reserved
<1>2. \A l \in Keys : ledger[l].preview # p
  BY <1>0 DEF LedgerInv, NoneYet, Reserved, CallAt
<1>3. ledger[k].preview = NoPreview
  BY <1>0 DEF Reserved, NoRecord
<1>4. /\ ledger'[k].preview = p /\ ledger'[k].state = "dispatching"
      /\ \A l \in Keys \ {k} : ledger'[l] = ledger[l]
  BY <1>0 DEF LedgerInv, RecordsOK, Reserved
<1>5. /\ [l \in Keys |-> ledger'[l].preview] =
           [[l \in Keys |-> ledger[l].preview] EXCEPT ![k] = p]
      /\ [l \in Keys |-> ledger'[l].state] =
           [[l \in Keys |-> ledger[l].state] EXCEPT ![k] = "dispatching"]
  <2>1. [l \in Keys |-> ledger'[l].preview] =
           [[l \in Keys |-> ledger[l].preview] EXCEPT ![k] = p]
    BY <1>4
  <2>2. [l \in Keys |-> ledger'[l].state] =
           [[l \in Keys |-> ledger[l].state] EXCEPT ![k] = "dispatching"]
    BY <1>4
  <2>3. QED
    BY <2>1, <2>2
<1>6. /\ wire' = wire /\ mail' = mail
      /\ \A d \in Callers \ {c} : call'[d] = call[d]
      /\ call'[c].at = "consume" /\ call'[c].preview = p
  BY <1>0, CallMoves DEF LedgerInv, Reserved, mailVars
<1>7. ASSUME NEW q \in Previews  PROVE Ahead(q)' <=> Ahead(q)
  <2>1. CASE q = p
    BY <1>2, <1>6, <2>1 DEF Ahead, Unsent
  <2>2. CASE q # p
    <3>1. (\A l \in Keys : ledger'[l].preview # q) <=> (\A l \in Keys : ledger[l].preview # q)
      BY <1>3, <1>4, <2>2, MessageLedgerAssumption
    <3>2. \A d \in Callers : (Unsent(d)' /\ call'[d].preview = q)
                               <=> (Unsent(d) /\ call[d].preview = q)
      BY <1>0, <1>6, <2>2 DEF Unsent
    <3>3. QED
      BY <3>1, <3>2 DEF Ahead
  <2>3. QED
    BY <2>1, <2>2
<1>8. \A q \in Previews : Place(q)' = Place(q)
  BY <1>6, <1>7 DEF Place
<1>9. Promise!Reserve(k, p)
  BY <1>2, <1>3, <1>5, <1>8 DEF Promise!Reserve
<1>10. QED
  BY <1>9

\* A message leaves once, while its record says dispatching.
LEMMA SendsIs ==
    ASSUME LedgerInv, Unsaid, NEW c \in Callers, Sends(c)
    PROVE  \E k \in Keys, p \in Previews : Promise!Send(k, p)
<1>1. Unsent(c) /\ Sending(c) /\ NotYetSent(c)
  BY DEF Sends, Unsent, Sending, NotYetSent, CallAt
<1>2. PICK k \in Keys, p \in Previews : k = call[c].key /\ p = call[c].preview
  BY <1>1, UnsentAhead
<1>3. Place(p) = "ahead" /\ ledger[k].preview = p
  BY <1>1, <1>2, UnsentAhead, PlaceCases
<1>4. ~Leaving(p) /\ mail[p] = 0
  BY <1>1, <1>2 DEF LedgerInv, LeftOnce, Leaving
<1>5. ledger[k].state = "dispatching"
  BY <1>1, <1>2, <1>3, <1>4 DEF Unsaid, LedgerInv, OutcomeTruthful
<1>6. /\ ledger' = ledger /\ mail' = mail /\ wire' = wire \cup {p}
      /\ \A d \in Callers \ {c} : call'[d] = call[d]
      /\ call'[c].at = "sent"
  BY <1>2, CallMoves DEF LedgerInv, Sends, durableVars
<1>7. \A q \in Previews \ {p} : Place(q)' = Place(q)
  <2>1. \A q \in Previews \ {call[c].preview} : Place(q)' = Place(q)
    BY <1>2, <1>6, OthersPlaces DEF Unsent
  <2>2. QED
    BY <1>2, <2>1
<1>8. Place(p)' = "way"
  BY <1>4, <1>6 DEF Place
<1>9. [q \in Previews |-> Place(q)]' = [[q \in Previews |-> Place(q)] EXCEPT ![p] = "way"]
  BY <1>7, <1>8
<1>10. Promise!Send(k, p)
  BY <1>3, <1>5, <1>6, <1>9 DEF Promise!Send
<1>11. QED
  BY <1>10

\* Mail stores what was on its way.
LEMMA MailStoresIs ==
    ASSUME LedgerInv, NEW p \in Previews, MailStores(p)
    PROVE  Promise!Arrive(p)
<1>1. mail[p] = 0 /\ p \in wire
  BY DEF LedgerInv, LeftOnce, MailStores
<1>2. Place(p) = "way"
  BY <1>1 DEF Place
<1>3. /\ ledger' = ledger /\ call' = call /\ wire' = wire \ {p}
      /\ mail'[p] = 1 /\ \A q \in Previews \ {p} : mail'[q] = mail[q]
  BY <1>1 DEF LedgerInv, WayOK, MailStores, durableVars
<1>4. Place(p)' = "there"
  BY <1>3 DEF Place
<1>5. \A q \in Previews : Ahead(q)' <=> Ahead(q)
  BY <1>3 DEF Ahead, Unsent
<1>6. \A q \in Previews \ {p} : Place(q)' = Place(q)
  BY <1>3, <1>5 DEF Place
<1>7. QED
  BY <1>2, <1>3, <1>4, <1>6, PlaceMoves DEF Promise!Arrive

\* The outcome that is written is true, and no refusal is written over.
LEMMA FinishIs ==
    ASSUME LedgerInv, Unsaid, NEW c \in Callers, Finish(c)
    PROVE  \E k \in Keys, p \in Previews :
              Promise!Accept(k, p) \/ Promise!Reject(k, p) \/ Promise!Doubt(k, p)
<1>0. PICK k \in Keys, p \in Previews, o \in {"accepted", "rejected", "unknown"} :
         k = call[c].key /\ p = call[c].preview /\ o = call[c].outcome
  BY DEF LedgerInv, Busy, Unsaid, Finish, CallAt, Outcomes
<1>1. ledger[k].preview = p
  BY <1>0 DEF LedgerInv, Owned, Finish, CallAt
<1>3. /\ ledger'[k].preview = p /\ ledger'[k].state = o
      /\ \A l \in Keys \ {k} : ledger'[l] = ledger[l]
  BY <1>0, <1>1 DEF LedgerInv, RecordsOK, Finish
<1>4. /\ wire' = wire /\ mail' = mail
      /\ \A d \in Callers \ {c} : call'[d] = call[d]
      /\ call'[c].at = "free"
  BY CallMoves DEF LedgerInv, Finish, mailVars
<1>5. \A q \in Previews : Place(q)' = Place(q)
  <2>1. \A l \in Keys : ledger'[l].preview = ledger[l].preview
    BY <1>1, <1>3
  <2>2. \A d \in Callers : /\ Unsent(d)' <=> Unsent(d)
                           /\ Unsent(d) => call'[d] = call[d]
    BY <1>4 DEF Unsent, Finish
  <2>3. \A q \in Previews : Ahead(q)' <=> Ahead(q)
    BY <2>1, <2>2 DEF Ahead
  <2>4. QED
    BY <1>4, <2>3 DEF Place
<1>6. Promise!Say(k, o)
  <2>1. [l \in Keys |-> ledger'[l].state] = [[l \in Keys |-> ledger[l].state] EXCEPT ![k] = o]
    BY <1>1, <1>3
  <2>2. [l \in Keys |-> ledger'[l].preview] = [l \in Keys |-> ledger[l].preview]
    BY <1>1, <1>3
  <2>3. QED
    BY <1>5, <2>1, <2>2 DEF Promise!Say
<1>7. CASE o = "accepted"
  <2>0. mail[p] > 0
    BY <1>0, <1>7 DEF LedgerInv, Truthful, Finish, CallAt
  <2>1. mail[p] = 1
    BY <2>0 DEF LedgerInv, LeftOnce
  <2>2. Place(p) = "there"
    BY <1>1, <2>1, PlaceCases
  <2>3. QED
    BY <1>1, <1>6, <1>7, <2>2 DEF Promise!Accept
<1>8. ASSUME o # "accepted"  PROVE Place(p) # "ahead" /\ Sending(c)
  <2>1. Sending(c)
    BY <1>0, <1>8 DEF Sending, Finish, CallAt
  <2>2. \A d \in Callers : ~(Unsent(d) /\ call[d].preview = p)
    BY <1>0, <2>1, NobodyElse DEF Finish, Unsent
  <2>3. ~Ahead(p)
    BY <1>1, <2>2 DEF Ahead
  <2>4. QED
    BY <1>1, <2>1, <2>3, PlaceCases
<1>9. CASE o = "rejected"
  <2>1. ~Leaving(p) /\ mail[p] = 0
    <3>1. ~Leaving(p)
      BY <1>0, <1>9 DEF LedgerInv, Truthful, Finish, CallAt
    <3>2. QED
      BY <3>1 DEF LedgerInv, LeftOnce, Leaving
  <2>2. Place(p) = "gone"
    BY <1>1, <1>8, <1>9, <2>1, PlaceCases DEF Leaving
  <2>3. ledger[k].state = "dispatching"
    BY <1>0, <1>1, <1>8, <1>9, <2>1 DEF Unsaid, LedgerInv, OutcomeTruthful
  <2>4. QED
    BY <1>1, <1>6, <1>9, <2>2, <2>3 DEF Promise!Reject
<1>10. CASE o = "unknown"
  <2>1. ledger[k].state \in {"dispatching", "accepted"}
    BY <1>0, <1>8, <1>10 DEF Unsaid
  <2>2. QED
    BY <1>1, <1>6, <1>8, <1>10, <2>1 DEF Promise!Doubt
<1>11. QED
  BY <1>7, <1>9, <1>10

\* With a gateway go the messages it had yet to send.
LEMMA GatewayStopsIs ==
    ASSUME LedgerInv, NEW g \in Gateways, GatewayStops(g)
    PROVE  \E S \in SUBSET Previews : Promise!GiveUp(S)
<1> DEFINE S == {p \in Previews : Place(p)' # Place(p)}
<1>1. /\ ledger' = ledger /\ wire' = wire /\ mail' = mail
      /\ \A c \in Callers : call'[c] = Free \/ call'[c] = call[c]
  BY DEF GatewayStops, durableVars, mailVars
<1>2. \A c \in Callers : Unsent(c)' => Unsent(c) /\ call'[c] = call[c]
  BY <1>1 DEF Unsent, Free
<1>3. \A p \in Previews : Ahead(p)' => Ahead(p)
  BY <1>1, <1>2 DEF Ahead
<1>4. ASSUME NEW p \in S
      PROVE  /\ Place(p) = "ahead" /\ Place(p)' = "gone"
             /\ \E k \in Keys : ledger[k].preview = p
  <2>1. Place(p) = "ahead" /\ Place(p)' = "gone" /\ ~Ahead(p)'
    BY <1>1, <1>3, <1>4 DEF Place
  <2>2. QED
    BY <1>1, <2>1 DEF Ahead
<1>5. [p \in Previews |-> Place(p)]' =
        [p \in Previews |-> IF p \in S THEN "gone" ELSE [q \in Previews |-> Place(q)][p]]
  BY <1>4
<1>6. Promise!GiveUp(S)
  BY <1>1, <1>4, <1>5 DEF Promise!GiveUp
<1>7. QED
  BY <1>6

\* Every step is a step of the contract, or none that it sees.
LEMMA StepIs ==
    LedgerInv /\ LedgerInv' /\ Unsaid /\ [LedgerNext]_ledgerVars
        => [Promise!Next]_(Promise!vars)
<1> SUFFICES ASSUME LedgerInv, LedgerInv', Unsaid, [LedgerNext]_ledgerVars
             PROVE  Promise!Next \/ UNCHANGED Promise!vars
  OBVIOUS
<1> USE DEF durableVars, mailVars
<1>0. CallsOK
  BY DEF LedgerInv
<1>1. ASSUME NEW c \in Callers, EnterCommit(c)  PROVE UNCHANGED Promise!vars
  BY <1>0, <1>1, EnterSendCases, CallMoves, PlaceKept
  DEF EnterGranted, EnterReplay, EnterRefused, Unsent
<1>2. ASSUME NEW c \in Callers, Reserve(c)  PROVE Promise!Next \/ UNCHANGED Promise!vars
  <2>1. CASE Reserved(c)
    BY <2>1, ReservedIs DEF Promise!Next
  <2>2. CASE ReserveReplay(c) \/ ReserveRefused(c)
    BY <1>0, <2>2, CallMoves, PlaceKept DEF ReserveReplay, ReserveRefused, Unsent
  <2>3. QED
    BY <1>2, <2>1, <2>2, ReserveCases
<1>3. ASSUME NEW c \in Callers, ConsumePreview(c) \/ OpenSession(c)
      PROVE  UNCHANGED Promise!vars
  BY <1>0, <1>3, CallMoves, PlaceKept DEF ConsumePreview, OpenSession, Unsent
<1>4. ASSUME NEW c \in Callers, SenderBusy(c) \/ Differs(c)  PROVE Promise!Next
  <2>1. Unsent(c) /\ Sending(c) /\ call[c].preview \in Previews
    BY <1>4, UnsentAhead DEF SenderBusy, Differs, Unsent, Sending, CallAt
  <2>2. call[c].preview \notin wire
    BY <2>1 DEF LedgerInv, LeftOnce, NotYetSent, Unsent, CallAt, Leaving
  <2>3. /\ ledger' = ledger /\ mail' = mail /\ wire' = wire
        /\ \A d \in Callers \ {c} : call'[d] = call[d]
        /\ call'[c].at = "finish"
    BY <1>0, <1>4, CallMoves DEF SenderBusy, Differs
  <2>4. QED
    BY <2>1, <2>2, <2>3, GivesUp DEF Unsent, Promise!Next
<1>5. ASSUME NEW c \in Callers, Sends(c)  PROVE Promise!Next
  BY <1>5, SendsIs DEF Promise!Next
<1>6. ASSUME NEW c \in Callers, Refused(c) \/ NoReceipt(c)
      PROVE  Promise!Next \/ UNCHANGED Promise!vars
  <2>1. Sending(c) /\ ~Unsent(c) /\ call[c].preview \in Previews
    BY <1>6 DEF Refused, NoReceipt, Unsent, Sending, CallAt, LedgerInv, Busy
  <2>2. /\ ledger' = ledger /\ mail' = mail /\ wire' \in {wire, wire \ {call[c].preview}}
        /\ \A d \in Callers \ {c} : call'[d] = call[d]
        /\ call'[c].at = "finish"
    BY <1>0, <1>6, CallMoves DEF Refused, NoReceipt
  <2>3. CASE call[c].preview \in wire /\ call[c].preview \notin wire'
    BY <2>1, <2>2, <2>3, GivesUp DEF Unsent, Promise!Next
  <2>4. CASE wire' = wire
    BY <2>1, <2>2, <2>4, PlaceKept DEF Unsent
  <2>5. QED
    BY <2>2, <2>3, <2>4
<1>7. ASSUME NEW c \in Callers, Receipt(c) \/ FinishFails(c)  PROVE UNCHANGED Promise!vars
  BY <1>0, <1>7, CallMoves, PlaceKept DEF Receipt, FinishFails, Unsent
<1>8. ASSUME NEW c \in Callers, Finish(c)  PROVE Promise!Next
  BY <1>8, FinishIs DEF Promise!Next
<1>9. ASSUME NEW c \in Callers, Observe(c)  PROVE UNCHANGED Promise!vars
  BY <1>0, <1>9, ObserveCases, CallMoves, PlaceKept DEF Reconciles, Looked, Unsent
<1>10. ASSUME NEW c \in Callers, NEW g \in Gateways, NEW k \in Keys,
              \/ \E p \in Previews : Commit(c, g, p, k)
              \/ Status(c, g, k)
       PROVE  UNCHANGED Promise!vars
  <2>1. /\ ledger' = ledger /\ mail' = mail /\ wire' = wire
        /\ \A d \in Callers \ {c} : call'[d] = call[d]
        /\ call'[c].at \in {"lock", "observe"} /\ call[c].at = "free"
    BY <1>0, <1>10 DEF Commit, Status, CallsOK, Free
  <2>2. QED
    BY <2>1, PlaceKept DEF Unsent
<1>11. ASSUME NEW g \in Gateways, GatewayStops(g)  PROVE Promise!Next
  BY <1>11, GatewayStopsIs DEF Promise!Next
<1>12. ASSUME NEW p \in Previews, MailStores(p)  PROVE Promise!Next
  BY <1>12, MailStoresIs DEF Promise!Next
<1>13. CASE UNCHANGED <<ledger, call, wire, mail>>
  BY <1>13 DEF Promise!vars, Place, Ahead, Unsent
<1>14. ASSUME NEW c \in Callers, CallStep(c)  PROVE Promise!Next \/ UNCHANGED Promise!vars
  BY <1>1, <1>2, <1>3, <1>4, <1>5, <1>6, <1>7, <1>8, <1>9, <1>14, VerifyCases DEF CallStep
<1>15. QED
  BY <1>10, <1>11, <1>12, <1>13, <1>14
  DEF LedgerNext, Preview, Expire, Approve, HourPasses, RecipientChanges, ledgerVars

\* Seen through what each key stands for, what the ledger says and where the
\* messages are, the commits, lookups, crashes and late answers of any number of
\* gateways do what the contract allows: no resend and no false outcome.
THEOREM LedgerImplementsSendContract == LedgerSpec => ImplementsSendContract
<1>1. LedgerInit => Promise!Init /\ Unsaid
  <2>1. ASSUME LedgerInit  PROVE \A p \in Previews : Place(p) = "ahead"
    BY <2>1, MessageLedgerAssumption DEF LedgerInit, Place, Ahead, NoRecord
  <2>2. QED
    BY <2>1 DEF LedgerInit, Promise!Init, NoRecord, Unsaid, Sending, CallAt, Free
<1>2. LedgerInv /\ Unsaid /\ [LedgerNext]_ledgerVars => Unsaid'
  BY UnsaidStep
<1>3. LedgerInv /\ LedgerInv' /\ Unsaid /\ [LedgerNext]_ledgerVars
        => [Promise!Next]_(Promise!vars)
  BY StepIs
<1>4. QED
  BY <1>1, <1>2, <1>3, LedgerInvariant, PTL DEF LedgerSpec, ImplementsSendContract, Promise!Spec

-----------------------------------------------------------------------------
(* MailSignals.                                                               *)
(* MailSignalsTypeOK, part by part.                                           *)
SendingOK == /\ sending \in [Messages -> {"new", "committed", "emitting", "sent", "failed"}]
             /\ inbox \subseteq Messages
SignalOK == /\ signal \in [Messages -> {"none", "partial", "whole"}]
            /\ signalAge \in [Messages -> 0..Grace]
FetchOK == fetch \in [at : {"idle", "listed"}, left : SUBSET Messages]
WatcherOK == watcher \in [Watchers -> [at : {"down", "idle", "slot", "lease", "recheck"},
                                       msg : SUBSET Messages,
                                       owner : Deliverers \cup {NoDeliverer}]]
Workings == [at : {"off", "start", "discard", "capture", "paste", "submit", "mark",
                   "release", "unlink"},
             msg : SUBSET Messages, result : {"none", "failed", "absent", "success"}]
DelivererOK == deliverer \in [Deliverers -> Workings]
LeaseOK == /\ lease \in [Messages -> [owner : Deliverers \cup {NoDeliverer}, old : BOOLEAN]]
           /\ outlived \subseteq Messages
NotifiedOK == notified \in [Messages ->
                       [result : {"none", "failed", "quiet", "absent", "success"},
                        due : BOOLEAN]]
PaneOK == /\ pane \in {"open", "muted", "gone"} /\ headless \in BOOLEAN

(* A lease has one owner: one watcher at its second look, or one worker.      *)
OneOwner ==
    \A w \in Watchers : watcher[w].owner # NoDeliverer =>
        /\ deliverer[watcher[w].owner].at = "off"
        /\ \A v \in Watchers : watcher[v].owner = watcher[w].owner => v = w

(* What a watcher or a worker has in hand is one message.                     *)
OneMessage == \A w \in Watchers : \A m, n \in watcher[w].msg : m = n

(* The lease is d's and counts, or ran out under its worker.                  *)
Holds(d, m) == m \in outlived \/ lease[m] = [owner |-> d, old |-> FALSE]

(* A watcher at its second look holds the lease of its message.               *)
WatchersHold ==
    \A w \in Watchers : watcher[w].at = "recheck" =>
        /\ watcher[w].owner # NoDeliverer
        /\ \A m \in watcher[w].msg : Holds(watcher[w].owner, m)

(* A worker before its result holds the lease of a notice not yet delivered.  *)
WorkersHold ==
    \A d \in Deliverers : BeforeResult(d) =>
        \A m \in deliverer[d].msg :
            Holds(d, m) /\ (m \in outlived \/ notified[m].result # "success")

SignalsInv ==
    /\ SendingOK /\ SignalOK /\ FetchOK /\ WatcherOK /\ DelivererOK /\ LeaseOK
    /\ NotifiedOK /\ PaneOK
    /\ OneOwner /\ OneMessage /\ WatchersHold /\ WorkersHold

-----------------------------------------------------------------------------
(* The steps by their effect: what becomes of the record of a watcher, a      *)
(* worker or a lease.                                                         *)
watcherRest == <<serverVars, fileSignalVars, deliverer, agentVars, outlived>>
stepRest == <<serverVars, fileSignalVars, watcher, lease, notified, agentVars, outlived>>

Quiets(m) ==
    /\ notified' = [notified EXCEPT ![m] = [result |-> "quiet", due |-> FALSE]]
    /\ ShouldAttempt(m)
    /\ UNCHANGED <<watcherRest, watcher, lease>>

Takes(w, m) ==
    /\ watcher[w].at = "idle"
    /\ watcher' = [watcher EXCEPT ![w] = [at |-> "slot", msg |-> {m},
                                         owner |-> watcher[w].owner]]
    /\ UNCHANGED <<watcherRest, lease, notified>>

Turns(w) ==
    /\ watcher[w].at = "slot"
    /\ watcher' = [watcher EXCEPT ![w] = [at |-> "lease", msg |-> watcher[w].msg,
                                         owner |-> watcher[w].owner]]
    /\ UNCHANGED <<watcherRest, lease, notified>>

LetsGo(w) ==
    /\ watcher[w].at \in {"slot", "lease"}
    /\ watcher' = [watcher EXCEPT ![w] = WatcherIdle]
    /\ UNCHANGED <<watcherRest, lease, notified>>

Acquires(w, m, d) ==
    /\ watcher[w].at = "lease" /\ m \in watcher[w].msg
    /\ lease[m] = NoLease \/ lease[m].old
    /\ d \in Fresh
    /\ lease' = [lease EXCEPT ![m] = [owner |-> d, old |-> FALSE]]
    /\ watcher' = [watcher EXCEPT ![w] = [at |-> "recheck", msg |-> watcher[w].msg,
                                         owner |-> d]]
    /\ UNCHANGED <<watcherRest, notified>>

Spawns(w, m, d) ==
    /\ watcher[w].at = "recheck" /\ m \in watcher[w].msg /\ d = watcher[w].owner
    /\ ShouldAttempt(m)
    /\ deliverer' = [deliverer EXCEPT ![d] =
                        [at |-> "start", msg |-> {m}, result |-> "none"]]
    /\ watcher' = [watcher EXCEPT ![w] = WatcherIdle]
    /\ UNCHANGED <<serverVars, fileSignalVars, lease, notified, agentVars, outlived>>

GivesBack(w, m, d) ==
    /\ watcher[w].at = "recheck" /\ d = watcher[w].owner
    /\ lease' = LeaseWithout(d, m)
    /\ watcher' = [watcher EXCEPT ![w] = WatcherIdle]
    /\ UNCHANGED <<serverVars, fileSignalVars, deliverer, notified, agentVars, outlived>>

Moves(d, step) ==
    /\ deliverer[d].at \in {"start", "capture", "paste"}
    /\ Goes(d, step)
    /\ UNCHANGED stepRest
NextSteps == {"release", "discard", "capture", "paste", "submit"}

Ends(d, result) ==
    /\ deliverer[d].at \in {"start", "discard", "capture", "paste", "submit"}
    /\ deliverer' = [deliverer EXCEPT ![d] = [at |-> "mark", msg |-> deliverer[d].msg,
                                             result |-> result]]
    /\ signal' \in {signal, [m \in Messages |->
                     IF m \in deliverer[d].msg THEN "none" ELSE signal[m]]}
    /\ UNCHANGED <<serverVars, signalAge, watcher, lease, notified, agentVars, outlived>>

Marks(d) ==
    /\ deliverer[d].at = "mark"
    /\ notified' = [m \in Messages |->
                       IF m \in deliverer[d].msg
                       THEN [result |-> deliverer[d].result, due |-> FALSE]
                       ELSE notified[m]]
    /\ Goes(d, "release")
    /\ UNCHANGED <<serverVars, fileSignalVars, watcher, lease, agentVars, outlived>>

Releases(d, m) ==
    /\ deliverer[d].at = "release" /\ lease' = LeaseWithout(d, m)
    /\ deliverer' = [deliverer EXCEPT ![d] =
           IF deliverer[d].result = "success"
           THEN [at |-> "unlink", msg |-> deliverer[d].msg, result |-> deliverer[d].result]
           ELSE Off]
    /\ UNCHANGED <<serverVars, fileSignalVars, watcher, notified, agentVars, outlived>>

\* A message that may not interrupt is recorded, any other taken.
LEMMA ReadCases ==
    ASSUME SignalsInv, NEW w \in Watchers, NEW m \in Messages, ReadSignal(w, m)
    PROVE  Quiets(m) \/ Takes(w, m)
<1>1. CASE m \in quiet
  BY <1>1 DEF ReadSignal, Quiets, watcherOnly, watcherRest, serverVars, fileSignalVars,
     agentVars
<1>2. CASE m \notin quiet
  BY <1>2 DEF ReadSignal, Takes, watcherOnly, watcherRest, serverVars, fileSignalVars,
     agentVars
<1>3. QED  BY <1>1, <1>2

\* When a slot is free the watcher turns to the lease, or lets go of the message.
LEMMA SlotCases ==
    ASSUME SignalsInv, NEW w \in Watchers, AwaitSlot(w)
    PROVE  Turns(w) \/ LetsGo(w)
<1>1. PICK m \in watcher[w].msg :
          watcher' = [watcher EXCEPT ![w] =
             IF ShouldAttempt(m) THEN [@ EXCEPT !.at = "lease"] ELSE WatcherIdle]
  BY DEF AwaitSlot
<1>2. [watcher[w] EXCEPT !.at = "lease"] =
         [at |-> "lease", msg |-> watcher[w].msg, owner |-> watcher[w].owner]
  BY DEF SignalsInv, WatcherOK
<1>3. QED
  BY <1>1, <1>2 DEF AwaitSlot, Turns, LetsGo, watcherOnly, watcherRest, serverVars,
     fileSignalVars, agentVars

\* The lease is the watcher's, or another's and the message let go.
LEMMA AcquireCases ==
    ASSUME SignalsInv, NEW w \in Watchers, AcquireLease(w)
    PROVE  \/ \E m \in Messages, d \in Deliverers : Acquires(w, m, d)
           \/ LetsGo(w)
<1>1. PICK m \in watcher[w].msg :
          IF lease[m] = NoLease \/ lease[m].old
          THEN \E d \in Fresh :
                  /\ lease' = [lease EXCEPT ![m] = [owner |-> d, old |-> FALSE]]
                  /\ watcher' = [watcher EXCEPT ![w] =
                        [at |-> "recheck", msg |-> watcher[w].msg, owner |-> d]]
          ELSE /\ watcher' = [watcher EXCEPT ![w] = WatcherIdle]
               /\ UNCHANGED lease
  BY DEF AcquireLease
<1>2. CASE lease[m] = NoLease \/ lease[m].old
  <2>1. PICK d \in Fresh :
                  /\ lease' = [lease EXCEPT ![m] = [owner |-> d, old |-> FALSE]]
                  /\ watcher' = [watcher EXCEPT ![w] =
                        [at |-> "recheck", msg |-> watcher[w].msg, owner |-> d]]
    BY <1>1, <1>2
  <2>2. m \in Messages /\ d \in Deliverers
    BY DEF SignalsInv, WatcherOK, Fresh
  <2>3. Acquires(w, m, d)
    BY <1>2, <2>1 DEF AcquireLease, Acquires, watcherOnly, watcherRest, serverVars,
       fileSignalVars, agentVars
  <2>4. QED  BY <2>2, <2>3
<1>3. CASE ~(lease[m] = NoLease \/ lease[m].old)
  BY <1>1, <1>3 DEF AcquireLease, LetsGo, watcherOnly, watcherRest, serverVars,
       fileSignalVars, agentVars
<1>4. QED  BY <1>2, <1>3

\* The worker starts, or the lease goes back.
LEMMA RecheckCases ==
    ASSUME SignalsInv, NEW w \in Watchers, RecheckAndSpawn(w)
    PROVE  \E m \in Messages, d \in Deliverers : Spawns(w, m, d) \/ GivesBack(w, m, d)
<1>1. PICK m \in watcher[w].msg :
          IF ShouldAttempt(m)
          THEN /\ deliverer' = [deliverer EXCEPT ![watcher[w].owner] =
                     [at |-> "start", msg |-> {m}, result |-> "none"]]
               /\ UNCHANGED lease
          ELSE lease' = LeaseWithout(watcher[w].owner, m) /\ UNCHANGED deliverer
  BY DEF RecheckAndSpawn
<1>2. m \in Messages /\ watcher[w].owner \in Deliverers
  BY DEF SignalsInv, WatcherOK, WatchersHold, RecheckAndSpawn
<1>3. Spawns(w, m, watcher[w].owner) \/ GivesBack(w, m, watcher[w].owner)
  BY <1>1 DEF RecheckAndSpawn, Spawns, GivesBack
<1>4. QED  BY <1>2, <1>3

\* A worker moves on, ends with a result, records it, releases or unlinks.
LEMMA WorkerCases ==
    ASSUME SignalsInv, NEW d \in Deliverers, DelivererStep(d)
    PROVE  \/ \E step \in NextSteps : Moves(d, step)
           \/ \E result \in {"failed", "absent", "success"} : Ends(d, result)
           \/ Marks(d)
           \/ \E m \in Messages : Releases(d, m)
           \/ UnlinkSignal(d)
<1> USE DEF workerRest, stepRest, serverVars, fileSignalVars, agentVars
<1>1. CASE HeadlessReply(d) \/ SubmitNotice(d)
  BY <1>1 DEF HeadlessReply, SubmitNotice, Results, Ends
<1>2. CASE LookUpSession(d)
  <2>1. \E step \in {"release", "discard", "capture"} : Goes(d, step)
    BY <1>2 DEF LookUpSession, SignalsInv, PaneOK
  <2>2. QED  BY <1>2, <2>1 DEF LookUpSession, Moves, NextSteps
<1>3. CASE DiscardSignal(d)
  BY <1>3 DEF DiscardSignal, Results, Ends
<1>4. CASE CapturePane(d)
  <2>1. \E step \in {"release", "paste"} : Goes(d, step)
    BY <1>4 DEF CapturePane
  <2>2. QED  BY <1>4, <2>1 DEF CapturePane, Moves, NextSteps
<1>5. CASE PasteNotice(d)
  BY <1>5 DEF PasteNotice, Moves, NextSteps
<1>6. CASE DeliveryFails(d)
  BY <1>6 DEF DeliveryFails, Results, Ends
<1>7. CASE MarkResult(d)
  BY <1>7 DEF MarkResult, Marks
<1>8. CASE ReleaseLease(d)
  <2>1. [deliverer[d] EXCEPT !.at = "unlink"] =
           [at |-> "unlink", msg |-> deliverer[d].msg, result |-> deliverer[d].result]
    BY DEF SignalsInv, DelivererOK, Workings
  <2>2. PICK m \in deliverer[d].msg : lease' = LeaseWithout(d, m)
    BY <1>8 DEF ReleaseLease
  <2>3. m \in Messages
    BY DEF SignalsInv, DelivererOK, Workings
  <2>4. Releases(d, m)
    BY <1>8, <2>1, <2>2 DEF ReleaseLease, Releases
  <2>5. QED  BY <2>3, <2>4
<1>9. QED
  BY <1>1, <1>2, <1>3, <1>4, <1>5, <1>6, <1>7, <1>8 DEF DelivererStep

\* The types of a lease and its history, when it runs out.
LEMMA LeaseRunsOutType ==
    ASSUME SignalsInv, NEW m \in Messages, LeaseRunsOut(m)
    PROVE  LeaseOK'
<1>1. lease[m] \in [owner : Deliverers \cup {NoDeliverer}, old : BOOLEAN]
  BY DEF SignalsInv, LeaseOK
<1>2. [lease[m] EXCEPT !.old = TRUE] \in [owner : Deliverers \cup {NoDeliverer}, old : BOOLEAN]
  BY <1>1
<1>3. lease' = [lease EXCEPT ![m].old = TRUE]
  BY DEF LeaseRunsOut
<1>4. lease' = [lease EXCEPT ![m] = [lease[m] EXCEPT !.old = TRUE]]
  BY <1>3
<1>5. outlived' \subseteq Messages
  BY DEF SignalsInv, LeaseOK, LeaseRunsOut
<1>6. QED
  BY <1>2, <1>4, <1>5 DEF SignalsInv, LeaseOK

\* The type of a worker that moves on.
LEMMA MovesType ==
    ASSUME SignalsInv, NEW d \in Deliverers, NEW step \in NextSteps, Moves(d, step)
    PROVE  DelivererOK'
<1>1. deliverer \in [Deliverers -> Workings]
  BY DEF SignalsInv, DelivererOK
<1>2. [deliverer[d] EXCEPT !.at = step] \in Workings
  BY <1>1 DEF Workings, NextSteps
<1>3. deliverer' = [deliverer EXCEPT ![d] = [deliverer[d] EXCEPT !.at = step]]
  BY <1>1 DEF Moves, Goes
<1>4. QED
  BY <1>1, <1>2, <1>3 DEF DelivererOK

\* Only a lease that nobody has or that is too old is taken.
LEMMA AcquiresHeld ==
    ASSUME SignalsInv, NEW w \in Watchers, NEW m \in Messages, NEW d \in Deliverers,
           Acquires(w, m, d)
    PROVE  WatchersHold'
<1> SUFFICES ASSUME NEW v \in Watchers, watcher'[v].at = "recheck"
             PROVE  /\ watcher'[v].owner # NoDeliverer
                    /\ \A n \in watcher'[v].msg : Holds(watcher[v].owner, n)'
  BY DEF WatchersHold
<1>1. /\ lease' = [lease EXCEPT ![m] = [owner |-> d, old |-> FALSE]]
      /\ watcher' = [watcher EXCEPT ![w] = [at |-> "recheck", msg |-> watcher[w].msg,
                                           owner |-> d]]
      /\ m \in watcher[w].msg /\ UNCHANGED outlived
      /\ lease[m] = NoLease \/ lease[m].old
  BY DEF Acquires, watcherRest
<1>2. lease \in [Messages -> [owner : Deliverers \cup {NoDeliverer}, old : BOOLEAN]]
      /\ watcher[v].msg \subseteq Messages /\ DOMAIN watcher = Watchers
  BY DEF SignalsInv, LeaseOK, WatcherOK
<1>3. CASE v = w
  <2>1. watcher'[v] = [at |-> "recheck", msg |-> watcher[w].msg, owner |-> d]
    BY <1>1, <1>2, <1>3
  <2>2. \A n \in watcher'[v].msg : n = m
    BY <1>1, <2>1 DEF SignalsInv, OneMessage
  <2>3. lease'[m] = [owner |-> d, old |-> FALSE]
    BY <1>1, <1>2
  <2>4. d # NoDeliverer
    BY MailSignalsAssumption
  <2>5. QED
    BY <2>1, <2>2, <2>3, <2>4 DEF Holds
<1>4. CASE v # w
  <2>1. watcher'[v] = watcher[v]
    BY <1>1, <1>4
  <2>2. /\ watcher[v].owner # NoDeliverer
        /\ \A n \in watcher[v].msg : Holds(watcher[v].owner, n)
    BY <2>1 DEF SignalsInv, WatchersHold
  <2>3. ASSUME NEW n \in watcher[v].msg  PROVE Holds(watcher[v].owner, n)'
    <3>1. CASE n \in outlived
      BY <1>1, <3>1 DEF Holds
    <3>2. CASE n \notin outlived
      <4>1. lease[n] = [owner |-> watcher[v].owner, old |-> FALSE]
        BY <2>2, <3>2 DEF Holds
      <4>2. lease[n] # NoLease /\ ~lease[n].old
        BY <2>2, <4>1 DEF NoLease
      <4>3. n # m
        BY <1>1, <4>2
      <4>4. lease'[n] = lease[n] /\ watcher'[v].owner = watcher[v].owner
        BY <1>1, <1>2, <2>1, <4>3
      <4>5. QED
        BY <4>1, <4>4 DEF Holds
    <3>3. QED
      BY <3>1, <3>2
  <2>4. QED
    BY <2>1, <2>2, <2>3
<1>5. QED
  BY <1>3, <1>4

\* No other worker has a lease of the message whose result is recorded, but one
\* that lasted too long.
LEMMA MarksHeld ==
    ASSUME SignalsInv, NEW d \in Deliverers, Marks(d)
    PROVE  WorkersHold'
<1> SUFFICES ASSUME NEW e \in Deliverers, BeforeResult(e)', NEW m \in deliverer'[e].msg
             PROVE  Holds(e, m)' /\ (m \in outlived' \/ notified'[m].result # "success")
  BY DEF WorkersHold
<1>1. deliverer' = [deliverer EXCEPT ![d].at = "release"] /\ UNCHANGED <<lease, outlived>>
  BY DEF Marks, Goes
<1>2. deliverer \in [Deliverers -> Workings]
  BY DEF SignalsInv, DelivererOK
<1>3. e # d
  BY <1>1, <1>2 DEF BeforeResult, Workings
<1>4. deliverer'[e] = deliverer[e]
  BY <1>1, <1>2, <1>3
<1>5. BeforeResult(e) /\ m \in deliverer[e].msg /\ m \in Messages
  BY <1>2, <1>4 DEF BeforeResult, Workings
<1>6. Holds(e, m) /\ (m \in outlived \/ notified[m].result # "success")
  BY <1>5 DEF SignalsInv, WorkersHold
<1>7. Holds(e, m)'
  BY <1>1, <1>6 DEF Holds
<1>8. CASE m \in outlived
  BY <1>1, <1>7, <1>8
<1>9. CASE m \notin outlived
  <2>1. m \notin deliverer[d].msg
    <3>1. BeforeResult(d)
      BY DEF Marks, BeforeResult
    <3>2. m \in deliverer[d].msg => Holds(d, m)
      BY <3>1 DEF SignalsInv, WorkersHold
    <3>3. QED
      BY <1>3, <1>6, <1>9, <3>2 DEF Holds
  <2>2. notified'[m] = notified[m]
    BY <1>5, <2>1 DEF Marks
  <2>3. QED
    BY <1>6, <1>7, <1>9, <2>2
<1>10. QED
  BY <1>8, <1>9

-----------------------------------------------------------------------------
\* The rows of a message come before its signal.
LEMMA CommitRowsKeeps ==
    ASSUME SignalsInv, NEW m \in Messages, CommitRows(m)
    PROVE  SignalsInv'
<1>1. /\ SignalOK' /\ FetchOK' /\ WatcherOK' /\ DelivererOK' /\ LeaseOK'
      /\ NotifiedOK' /\ PaneOK' /\ OneOwner' /\ OneMessage'
      /\ WatchersHold' /\ WorkersHold'
  BY DEF SignalsInv, SignalOK, FetchOK, WatcherOK, DelivererOK, LeaseOK,
     NotifiedOK, PaneOK, OneOwner, OneMessage, WatchersHold, WorkersHold,
     CommitRows, fileSignalVars, agentVars, Holds, BeforeResult
<1>2. SendingOK'
  BY DEF SignalsInv, SendingOK, CommitRows
<1>3. QED  BY <1>1, <1>2 DEF SignalsInv

\* A signal that is opened is young.
LEMMA OpenSignalKeeps ==
    ASSUME SignalsInv, NEW m \in Messages, OpenSignal(m)
    PROVE  SignalsInv'
<1>1. /\ FetchOK' /\ WatcherOK' /\ DelivererOK' /\ LeaseOK'
      /\ NotifiedOK' /\ PaneOK' /\ OneOwner' /\ OneMessage'
      /\ WatchersHold' /\ WorkersHold'
  BY DEF SignalsInv, FetchOK, WatcherOK, DelivererOK, LeaseOK, NotifiedOK,
     PaneOK, OneOwner, OneMessage, WatchersHold, WorkersHold, OpenSignal,
     agentVars, Holds, BeforeResult
<1>2. SendingOK'
  BY DEF SignalsInv, SendingOK, OpenSignal
<1>3. SignalOK'
  BY MailSignalsAssumption DEF SignalsInv, SignalOK, OpenSignal
<1>4. QED  BY <1>1, <1>2, <1>3 DEF SignalsInv

\* The content makes the signal whole.
LEMMA WriteSignalKeeps ==
    ASSUME SignalsInv, NEW m \in Messages, WriteSignal(m)
    PROVE  SignalsInv'
<1>1. /\ FetchOK' /\ WatcherOK' /\ DelivererOK' /\ LeaseOK'
      /\ NotifiedOK' /\ PaneOK' /\ OneOwner' /\ OneMessage'
      /\ WatchersHold' /\ WorkersHold'
  BY DEF SignalsInv, FetchOK, WatcherOK, DelivererOK, LeaseOK, NotifiedOK,
     PaneOK, OneOwner, OneMessage, WatchersHold, WorkersHold, WriteSignal,
     agentVars, Holds, BeforeResult
<1>2. SendingOK'
  BY DEF SignalsInv, SendingOK, WriteSignal
<1>3. SignalOK'
  BY DEF SignalsInv, SignalOK, WriteSignal
<1>4. QED  BY <1>1, <1>2, <1>3 DEF SignalsInv

\* A send that fails leaves what it wrote.
LEMMA SendFailsKeeps ==
    ASSUME SignalsInv, NEW m \in Messages, SendFails(m)
    PROVE  SignalsInv'
<1>1. /\ SignalOK' /\ FetchOK' /\ WatcherOK' /\ DelivererOK' /\ LeaseOK'
      /\ NotifiedOK' /\ PaneOK' /\ OneOwner' /\ OneMessage'
      /\ WatchersHold' /\ WorkersHold'
  BY DEF SignalsInv, SignalOK, FetchOK, WatcherOK, DelivererOK, LeaseOK,
     NotifiedOK, PaneOK, OneOwner, OneMessage, WatchersHold, WorkersHold,
     SendFails, fileSignalVars, agentVars, Holds, BeforeResult
<1>2. SendingOK'
  BY DEF SignalsInv, SendingOK, SendFails
<1>3. QED  BY <1>1, <1>2 DEF SignalsInv

\* The end of a cooldown changes no result.
LEMMA CooldownPassesKeeps ==
    ASSUME SignalsInv, NEW m \in Messages, CooldownPasses(m)
    PROVE  SignalsInv'
<1>1. /\ SendingOK' /\ SignalOK' /\ FetchOK' /\ WatcherOK'
      /\ DelivererOK' /\ LeaseOK' /\ PaneOK'
      /\ OneOwner' /\ OneMessage' /\ WatchersHold'
  BY DEF SignalsInv, SendingOK, SignalOK, FetchOK, WatcherOK, DelivererOK,
     LeaseOK, PaneOK, OneOwner, OneMessage, WatchersHold,
     CooldownPasses, serverVars, fileSignalVars, agentVars, Holds
<1>2. NotifiedOK'
  BY DEF SignalsInv, NotifiedOK, CooldownPasses
<1>3. WorkersHold'
  BY DEF SignalsInv, WorkersHold, CooldownPasses, BeforeResult, Holds
<1>4. QED  BY <1>1, <1>2, <1>3 DEF SignalsInv

\* A lease that runs out under its worker is remembered.
LEMMA LeaseRunsOutKeeps ==
    ASSUME SignalsInv, NEW m \in Messages, LeaseRunsOut(m)
    PROVE  SignalsInv'
<1>1. /\ SendingOK' /\ SignalOK' /\ FetchOK' /\ DelivererOK'
      /\ NotifiedOK' /\ PaneOK' /\ OneOwner'
      /\ OneMessage'
  BY DEF SignalsInv, SendingOK, SignalOK, FetchOK, DelivererOK, NotifiedOK,
     PaneOK, OneOwner, OneMessage, LeaseRunsOut, serverVars,
     fileSignalVars, agentVars
<1>2. WatcherOK'
  BY DEF SignalsInv, WatcherOK, LeaseRunsOut
<1>3. LeaseOK'
  BY LeaseRunsOutType
<1>4. WatchersHold'
  BY DEF SignalsInv, WatchersHold, LeaseRunsOut, Lives, Holds
<1>5. WorkersHold'
  BY DEF SignalsInv, WorkersHold, LeaseRunsOut, Lives, BeforeResult, Holds
<1>6. QED  BY <1>1, <1>2, <1>3, <1>4, <1>5 DEF SignalsInv

\* A quiet message is recorded only while nothing was handed over.
LEMMA QuietsKeeps ==
    ASSUME SignalsInv, NEW m \in Messages, Quiets(m)
    PROVE  SignalsInv'
<1>1. /\ SendingOK' /\ SignalOK' /\ FetchOK' /\ WatcherOK'
      /\ DelivererOK' /\ LeaseOK' /\ PaneOK'
      /\ OneOwner' /\ OneMessage' /\ WatchersHold'
  BY DEF SignalsInv, SendingOK, SignalOK, FetchOK, WatcherOK, DelivererOK,
     LeaseOK, PaneOK, OneOwner, OneMessage, WatchersHold,
     Quiets, watcherRest, serverVars, fileSignalVars, agentVars, Holds
<1>2. NotifiedOK'
  BY DEF SignalsInv, NotifiedOK, Quiets
<1>3. WorkersHold'
  BY DEF SignalsInv, WorkersHold, Quiets, watcherRest, BeforeResult, Holds
<1>4. QED  BY <1>1, <1>2, <1>3 DEF SignalsInv

\* A list takes part in no lease.
LEMMA FetchListKeeps ==
    ASSUME SignalsInv, FetchList
    PROVE  SignalsInv'
<1>1. /\ SendingOK' /\ SignalOK' /\ WatcherOK' /\ DelivererOK'
      /\ LeaseOK' /\ NotifiedOK' /\ PaneOK' /\ OneOwner' /\ OneMessage'
      /\ WatchersHold' /\ WorkersHold'
  BY DEF SignalsInv, SendingOK, SignalOK, WatcherOK, DelivererOK, LeaseOK,
     NotifiedOK, PaneOK, OneOwner, OneMessage, WatchersHold, WorkersHold,
     FetchList, fileSignalVars, agentVars, Holds, BeforeResult
<1>2. FetchOK'
  BY DEF SignalsInv, SendingOK, FetchOK, FetchList
<1>3. QED  BY <1>1, <1>2 DEF SignalsInv

\* The clear spares what is younger than the grace.
LEMMA FetchClearKeeps ==
    ASSUME SignalsInv, FetchClear
    PROVE  SignalsInv'
<1>1. /\ SendingOK' /\ WatcherOK' /\ DelivererOK' /\ LeaseOK'
      /\ NotifiedOK' /\ PaneOK' /\ OneOwner' /\ OneMessage'
      /\ WatchersHold' /\ WorkersHold'
  BY DEF SignalsInv, SendingOK, WatcherOK, DelivererOK, LeaseOK, NotifiedOK,
     PaneOK, OneOwner, OneMessage, WatchersHold, WorkersHold, FetchClear,
     agentVars, Holds, BeforeResult
<1>2. SignalOK'
  BY DEF SignalsInv, SignalOK, FetchClear
<1>3. FetchOK'
  BY DEF SignalsInv, FetchOK, FetchClear
<1>4. QED  BY <1>1, <1>2, <1>3 DEF SignalsInv

\* Signals grow older up to the grace.
LEMMA SignalsAgeKeeps ==
    ASSUME SignalsInv, SignalsAge
    PROVE  SignalsInv'
<1>1. /\ SendingOK' /\ WatcherOK' /\ DelivererOK' /\ LeaseOK'
      /\ NotifiedOK' /\ PaneOK' /\ OneOwner' /\ OneMessage'
      /\ WatchersHold' /\ WorkersHold'
  BY DEF SignalsInv, SendingOK, WatcherOK, DelivererOK, LeaseOK, NotifiedOK,
     PaneOK, OneOwner, OneMessage, WatchersHold, WorkersHold, SignalsAge,
     serverVars, agentVars, Holds, BeforeResult
<1>2. SignalOK'
  BY MailSignalsAssumption DEF SignalsInv, SignalOK, SignalsAge
<1>3. FetchOK'
  BY DEF SignalsInv, FetchOK, SignalsAge, serverVars
<1>4. QED  BY <1>1, <1>2, <1>3 DEF SignalsInv

\* The session is no part of the leases.
LEMMA PaneChangesKeeps ==
    ASSUME SignalsInv, PaneChanges
    PROVE  SignalsInv'
<1>1. /\ SendingOK' /\ SignalOK' /\ FetchOK' /\ WatcherOK'
      /\ DelivererOK' /\ LeaseOK' /\ NotifiedOK'
      /\ OneOwner' /\ OneMessage' /\ WatchersHold' /\ WorkersHold'
  BY DEF SignalsInv, SendingOK, SignalOK, FetchOK, WatcherOK, DelivererOK,
     LeaseOK, NotifiedOK, OneOwner, OneMessage, WatchersHold,
     WorkersHold, PaneChanges, serverVars, fileSignalVars, Holds, BeforeResult
<1>2. PaneOK'
  BY DEF SignalsInv, PaneOK, PaneChanges
<1>3. QED  BY <1>1, <1>2 DEF SignalsInv

\* The watcher takes one message.
LEMMA TakesKeeps ==
    ASSUME SignalsInv, NEW w \in Watchers, NEW m \in Messages, Takes(w, m)
    PROVE  SignalsInv'
<1>1. /\ SendingOK' /\ SignalOK' /\ FetchOK' /\ DelivererOK' /\ LeaseOK'
      /\ NotifiedOK' /\ PaneOK' /\ WorkersHold'
  BY DEF SignalsInv, SendingOK, SignalOK, FetchOK, DelivererOK, LeaseOK,
     NotifiedOK, PaneOK, WorkersHold, Takes, watcherRest,
     serverVars, fileSignalVars, agentVars, BeforeResult, Holds
<1>2. WatcherOK'
  BY DEF SignalsInv, WatcherOK, Takes
<1>3. OneOwner'
  BY DEF SignalsInv, OneOwner, Takes, watcherRest
<1>4. OneMessage'
  BY DEF SignalsInv, OneMessage, Takes
<1>5. WatchersHold'
  BY DEF SignalsInv, WatchersHold, Takes, watcherRest, Holds
<1>6. QED  BY <1>1, <1>2, <1>3, <1>4, <1>5 DEF SignalsInv

\* The lease and its owner, in one step.
LEMMA AcquiresKeeps ==
    ASSUME SignalsInv, NEW w \in Watchers, NEW m \in Messages, NEW d \in Deliverers,
           Acquires(w, m, d)
    PROVE  SignalsInv'
<1>1. /\ SendingOK' /\ SignalOK' /\ FetchOK' /\ DelivererOK'
      /\ NotifiedOK' /\ PaneOK'
  BY DEF SignalsInv, SendingOK, SignalOK, FetchOK, DelivererOK, NotifiedOK,
     PaneOK, Acquires, watcherRest, serverVars, fileSignalVars,
     agentVars
<1>2. WatcherOK'
  BY DEF SignalsInv, WatcherOK, Acquires
<1>3. LeaseOK'
  BY DEF SignalsInv, LeaseOK, Acquires, watcherRest
<1>4. OneOwner'
  BY DEF SignalsInv, OneOwner, Acquires, Fresh, watcherRest
<1>5. OneMessage'
  BY DEF SignalsInv, OneMessage, Acquires
<1>6. WatchersHold'
  BY AcquiresHeld
<1>7. WorkersHold'
  BY MailSignalsAssumption DEF SignalsInv, WorkersHold, Acquires, NoLease,
     watcherRest, BeforeResult, Holds
<1>8. QED  BY <1>1, <1>2, <1>3, <1>4, <1>5, <1>6, <1>7 DEF SignalsInv

\* With the lease the worker takes over the watcher's message.
LEMMA SpawnsKeeps ==
    ASSUME SignalsInv, NEW w \in Watchers, NEW m \in Messages, NEW d \in Deliverers, Spawns(w,
           m, d)
    PROVE  SignalsInv'
<1>1. /\ SendingOK' /\ SignalOK' /\ FetchOK' /\ LeaseOK' /\ NotifiedOK'
      /\ PaneOK'
  BY DEF SignalsInv, SendingOK, SignalOK, FetchOK, LeaseOK, NotifiedOK,
     PaneOK, Spawns, serverVars, fileSignalVars, agentVars
<1>2. WatcherOK'
  BY DEF SignalsInv, WatcherOK, Spawns, WatcherIdle
<1>3. DelivererOK'
  BY DEF SignalsInv, DelivererOK, Spawns, Workings
<1>4. OneOwner'
  BY DEF SignalsInv, WatcherOK, OneOwner, Spawns, WatcherIdle
<1>5. OneMessage'
  BY DEF SignalsInv, OneMessage, Spawns, WatcherIdle
<1>6. WatchersHold'
  BY DEF SignalsInv, WatchersHold, Spawns, WatcherIdle, Holds
<1>7. WorkersHold'
  BY DEF SignalsInv, WatchersHold, WorkersHold, Spawns, ShouldAttempt,
     BeforeResult, Holds
<1>8. QED  BY <1>1, <1>2, <1>3, <1>4, <1>5, <1>6, <1>7 DEF SignalsInv

\* A lease given back is nobody's.
LEMMA GivesBackKeeps ==
    ASSUME SignalsInv, NEW w \in Watchers, NEW m \in Messages, NEW d \in Deliverers,
           GivesBack(w, m, d)
    PROVE  SignalsInv'
<1>1. /\ SendingOK' /\ SignalOK' /\ FetchOK' /\ DelivererOK'
      /\ NotifiedOK' /\ PaneOK'
  BY DEF SignalsInv, SendingOK, SignalOK, FetchOK, DelivererOK, NotifiedOK,
     PaneOK, GivesBack, serverVars, fileSignalVars, agentVars
<1>2. WatcherOK'
  BY DEF SignalsInv, WatcherOK, GivesBack, WatcherIdle
<1>3. LeaseOK'
  BY DEF SignalsInv, LeaseOK, GivesBack, LeaseWithout, NoLease
<1>4. OneOwner'
  BY DEF SignalsInv, OneOwner, GivesBack, WatcherIdle
<1>5. OneMessage'
  BY DEF SignalsInv, OneMessage, GivesBack, WatcherIdle
<1>6. WatchersHold'
  BY DEF SignalsInv, WatcherOK, OneOwner, WatchersHold, GivesBack,
     LeaseWithout, WatcherIdle, Holds
<1>7. WorkersHold'
  BY DEF SignalsInv, OneOwner, WorkersHold, GivesBack, LeaseWithout,
     NoLease, BeforeResult, Holds
<1>8. QED  BY <1>1, <1>2, <1>3, <1>4, <1>5, <1>6, <1>7 DEF SignalsInv

\* The watcher turns to the lease.
LEMMA TurnsKeeps ==
    ASSUME SignalsInv, NEW w \in Watchers, Turns(w)
    PROVE  SignalsInv'
<1>1. /\ SendingOK' /\ SignalOK' /\ FetchOK' /\ DelivererOK' /\ LeaseOK'
      /\ NotifiedOK' /\ PaneOK' /\ WorkersHold'
  BY DEF SignalsInv, SendingOK, SignalOK, FetchOK, DelivererOK, LeaseOK,
     NotifiedOK, PaneOK, WorkersHold, Turns, watcherRest,
     serverVars, fileSignalVars, agentVars, BeforeResult, Holds
<1>2. WatcherOK'
  BY DEF SignalsInv, WatcherOK, Turns
<1>3. OneOwner'
  BY DEF SignalsInv, OneOwner, Turns, watcherRest
<1>4. OneMessage'
  BY DEF SignalsInv, OneMessage, Turns
<1>5. WatchersHold'
  BY DEF SignalsInv, WatchersHold, Turns, watcherRest, Holds
<1>6. QED  BY <1>1, <1>2, <1>3, <1>4, <1>5 DEF SignalsInv

\* The watcher holds nothing.
LEMMA LetsGoKeeps ==
    ASSUME SignalsInv, NEW w \in Watchers, LetsGo(w)
    PROVE  SignalsInv'
<1>1. /\ SendingOK' /\ SignalOK' /\ FetchOK' /\ DelivererOK' /\ LeaseOK'
      /\ NotifiedOK' /\ PaneOK' /\ WorkersHold'
  BY DEF SignalsInv, SendingOK, SignalOK, FetchOK, DelivererOK, LeaseOK,
     NotifiedOK, PaneOK, WorkersHold, LetsGo, watcherRest,
     serverVars, fileSignalVars, agentVars, BeforeResult, Holds
<1>2. WatcherOK'
  BY DEF SignalsInv, WatcherOK, LetsGo, WatcherIdle
<1>3. OneOwner'
  BY DEF SignalsInv, OneOwner, LetsGo, WatcherIdle, watcherRest
<1>4. OneMessage'
  BY DEF SignalsInv, OneMessage, LetsGo, WatcherIdle
<1>5. WatchersHold'
  BY DEF SignalsInv, WatchersHold, LetsGo, WatcherIdle, watcherRest, Holds
<1>6. QED  BY <1>1, <1>2, <1>3, <1>4, <1>5 DEF SignalsInv

\* A new watcher starts with nothing.
LEMMA WatcherStartsKeeps ==
    ASSUME SignalsInv, NEW w \in Watchers, WatcherStarts(w)
    PROVE  SignalsInv'
<1>1. /\ SendingOK' /\ SignalOK' /\ FetchOK' /\ DelivererOK' /\ LeaseOK'
      /\ NotifiedOK' /\ PaneOK' /\ WorkersHold'
  BY DEF SignalsInv, SendingOK, SignalOK, FetchOK, DelivererOK, LeaseOK,
     NotifiedOK, PaneOK, WorkersHold, WatcherStarts, serverVars,
     fileSignalVars, agentVars, BeforeResult, Holds
<1>2. WatcherOK'
  BY DEF SignalsInv, WatcherOK, WatcherStarts, WatcherIdle
<1>3. OneOwner'
  BY DEF SignalsInv, OneOwner, WatcherStarts, WatcherIdle
<1>4. OneMessage'
  BY DEF SignalsInv, OneMessage, WatcherStarts, WatcherIdle
<1>5. WatchersHold'
  BY DEF SignalsInv, WatchersHold, WatcherStarts, WatcherIdle, Holds
<1>6. QED  BY <1>1, <1>2, <1>3, <1>4, <1>5 DEF SignalsInv

\* A dead watcher leaves its lease to run out.
LEMMA WatcherDiesKeeps ==
    ASSUME SignalsInv, NEW w \in Watchers, WatcherDies(w)
    PROVE  SignalsInv'
<1>1. /\ SendingOK' /\ SignalOK' /\ FetchOK' /\ DelivererOK' /\ LeaseOK'
      /\ NotifiedOK' /\ PaneOK' /\ WorkersHold'
  BY DEF SignalsInv, SendingOK, SignalOK, FetchOK, DelivererOK, LeaseOK,
     NotifiedOK, PaneOK, WorkersHold, WatcherDies, serverVars,
     fileSignalVars, agentVars, BeforeResult, Holds
<1>2. WatcherOK'
  BY DEF SignalsInv, WatcherOK, WatcherDies, WatcherIdle
<1>3. OneOwner'
  BY DEF SignalsInv, OneOwner, WatcherDies, WatcherIdle
<1>4. OneMessage'
  BY DEF SignalsInv, OneMessage, WatcherDies, WatcherIdle
<1>5. WatchersHold'
  BY DEF SignalsInv, WatchersHold, WatcherDies, Holds
<1>6. QED  BY <1>1, <1>2, <1>3, <1>4, <1>5 DEF SignalsInv

\* The worker keeps its lease on the way to a result.
LEMMA MovesKeeps ==
    ASSUME SignalsInv, NEW d \in Deliverers, NEW step \in NextSteps, Moves(d, step)
    PROVE  SignalsInv'
<1>1. /\ SendingOK' /\ SignalOK' /\ FetchOK' /\ WatcherOK' /\ LeaseOK'
      /\ NotifiedOK' /\ PaneOK' /\ OneMessage'
      /\ WatchersHold'
  BY DEF SignalsInv, SendingOK, SignalOK, FetchOK, WatcherOK, LeaseOK,
     NotifiedOK, PaneOK, OneMessage, WatchersHold, Moves,
     stepRest, serverVars, fileSignalVars, agentVars, Holds
<1>2. DelivererOK'
  BY MovesType
<1>3. OneOwner'
  BY DEF SignalsInv, OneOwner, Moves, Goes, stepRest
<1>4. WorkersHold'
  BY DEF SignalsInv, WorkersHold, Moves, Goes, stepRest, BeforeResult, Holds
<1>5. QED  BY <1>1, <1>2, <1>3, <1>4 DEF SignalsInv

\* The result is known but not recorded: the lease is still held.
LEMMA EndsKeeps ==
    ASSUME SignalsInv, NEW d \in Deliverers, NEW result \in {"failed", "absent", "success"},
           Ends(d, result)
    PROVE  SignalsInv'
<1>1. /\ SendingOK' /\ FetchOK' /\ WatcherOK' /\ LeaseOK' /\ NotifiedOK'
      /\ PaneOK' /\ OneMessage' /\ WatchersHold'
  BY DEF SignalsInv, SendingOK, FetchOK, WatcherOK, LeaseOK, NotifiedOK,
     PaneOK, OneMessage, WatchersHold, Ends, serverVars, agentVars, Holds
<1>2. SignalOK'
  BY DEF SignalsInv, SignalOK, Ends
<1>3. DelivererOK'
  BY DEF SignalsInv, DelivererOK, Ends, Workings
<1>4. OneOwner'
  BY DEF SignalsInv, OneOwner, Ends
<1>5. WorkersHold'
  BY DEF SignalsInv, WorkersHold, Ends, BeforeResult, Holds
<1>6. QED  BY <1>1, <1>2, <1>3, <1>4, <1>5 DEF SignalsInv

\* The lease is given back after the result was recorded.
LEMMA ReleasesKeeps ==
    ASSUME SignalsInv, NEW d \in Deliverers, NEW m \in Messages, Releases(d, m)
    PROVE  SignalsInv'
<1>1. /\ SendingOK' /\ SignalOK' /\ FetchOK' /\ NotifiedOK' /\ PaneOK'
      /\ OneMessage'
  BY DEF SignalsInv, SendingOK, SignalOK, FetchOK, NotifiedOK, PaneOK,
     OneMessage, Releases, serverVars, fileSignalVars, agentVars
<1>2. WatcherOK'
  BY DEF SignalsInv, WatcherOK, Releases
<1>3. DelivererOK'
  BY DEF SignalsInv, DelivererOK, Releases, Off, Workings
<1>4. LeaseOK'
  BY DEF SignalsInv, LeaseOK, Releases, LeaseWithout, NoLease
<1>5. OneOwner'
  BY DEF SignalsInv, OneOwner, Releases
<1>6. WatchersHold'
  BY DEF SignalsInv, OneOwner, WatchersHold, Releases, LeaseWithout, Holds
<1>7. WorkersHold'
  BY DEF SignalsInv, WorkersHold, Releases, LeaseWithout, Off, BeforeResult, Holds
<1>8. QED  BY <1>1, <1>2, <1>3, <1>4, <1>5, <1>6, <1>7 DEF SignalsInv

\* The result is recorded while the lease is held.
LEMMA MarksKeeps ==
    ASSUME SignalsInv, NEW d \in Deliverers, Marks(d)
    PROVE  SignalsInv'
<1>1. /\ SendingOK' /\ SignalOK' /\ FetchOK' /\ WatcherOK' /\ LeaseOK'
      /\ PaneOK' /\ OneMessage' /\ WatchersHold'
  BY DEF SignalsInv, SendingOK, SignalOK, FetchOK, WatcherOK, LeaseOK,
     PaneOK, OneMessage, WatchersHold, Marks, serverVars,
     fileSignalVars, agentVars, Holds
<1>2. DelivererOK'
  BY DEF SignalsInv, DelivererOK, Marks, Goes, Workings
<1>3. NotifiedOK'
  BY DEF SignalsInv, DelivererOK, NotifiedOK, Marks, Workings
<1>4. OneOwner'
  BY DEF SignalsInv, OneOwner, Marks, Goes
<1>5. WorkersHold'
  BY MarksHeld
<1>6. QED  BY <1>1, <1>2, <1>3, <1>4, <1>5 DEF SignalsInv

\* The signal goes last.
LEMMA UnlinkSignalKeeps ==
    ASSUME SignalsInv, NEW d \in Deliverers, UnlinkSignal(d)
    PROVE  SignalsInv'
<1>1. /\ SendingOK' /\ FetchOK' /\ WatcherOK' /\ LeaseOK' /\ NotifiedOK'
      /\ PaneOK' /\ OneMessage' /\ WatchersHold'
  BY DEF SignalsInv, SendingOK, FetchOK, WatcherOK, LeaseOK, NotifiedOK,
     PaneOK, OneMessage, WatchersHold, UnlinkSignal, workerRest, serverVars,
     agentVars, Holds
<1>2. SignalOK'
  BY DEF SignalsInv, SignalOK, UnlinkSignal
<1>3. DelivererOK'
  BY DEF SignalsInv, DelivererOK, UnlinkSignal, Off, Workings
<1>4. OneOwner'
  BY DEF SignalsInv, OneOwner, UnlinkSignal, workerRest
<1>5. WorkersHold'
  BY DEF SignalsInv, WorkersHold, UnlinkSignal, Off, workerRest, BeforeResult,
     Holds
<1>6. QED  BY <1>1, <1>2, <1>3, <1>4, <1>5 DEF SignalsInv

\* A dead worker leaves its lease to run out.
LEMMA DelivererDiesKeeps ==
    ASSUME SignalsInv, NEW d \in Deliverers, DelivererDies(d)
    PROVE  SignalsInv'
<1>1. /\ SendingOK' /\ SignalOK' /\ FetchOK' /\ WatcherOK' /\ LeaseOK'
      /\ NotifiedOK' /\ PaneOK' /\ OneMessage'
      /\ WatchersHold'
  BY DEF SignalsInv, SendingOK, SignalOK, FetchOK, WatcherOK, LeaseOK,
     NotifiedOK, PaneOK, OneMessage, WatchersHold,
     DelivererDies, serverVars, fileSignalVars, agentVars, Holds
<1>2. DelivererOK'
  BY DEF SignalsInv, DelivererOK, DelivererDies, Off, Workings
<1>3. OneOwner'
  BY DEF SignalsInv, OneOwner, DelivererDies
<1>4. WorkersHold'
  BY DEF SignalsInv, WorkersHold, DelivererDies, Off, BeforeResult, Holds
<1>5. QED  BY <1>1, <1>2, <1>3, <1>4 DEF SignalsInv

\* At the start there is no signal and nobody is at work.
LEMMA SignalsInvStart == MailSignalsInit => SignalsInv
BY MailSignalsAssumption DEF MailSignalsInit, SignalsInv, SendingOK, SignalOK, FetchOK,
   WatcherOK, DelivererOK, LeaseOK,
   NotifiedOK, PaneOK, OneOwner, OneMessage, WatchersHold, WorkersHold,
   BeforeResult, Holds, Workings, WatcherIdle, Off, NoLease, NeverNotified

\* Every step of the server, a watcher and a worker keeps it.
LEMMA SignalsInvStep == SignalsInv /\ [MailSignalsNext]_mailSignalVars => SignalsInv'
<1> SUFFICES ASSUME SignalsInv, [MailSignalsNext]_mailSignalVars  PROVE SignalsInv'
  OBVIOUS
<1>1. ASSUME NEW m \in Messages,
             \/ CommitRows(m) \/ OpenSignal(m) \/ WriteSignal(m)
             \/ SendFails(m) \/ CooldownPasses(m) \/ LeaseRunsOut(m)
      PROVE  SignalsInv'
  BY <1>1, CommitRowsKeeps, OpenSignalKeeps, WriteSignalKeeps, SendFailsKeeps,
     CooldownPassesKeeps, LeaseRunsOutKeeps
<1>2. CASE FetchList \/ FetchClear \/ SignalsAge \/ PaneChanges
  BY <1>2, FetchListKeeps, FetchClearKeeps, SignalsAgeKeeps, PaneChangesKeeps
<1>3. ASSUME NEW w \in Watchers, WatcherStep(w) \/ WatcherDies(w)  PROVE SignalsInv'
  <2>1. ASSUME NEW m \in Messages, ReadSignal(w, m)  PROVE SignalsInv'
    BY <2>1, ReadCases, QuietsKeeps, TakesKeeps
  <2>2. CASE AwaitSlot(w)
    BY <2>2, SlotCases, TurnsKeeps, LetsGoKeeps
  <2>3. CASE AcquireLease(w)
    BY <2>3, AcquireCases, AcquiresKeeps, LetsGoKeeps
  <2>4. CASE RecheckAndSpawn(w)
    BY <2>4, RecheckCases, SpawnsKeeps, GivesBackKeeps
  <2>5. CASE WatcherStarts(w) \/ WatcherDies(w)
    BY <2>5, WatcherStartsKeeps, WatcherDiesKeeps
  <2>6. QED
    BY <1>3, <2>1, <2>2, <2>3, <2>4, <2>5 DEF WatcherStep
<1>4. ASSUME NEW d \in Deliverers, DelivererStep(d) \/ DelivererDies(d)  PROVE SignalsInv'
  BY <1>4, WorkerCases, MovesKeeps, EndsKeeps, MarksKeeps, ReleasesKeeps,
     UnlinkSignalKeeps, DelivererDiesKeeps
<1>5. CASE UNCHANGED mailSignalVars
  BY <1>5 DEF mailSignalVars, SignalsInv, SendingOK, SignalOK, FetchOK, WatcherOK, DelivererOK,
     LeaseOK,
     NotifiedOK, PaneOK, OneOwner, OneMessage, WatchersHold, WorkersHold,
     BeforeResult, Holds
<1>6. QED
  BY <1>1, <1>2, <1>3, <1>4, <1>5 DEF MailSignalsNext

\* The inductive invariant of the signals.
LEMMA SignalsInvariant == MailSignalsSpec => []SignalsInv
BY SignalsInvStart, SignalsInvStep, PTL DEF MailSignalsSpec

\* Which messages are below the importance that may interrupt is given.
LEMMA QuietFixed == [MailSignalsNext]_mailSignalVars => quiet' = quiet
BY DEF MailSignalsNext, mailSignalVars, agentVars, watcherOnly, workerRest, CommitRows,
   OpenSignal, WriteSignal, SendFails, CooldownPasses, LeaseRunsOut, FetchList,
   FetchClear, SignalsAge, PaneChanges, WatcherStep, ReadSignal, AwaitSlot,
   AcquireLease, RecheckAndSpawn, WatcherStarts, WatcherDies, DelivererStep,
   HeadlessReply, Results, LookUpSession, Goes, DiscardSignal, CapturePane,
   PasteNotice, SubmitNotice, DeliveryFails, MarkResult, ReleaseLease, Off,
   UnlinkSignal, DelivererDies

\* Every variable of the server, the watchers, the workers and their leases keeps
\* its type.
THEOREM MailSignalsTypeCorrect == MailSignalsSpec => []MailSignalsTypeOK
<1>1. ASSUME SignalsInv, quiet \subseteq Messages  PROVE MailSignalsTypeOK
  BY <1>1 DEF SignalsInv, SendingOK, SignalOK, FetchOK, WatcherOK, DelivererOK, LeaseOK,
     NotifiedOK, PaneOK, Workings, MailSignalsTypeOK
<1>2. MailSignalsInit => quiet \subseteq Messages
  BY DEF MailSignalsInit
<1>3. quiet \subseteq Messages /\ [MailSignalsNext]_mailSignalVars
        => (quiet \subseteq Messages)'
  BY QuietFixed
<1>4. QED
  BY <1>1, <1>2, <1>3, SignalsInvariant, PTL DEF MailSignalsSpec

\* Two workers are never at work on one notice, whichever watcher, scan or retry
\* started them and whoever died, while leases outlast their workers
\* (acquire_delivery_lease, deliver_worker).
THEOREM OneWorkerPerNoticeTheorem == MailSignalsSpec => []OneWorkerPerNotice
<1>1. ASSUME SignalsInv, NEW d \in Deliverers, NEW e \in Deliverers, d # e,
             BeforeResult(d), BeforeResult(e),
             NEW m \in deliverer[d].msg \cap deliverer[e].msg
      PROVE  m \in outlived
  <2>1. Holds(d, m) /\ Holds(e, m)
    BY <1>1 DEF SignalsInv, WorkersHold
  <2>2. [owner |-> d, old |-> FALSE] # [owner |-> e, old |-> FALSE]
    BY <1>1
  <2>3. QED
    BY <2>1, <2>2 DEF Holds
<1>2. SignalsInv => OneWorkerPerNotice
  BY <1>1 DEF OneWorkerPerNotice
<1>3. QED
  BY <1>2, SignalsInvariant, PTL

\* No worker hands over a notice that is recorded as delivered, whichever watcher,
\* scan or retry started it and whoever died, while leases outlast their workers
\* (acquire_delivery_lease, deliver_worker).
THEOREM NoNoticeAfterSuccessTheorem == MailSignalsSpec => NoNoticeAfterSuccess
<1>1. ASSUME SignalsInv, NEW d \in Deliverers, HandsOver(d), NEW m \in deliverer[d].msg,
             notified[m].result = "success"
      PROVE  m \in outlived
  <2>1. BeforeResult(d)
    BY <1>1 DEF HandsOver, BeforeResult
  <2>2. QED
    BY <1>1, <2>1 DEF SignalsInv, WorkersHold
<1>2. SignalsInv /\ [MailSignalsNext]_mailSignalVars =>
         [\A d \in Deliverers : HandsOver(d) =>
            \A m \in deliverer[d].msg :
                notified[m].result = "success" => m \in outlived]_mailSignalVars
  BY <1>1
<1>3. QED
  BY <1>2, SignalsInvariant, PTL DEF MailSignalsSpec, NoNoticeAfterSuccess
=============================================================================
