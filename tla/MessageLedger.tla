--------------------------- MODULE MessageLedger ---------------------------
(* Messages from ChatGPT to an agent: messaging.py (preview, commit,          *)
(* _dispatch, _observe, status), the ledger of tools.py and the approvals of  *)
(* pairing.py.                                                                *)
(*                                                                            *)
(* Several gateways share the state directory with the ledger and the         *)
(* approvals; a preview lives in the memory of the gateway that made it.  The *)
(* threads of a gateway share its lock, all gateways share the lock of the    *)
(* sender's profile.  Mail and the dashboard are seen through what the sender *)
(* gets back from them.                                                       *)
EXTENDS Integers, FiniteSets

CONSTANTS
    Callers,           \* tool calls that may run at the same time
    Gateways,          \* gateway processes
    Previews,          \* message contents, one preview each
    Keys,              \* idempotency keys
    NoPreview, NoCaller,
    LocalApproval,     \* whether the operator approves each preview on the Mac
    MaxPerHour,        \* message_max_per_hour
    MaxGatewayFaults   \* bound: crashes, failed writes, changed recipients

ASSUME MessageLedgerAssumption ==
    /\ IsFiniteSet(Keys) /\ Gateways # {}
    /\ Gateways \cap {"none", "unmade", "gone"} = {}
    /\ NoPreview \notin Previews /\ NoCaller \notin Callers
    /\ LocalApproval \in BOOLEAN /\ MaxPerHour \in Nat /\ MaxGatewayFaults \in Nat

VARIABLES
    ledger,       \* message-ledger.json: what each key was used for
    recent,       \* keys whose record is younger than an hour
    previews,     \* where each preview is held and whether it is consumed
    approvals,    \* previews with an approval file
    call,         \* each running tool call
    gate,         \* holder of each gateway's lock
    profile,      \* holder of the sender profile's lock
    wire,         \* messages on their way to Mail
    mail,         \* copies of each message in Mail
    known,        \* whether sender and recipient are the rows the preview saw
    gatewayFaults \* faults so far

ledgerVars == <<ledger, recent, previews, approvals, call, gate, profile, wire,
                mail, known, gatewayFaults>>
durableVars == <<ledger, recent, approvals>>
mailVars == <<wire, mail, known>>

Outcomes == {"dispatching", "accepted", "rejected", "unknown"}
NoRecord == [preview |-> NoPreview, state |-> "none"]
Unmade == [at |-> "unmade", consumed |-> FALSE]
Gone == [at |-> "gone", consumed |-> FALSE]    \* its id is never used again
Free == [at |-> "free", gateway |-> "none", preview |-> NoPreview,
         key |-> NoPreview, outcome |-> "none"]
Open == {"dispatching", "unknown"}

Recorded(k) == ledger[k] # NoRecord
GatewayFault == gatewayFaults < MaxGatewayFaults /\ gatewayFaults' = gatewayFaults + 1
Return(c) == call' = [call EXCEPT ![c] = Free]
Step(c, at) == call' = [call EXCEPT ![c].at = at]
Concludes(c, outcome) ==
    call' = [call EXCEPT ![c] = [@ EXCEPT !.at = "finish", !.outcome = outcome]]

-----------------------------------------------------------------------------
(* preview: sender and recipient are looked up under the profile's lock; the  *)
(* preview is kept in memory, with a pending approval where one is needed.    *)
Preview(g, p) ==
    /\ previews[p] = Unmade /\ profile = NoCaller /\ known
    /\ previews' = [previews EXCEPT ![p] = [at |-> g, consumed |-> FALSE]]
    /\ UNCHANGED <<durableVars, call, gate, profile, mailVars, gatewayFaults>>

(* PREVIEW_TTL passes.                                                        *)
Expire(p) ==
    /\ previews[p].at \in Gateways
    /\ previews' = [previews EXCEPT ![p] = Gone]
    /\ UNCHANGED <<durableVars, call, gate, profile, mailVars, gatewayFaults>>

(* approve, and deny of an approval or a pending preview, on the Mac.         *)
Approve(p) ==
    /\ LocalApproval /\ previews[p].at \in Gateways /\ ~previews[p].consumed
    /\ \/ approvals' = approvals \cup {p}
       \/ approvals' = approvals \ {p}
    /\ UNCHANGED <<ledger, recent, previews, call, gate, profile, mailVars,
                   gatewayFaults>>

(* commit: a key that has a record never goes further than this.  A record    *)
(* whose outcome is open is looked up, any other is answered from the ledger. *)
Commit(c, g, p, k) ==
    /\ call[c] = Free /\ previews[p] # Unmade
    /\ \/ /\ ~Recorded(k)
          /\ call' = [call EXCEPT ![c] = [at |-> "lock", gateway |-> g, preview |-> p,
                                      key |-> k, outcome |-> "none"]]
       \/ /\ ledger[k].preview = p /\ ledger[k].state \in Open
          /\ call' = [call EXCEPT ![c] =
                [at |-> "observe", gateway |-> g, preview |-> p, key |-> k,
                 outcome |-> ledger[k].state]]
    /\ UNCHANGED <<durableVars, previews, gate, profile, mailVars, gatewayFaults>>

(* Under the gateway's lock: the preview must be this gateway's, not expired, *)
(* not consumed and approved.  A consumed one is a replay if the key has its  *)
(* record by now.                                                             *)
EnterCommit(c) ==
    LET p == call[c].preview
        held == previews[p].at = call[c].gateway
        mine == ledger[call[c].key]
    IN  /\ call[c].at = "lock" /\ gate[call[c].gateway] = NoCaller
        /\ IF held /\ ~previews[p].consumed /\ (LocalApproval => p \in approvals)
           THEN /\ gate' = [gate EXCEPT ![call[c].gateway] = c]
                /\ Step(c, "reserve")
           ELSE /\ UNCHANGED gate
                /\ IF held /\ previews[p].consumed /\ mine.preview = p
                      /\ mine.state \in Open
                   THEN Step(c, "observe")
                   ELSE Return(c)
        /\ UNCHANGED <<durableVars, previews, profile, mailVars, gatewayFaults>>

(* MessageLedger.reserve, one transaction on the ledger: a key somebody else  *)
(* used meanwhile is a replay or a conflict; the cap counts every record of   *)
(* the hour that is not rejected.                                             *)
Counted == {k \in recent : ledger[k].state # "rejected"}

MayReserve(k) == ~Recorded(k) /\ Cardinality(Counted) < MaxPerHour

Reserve(c) ==
    LET k == call[c].key IN
    /\ call[c].at = "reserve"
    /\ IF MayReserve(k)
       THEN /\ ledger' = [ledger EXCEPT ![k] = [preview |-> call[c].preview,
                                               state |-> "dispatching"]]
            /\ recent' = recent \cup {k}
            /\ Step(c, "consume") /\ UNCHANGED gate
       ELSE /\ gate' = [gate EXCEPT ![call[c].gateway] = NoCaller]
            /\ IF ledger[k].preview = call[c].preview /\ ledger[k].state \in Open
               THEN Step(c, "observe") ELSE Return(c)
            /\ UNCHANGED <<ledger, recent>>
    /\ UNCHANGED <<previews, approvals, profile, mailVars, gatewayFaults>>

\* mutant: the preview is not marked as consumed
ConsumePreviewNever(c) ==
    /\ call[c].at = "consume"
    /\ approvals' = approvals \ {call[c].preview}
    /\ gate' = [gate EXCEPT ![call[c].gateway] = NoCaller]
    /\ Step(c, "dispatch")
    /\ UNCHANGED <<ledger, recent, previews, profile, mailVars, gatewayFaults>>

(* preview.consumed is set and the approval is used up; the lock is given     *)
(* back.  A preview that expired since is gone from memory all the same.      *)
ConsumePreview(c) ==
    LET p == call[c].preview IN
    /\ call[c].at = "consume"
    /\ previews' = IF previews[p] = Gone THEN previews
                    ELSE [previews EXCEPT ![p].consumed = TRUE]
    /\ approvals' = approvals \ {p}
    /\ gate' = [gate EXCEPT ![call[c].gateway] = NoCaller]
    /\ Step(c, "dispatch")
    /\ UNCHANGED <<ledger, recent, profile, mailVars, gatewayFaults>>

-----------------------------------------------------------------------------
(* DaemonSender.session: one sender at a time, over all gateways; a sender    *)
(* that stays busy refuses the message after OPEN_RETRY_SECONDS.              *)
OpenSession(c) ==
    /\ call[c].at = "dispatch" /\ profile = NoCaller
    /\ profile' = c /\ Step(c, "verify")
    /\ UNCHANGED <<durableVars, previews, gate, mailVars, gatewayFaults>>

SenderBusy(c) ==
    /\ call[c].at = "dispatch" /\ profile # NoCaller
    /\ Concludes(c, "rejected")
    /\ UNCHANGED <<durableVars, previews, gate, profile, mailVars, gatewayFaults>>

(* _dispatch compares sender and recipient with the preview's; a difference   *)
(* means nothing was sent.                                                    *)
VerifyAndSend(c) ==
    /\ call[c].at = "verify"
    /\ IF known
       THEN wire' = wire \cup {call[c].preview} /\ Step(c, "sent") /\ UNCHANGED profile
       ELSE /\ Concludes(c, "rejected")
            /\ profile' = NoCaller /\ UNCHANGED wire
    /\ UNCHANGED <<durableVars, previews, gate, mail, known, gatewayFaults>>

(* Mail stores the message, with or without anybody waiting for the receipt.  *)
MailStores(p) ==
    /\ p \in wire
    /\ wire' = wire \ {p} /\ mail' = [mail EXCEPT ![p] = @ + 1]
    /\ UNCHANGED <<durableVars, previews, call, gate, profile, known, gatewayFaults>>

(* Mail refuses before storing (PRE_DELIVERY_REFUSALS).                       *)
Refused(c) ==
    /\ call[c].at = "sent" /\ call[c].preview \in wire
    /\ wire' = wire \ {call[c].preview} /\ profile' = NoCaller
    /\ Concludes(c, "rejected")
    /\ UNCHANGED <<durableVars, previews, gate, mail, known, gatewayFaults>>

(* _receipt accepts only Mail's receipt for this message.                     *)
Receipt(c) ==
    /\ call[c].at = "sent" /\ mail[call[c].preview] > 0
    /\ profile' = NoCaller
    /\ Concludes(c, "accepted")
    /\ UNCHANGED <<durableVars, previews, gate, mailVars, gatewayFaults>>

\* mutant: no answer is taken for a refusal
NoReceiptRejected(c) ==
    /\ call[c].at = "sent" /\ GatewayFault
    /\ profile' = NoCaller
    /\ Concludes(c, "rejected")
    /\ wire' \in {wire, wire \ {call[c].preview}}
    /\ UNCHANGED <<durableVars, previews, gate, mail, known>>

(* The answer is lost or is not the receipt expected; the request is lost too *)
(* or still on its way.                                                       *)
NoReceipt(c) ==
    /\ call[c].at = "sent" /\ GatewayFault
    /\ profile' = NoCaller
    /\ Concludes(c, "unknown")
    /\ wire' \in {wire, wire \ {call[c].preview}}
    /\ UNCHANGED <<durableVars, previews, gate, mail, known>>

(* _finish: the record takes the outcome, whatever it says by now.            *)
Finish(c) ==
    /\ call[c].at = "finish"
    /\ ledger' = [ledger EXCEPT ![call[c].key].state = call[c].outcome]
    /\ Return(c)
    /\ UNCHANGED <<recent, approvals, previews, gate, profile, mailVars, gatewayFaults>>

(* The write of the outcome fails; the caller is told, the record stays.      *)
FinishFails(c) ==
    /\ call[c].at = "finish" /\ GatewayFault
    /\ Return(c)
    /\ UNCHANGED <<durableVars, previews, gate, profile, mailVars>>

-----------------------------------------------------------------------------
(* status: the record of a key that is not rejected is looked up.             *)
Status(c, g, k) ==
    /\ call[c] = Free /\ Recorded(k) /\ ledger[k].state # "rejected"
    /\ call' = [call EXCEPT ![c] = [at |-> "observe", gateway |-> g, key |-> k,
                            preview |-> ledger[k].preview, outcome |-> ledger[k].state]]
    /\ UNCHANGED <<durableVars, previews, gate, profile, mailVars, gatewayFaults>>

(* _observe: the dashboard shows a copy with the identities that prove it, or *)
(* it does not, or it does not answer.  An outcome that was open when the     *)
(* record was read is reconciled.                                             *)
Observe(c) ==
    /\ call[c].at = "observe"
    /\ \/ /\ mail[call[c].preview] > 0 /\ call[c].outcome # "accepted"
          /\ Concludes(c, "accepted")
       \/ Return(c)
    /\ UNCHANGED <<durableVars, previews, gate, profile, mailVars, gatewayFaults>>

-----------------------------------------------------------------------------
HourPasses(k) ==
    /\ k \in recent /\ recent' = recent \ {k}
    /\ UNCHANGED <<ledger, approvals, previews, call, gate, profile, mailVars,
                   gatewayFaults>>

(* The recipient is renamed, retired or registered again.                     *)
RecipientChanges ==
    /\ known /\ GatewayFault /\ known' = FALSE
    /\ UNCHANGED <<durableVars, previews, call, gate, profile, wire, mail>>

(* A gateway stops: its calls, its previews and its locks are gone.           *)
GatewayStops(g) ==
    LET gone == {c \in Callers : call[c].gateway = g} IN
    /\ GatewayFault
    /\ call' = [c \in Callers |-> IF c \in gone THEN Free ELSE call[c]]
    /\ previews' = [p \in Previews |-> IF previews[p].at = g THEN Gone
                                       ELSE previews[p]]
    /\ gate' = [gate EXCEPT ![g] = NoCaller]
    /\ profile' = IF profile \in gone THEN NoCaller ELSE profile
    /\ UNCHANGED <<durableVars, mailVars>>

-----------------------------------------------------------------------------
LedgerInit ==
    /\ ledger = [k \in Keys |-> NoRecord] /\ recent = {}
    /\ previews = [p \in Previews |-> Unmade] /\ approvals = {}
    /\ call = [c \in Callers |-> Free] /\ gate = [g \in Gateways |-> NoCaller]
    /\ profile = NoCaller /\ wire = {} /\ mail = [p \in Previews |-> 0]
    /\ known = TRUE /\ gatewayFaults = 0

CallStep(c) ==
    \/ EnterCommit(c) \/ Reserve(c) \/ ConsumePreview(c)
    \/ OpenSession(c) \/ SenderBusy(c) \/ VerifyAndSend(c)
    \/ Refused(c) \/ Receipt(c) \/ NoReceipt(c) \/ Finish(c) \/ FinishFails(c)
    \/ Observe(c)

LedgerNext ==
    \/ \E c \in Callers : CallStep(c)
    \/ \E c \in Callers, g \in Gateways, p \in Previews, k \in Keys : Commit(c, g, p, k)
    \/ \E c \in Callers, g \in Gateways, k \in Keys : Status(c, g, k)
    \/ \E g \in Gateways, p \in Previews : Preview(g, p)
    \/ \E p \in Previews : Expire(p) \/ Approve(p) \/ MailStores(p)
    \/ \E k \in Keys : HourPasses(k)
    \/ RecipientChanges
    \/ \E g \in Gateways : GatewayStops(g)

LedgerSpec == LedgerInit /\ [][LedgerNext]_ledgerVars

-----------------------------------------------------------------------------
LedgerTypeOK ==
    /\ ledger \in [Keys -> [preview : Previews, state : Outcomes] \cup {NoRecord}]
    /\ recent \subseteq Keys /\ approvals \subseteq Previews /\ wire \subseteq Previews
    /\ previews \in [Previews -> [at : Gateways \cup {"unmade", "gone"},
                                 consumed : BOOLEAN]]
    /\ call \in [Callers -> [at : {"free", "lock", "reserve", "consume", "dispatch",
                                   "verify", "sent", "finish", "observe"},
                             gateway : Gateways \cup {"none"},
                             preview : Previews \cup {NoPreview},
                             key : Keys \cup {NoPreview},
                             outcome : Outcomes \cup {"none"}]]
    /\ gate \in [Gateways -> Callers \cup {NoCaller}]
    /\ profile \in Callers \cup {NoCaller}
    /\ mail \in [Previews -> Nat] /\ known \in BOOLEAN
    /\ gatewayFaults \in 0..MaxGatewayFaults

(* A previewed message reaches Mail at most once and under one key only, over *)
(* concurrent commits, other gateways, crashes and lost answers               *)
(* ("No duplicate sends": commit, reserve and the memory-only previews).      *)
Leaving(p) == mail[p] > 0 \/ p \in wire

SentOnce ==
    \A p \in Previews :
        /\ mail[p] + (IF p \in wire THEN 1 ELSE 0) <= 1
        /\ Cardinality({k \in Keys : ledger[k].preview = p}) <= 1

(* What the ledger says of a message is so: "rejected" only when Mail neither *)
(* has it nor can still get it, "accepted" only when Mail has it (_dispatch   *)
(* and a reconciling _observe write the same record).                         *)
OutcomeTruthful ==
    \A k \in Keys :
        /\ ledger[k].state = "rejected" => ~Leaving(ledger[k].preview)
        /\ ledger[k].state = "accepted" => mail[ledger[k].preview] > 0

(* The ledger and what left, seen from outside: a message with a record is    *)
(* still ahead while its call has yet to send it.                             *)
Unsent(c) == call[c].at \in {"consume", "dispatch", "verify"}

Ahead(p) == \/ \A k \in Keys : ledger[k].preview # p
            \/ \E c \in Callers : Unsent(c) /\ call[c].preview = p

Place(p) == IF mail[p] > 1 \/ (mail[p] = 1 /\ p \in wire) THEN "twice"
            ELSE IF mail[p] = 1 THEN "there"
            ELSE IF p \in wire THEN "way"
            ELSE IF Ahead(p) THEN "ahead" ELSE "gone"

Promise == INSTANCE SendContract
           WITH used <- [k \in Keys |-> ledger[k].preview],
                word <- [k \in Keys |-> ledger[k].state],
                place <- [p \in Previews |-> Place(p)]

(* Every step is, seen so, a step of the contract: one key for a message, one *)
(* departure, before any outcome, and outcomes that are true and, where they  *)
(* refuse, final, whatever gateways, late answers and reconciliations write.  *)
ImplementsSendContract == Promise!Spec
=============================================================================
