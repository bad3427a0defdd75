---------------------------- MODULE SendContract ----------------------------
(* What ChatGPT is promised about its messages (messaging.py: "a durable      *)
(* idempotency ledger ... and status reconciliation that never resends"): a   *)
(* key stands for one message and a message for one key; a message leaves     *)
(* once, while nothing is recorded of its outcome; a recorded refusal is true *)
(* and final, a recorded acceptance is true, though a late answer may still   *)
(* put it in doubt.  Previews, approvals, locks, gateways and calls are       *)
(* hidden.                                                                    *)
CONSTANTS Keys, Previews, NoPreview

VARIABLES used,   \* [Keys -> the message a key was used for]
          word,   \* [Keys -> what the ledger says of it]
          place   \* [Previews -> still "ahead", on its "way", "there" or "gone"]

vars == <<used, word, place>>

Init ==
    /\ used = [k \in Keys |-> NoPreview]
    /\ word = [k \in Keys |-> "none"]
    /\ place = [p \in Previews |-> "ahead"]

Reserve(k, p) ==
    /\ used[k] = NoPreview /\ \A l \in Keys : used[l] # p
    /\ used' = [used EXCEPT ![k] = p]
    /\ word' = [word EXCEPT ![k] = "dispatching"]
    /\ UNCHANGED place

Send(k, p) ==
    /\ used[k] = p /\ word[k] = "dispatching" /\ place[p] = "ahead"
    /\ place' = [place EXCEPT ![p] = "way"]
    /\ UNCHANGED <<used, word>>

Arrive(p) ==
    /\ place[p] = "way"
    /\ place' = [place EXCEPT ![p] = "there"]
    /\ UNCHANGED <<used, word>>

(* Refused, lost, or never sent because its call has ended.                   *)
GiveUp(S) ==
    /\ \A p \in S : place[p] \in {"ahead", "way"} /\ \E k \in Keys : used[k] = p
    /\ place' = [p \in Previews |-> IF p \in S THEN "gone" ELSE place[p]]
    /\ UNCHANGED <<used, word>>

Say(k, w) == word' = [word EXCEPT ![k] = w] /\ UNCHANGED <<used, place>>

Accept(k, p) ==
    used[k] = p /\ place[p] = "there" /\ Say(k, "accepted")
Reject(k, p) ==
    used[k] = p /\ word[k] = "dispatching" /\ place[p] = "gone" /\ Say(k, "rejected")
Doubt(k, p) ==
    /\ used[k] = p /\ word[k] \in {"dispatching", "accepted"} /\ place[p] # "ahead"
    /\ Say(k, "unknown")

Next ==
    \/ \E S \in SUBSET Previews : GiveUp(S)
    \/ \E k \in Keys, p \in Previews :
          Reserve(k, p) \/ Send(k, p) \/ Accept(k, p) \/ Reject(k, p) \/ Doubt(k, p)
    \/ \E p \in Previews : Arrive(p)

Spec == Init /\ [][Next]_vars
=============================================================================
