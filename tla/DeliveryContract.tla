-------------------------- MODULE DeliveryContract --------------------------
(***************************************************************************)
(* What the delivery table promises, whatever the bridge does with it: the *)
(* legal transitions of the trigger codex_app_delivery_status_transition   *)
(* and who may make them (schemas/migrations/001_delivery_state.sql).  A   *)
(* claim is settled by its holder or lapses; delivered rows are final;     *)
(* dead letters come back only when an operator resets them.  Time,        *)
(* attempts, signals, processes and the wake loop are all hidden.          *)
(***************************************************************************)
CONSTANTS Binding, Message, Owner, NoOwner

VARIABLES status,   \* [Binding -> [Message -> status of the row]]
          holder    \* [Binding -> [Message -> owner of its lease]]

vars == <<status, holder>>

Init ==
    /\ status = [b \in Binding |-> [m \in Message |-> "absent"]]
    /\ holder = [b \in Binding |-> [m \in Message |-> NoOwner]]

\* Rows ids of b leave one of the statuses `from` for `to`, released by their
\* holder or by nobody: the rest of the table stays.
Move(b, ids, from, to, o) ==
    /\ \A m \in ids : status[b][m] \in from
    /\ status' = [status EXCEPT ![b] =
                    [m \in Message |-> IF m \in ids THEN to ELSE @[m]]]
    /\ holder' = [holder EXCEPT ![b] =
                    [m \in Message |-> IF m \in ids THEN o ELSE @[m]]]

\* One poll inserts the new rows and consumes those whose signal is gone.
Sync(b, new, gone) ==
    /\ \A m \in new : status[b][m] = "absent"
    /\ \A m \in gone : status[b][m] \in {"pending", "failed"}
    /\ status' = [status EXCEPT ![b] =
                    [m \in Message |-> IF m \in new THEN "pending"
                                       ELSE IF m \in gone THEN "delivered"
                                       ELSE @[m]]]
    /\ UNCHANGED holder

Claim(b, ids, o) == Move(b, ids, {"pending"}, "leased", o)

\* A lease that lapsed or a failure whose backoff is over.
Reopen(b, ids) == Move(b, ids, {"leased", "failed"}, "pending", NoOwner)

\* Only the holder reports how the claim went.
Deliver(b, ids, o) ==
    /\ \A m \in ids : holder[b][m] = o
    /\ Move(b, ids, {"leased"}, "delivered", NoOwner)

Fail(b, ids, dead, o) ==
    /\ \A m \in ids : status[b][m] = "leased" /\ holder[b][m] = o
    /\ status' = [status EXCEPT ![b] =
                    [m \in Message |-> IF m \in ids
                                       THEN IF m \in dead THEN "dead_letter"
                                                          ELSE "failed"
                                       ELSE @[m]]]
    /\ holder' = [holder EXCEPT ![b] =
                    [m \in Message |-> IF m \in ids THEN NoOwner ELSE @[m]]]

Reset(b, m) == Move(b, {m}, {"failed", "dead_letter"}, "pending", NoOwner)

Next ==
    \E b \in Binding :
        \/ \E new, gone \in SUBSET Message : Sync(b, new, gone)
        \/ \E ids \in SUBSET Message : Reopen(b, ids)
        \/ \E ids \in SUBSET Message, o \in Owner :
              \/ Claim(b, ids, o)
              \/ Deliver(b, ids, o)
              \/ \E dead \in SUBSET ids : Fail(b, ids, dead, o)
        \/ \E m \in Message : Reset(b, m)

Spec == Init /\ [][Next]_vars
=============================================================================
