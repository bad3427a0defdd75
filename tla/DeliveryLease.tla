---------------------------- MODULE DeliveryLease ----------------------------
(***************************************************************************)
(* The SQLite delivery rows of the Codex App bridge, one per message of an *)
(* agent, and what each method of DeliveryManager does to the rows of one  *)
(* agent (integrations/codex_app/src/agentstack_codex_app/delivery.py).    *)
(*                                                                         *)
(* Every method is one SQLite transaction, so it is an operator from the   *)
(* rows before it to the rows after it.  A stored timestamp is kept as the *)
(* time it still has to run (a lease, a backoff) or as the time gone by    *)
(* since (the age of a row), in units of a second and saturating where the *)
(* code can no longer tell the difference: the state space stays finite    *)
(* while time runs on for ever.  Error texts are left out.                 *)
(***************************************************************************)
EXTENDS Integers

CONSTANTS
    Message,          \* message ids
    Owner,            \* lease owners: the fresh uuid of a wake
    NoOwner,          \* NULL lease_owner
    CoalesceSeconds,  \* WakePolicy.coalesce_seconds
    LeaseSeconds,     \* WakePolicy.lease_seconds
    BaseBackoff,      \* WakePolicy.base_backoff_seconds
    MaxBackoff,       \* WakePolicy.max_backoff_seconds
    MaxAttempts       \* WakePolicy.max_attempts

ASSUME OwnerAssumption == NoOwner \notin Owner
ASSUME PolicyAssumption ==
    /\ CoalesceSeconds \in Nat
    /\ LeaseSeconds \in Nat \ {0}
    /\ BaseBackoff \in Nat
    /\ MaxBackoff \in Nat
    /\ MaxAttempts \in Nat \ {0}

Status == {"absent", "pending", "leased", "delivered", "failed", "dead_letter"}

Row == [status   : Status,
        owner    : Owner \cup {NoOwner},
        lease    : 0..LeaseSeconds,      \* until lease_expires_at
        attempts : Nat,                  \* attempt_count
        wait     : 0..MaxBackoff,        \* until a failed row is due again
        age      : 0..CoalesceSeconds]   \* since created_at

Rows == [Message -> Row]

NoRow == [status |-> "absent", owner |-> NoOwner, lease |-> 0, attempts |-> 0,
          wait |-> 0, age |-> 0]

\* The CHECK constraint of the table: a lease is set exactly on leased rows.
LeaseShape(row) ==
    /\ row.status = "leased" <=> row.owner # NoOwner
    /\ row.status # "leased" => row.lease = 0

-----------------------------------------------------------------------------
(* Slips the methods below could have: only the mutation runs use them.     *)

ObserveReopens(r, ids) ==            \* INSERT OR REPLACE
    [m \in Message |->
        IF m \in ids /\ r[m].status \in {"absent", "delivered"}
        THEN [NoRow EXCEPT !.status = "pending"]
        ELSE r[m]]

ReconcileEvenPresent(r, present) ==  \* the signals are not looked at
    [m \in Message |->
        IF r[m].status \in {"pending", "failed"}
        THEN [r[m] EXCEPT !.status = "delivered", !.wait = 0]
        ELSE r[m]]

ReconcileLeased(r, present) ==       \* leased rows are selected too
    [m \in Message |->
        IF m \notin present /\ r[m].status \in {"pending", "failed", "leased"}
        THEN [NoRow EXCEPT !.status = "delivered", !.attempts = r[m].attempts]
        ELSE r[m]]

RecoverUnexpired(r) ==               \* lease_expires_at is not compared
    [m \in Message |->
        IF \/ r[m].status = "leased"
           \/ r[m].status = "failed" /\ r[m].wait = 0
        THEN [r[m] EXCEPT !.status = "pending", !.owner = NoOwner, !.lease = 0]
        ELSE r[m]]

RecoverLeasesOnly(r) ==              \* failed rows are not retried
    [m \in Message |->
        IF r[m].status = "leased" /\ r[m].lease = 0
        THEN [r[m] EXCEPT !.status = "pending", !.owner = NoOwner]
        ELSE r[m]]

MarkFailedNeverDead(r, ids, o, terminal) ==   \* max_attempts is not compared
    [m \in Message |->
        IF m \in ids /\ r[m].status = "leased" /\ r[m].owner = o
        THEN [r[m] EXCEPT !.status = IF terminal THEN "dead_letter"
                                                 ELSE "failed",
                          !.owner = NoOwner, !.lease = 0]
        ELSE r[m]]

-----------------------------------------------------------------------------
\* observe: INSERT OR IGNORE, a row that exists is left as it is.
Observe(r, ids) ==
    [m \in Message |->
        IF m \in ids /\ r[m].status = "absent"
        THEN [NoRow EXCEPT !.status = "pending"]
        ELSE r[m]]

\* reconcile_absent: a row whose signal is gone passes, inside one
\* transaction, through pending and a 'signal-consumed' lease to delivered.
\* Leased rows are not selected.
ReconcileAbsent(r, present) ==
    [m \in Message |->
        IF m \notin present /\ r[m].status \in {"pending", "failed"}
        THEN [r[m] EXCEPT !.status = "delivered", !.wait = 0]
        ELSE r[m]]

\* The two updates ready_ids makes before it selects: leases that ran out and
\* failed rows whose backoff is over are pending again, their attempts kept.
Recover(r) ==
    [m \in Message |->
        IF \/ r[m].status = "leased" /\ r[m].lease = 0
           \/ r[m].status = "failed" /\ r[m].wait = 0
        THEN [r[m] EXCEPT !.status = "pending", !.owner = NoOwner]
        ELSE r[m]]

\* The batch ready_ids returns: every pending row with a signal, once the
\* oldest of them is CoalesceSeconds old.
Ready(r, present) ==
    LET waiting == {m \in present : r[m].status = "pending"}
    IN  {m \in waiting : \E old \in waiting : r[old].age >= CoalesceSeconds}

\* acquire: lease the rows of ids that are still pending; the attempt counts.
Acquirable(r, ids) == {m \in ids : r[m].status = "pending"}

Acquire(r, ids, o) ==
    [m \in Message |->
        IF m \in Acquirable(r, ids)
        THEN [r[m] EXCEPT !.status = "leased", !.owner = o,
                          !.lease = LeaseSeconds, !.attempts = @ + 1]
        ELSE r[m]]

\* mark_delivered: only the rows still leased to o.
MarkDelivered(r, ids, o) ==
    [m \in Message |->
        IF m \in ids /\ r[m].status = "leased" /\ r[m].owner = o
        THEN [r[m] EXCEPT !.status = "delivered", !.owner = NoOwner, !.lease = 0]
        ELSE r[m]]

\* The delay ready_ids computes from attempt_count: doubling, and capped.
Backoff(attempts) ==
    LET delay == BaseBackoff * 2 ^ (IF attempts > 1 THEN attempts - 1 ELSE 0)
    IN  IF delay \in 0..MaxBackoff THEN delay ELSE MaxBackoff

\* mark_failed: only the rows still leased to o; exhausted or terminal
\* failures go to dead_letter.
MarkFailed(r, ids, o, terminal) ==
    [m \in Message |->
        IF m \in ids /\ r[m].status = "leased" /\ r[m].owner = o
        THEN IF terminal \/ r[m].attempts >= MaxAttempts
             THEN [r[m] EXCEPT !.status = "dead_letter", !.owner = NoOwner,
                               !.lease = 0]
             ELSE [r[m] EXCEPT !.status = "failed", !.owner = NoOwner,
                               !.lease = 0, !.wait = Backoff(r[m].attempts)]
        ELSE r[m]]

\* requeue: the operator deletes the row and inserts it afresh, keeping
\* created_at.
CanRequeue(r, m) == r[m].status \in {"failed", "dead_letter"}

Requeue(r, m) ==
    [r EXCEPT ![m] = [NoRow EXCEPT !.status = "pending", !.age = r[m].age]]

\* One second goes by.
Elapse(r) ==
    [m \in Message |->
        [r[m] EXCEPT !.lease = IF @ > 0 THEN @ - 1 ELSE 0,
                     !.wait  = IF @ > 0 THEN @ - 1 ELSE 0,
                     !.age   = IF @ < CoalesceSeconds /\ r[m].status # "absent"
                               THEN @ + 1 ELSE @]]

\* status().pending_count > 0, and the counts the wake status depends on.
Open(r, m) == r[m].status \in {"pending", "leased", "failed"}
AnyOpen(r) == \E m \in Message : Open(r, m)
AnyFailed(r) == \E m \in Message : r[m].status = "failed"
AnyDead(r) == \E m \in Message : r[m].status = "dead_letter"
=============================================================================
