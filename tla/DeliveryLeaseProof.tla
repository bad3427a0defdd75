------------------------- MODULE DeliveryLeaseProof -------------------------
(***************************************************************************)
(* Lemmas about DeliveryLease: every method of the delivery manager keeps  *)
(* rows well-typed and within the CHECK constraint of their table, and     *)
(* those that settle or recover rows leave the leases of others alone.     *)
(***************************************************************************)
EXTENDS DeliveryLease, TLAPS

\* A row of the right type that satisfies the table's CHECK constraint.
GoodRow(x) == x \in Row /\ LeaseShape(x)

GoodRows(r) == r \in Rows /\ \A m \in Message : LeaseShape(r[m])

\* Good rows are rows that are good.
LEMMA GoodRowsDef ==
    ASSUME NEW r, GoodRows(r), NEW m \in Message
    PROVE  GoodRow(r[m])
BY DEF GoodRows, GoodRow, Rows

\* Updating one column with a value of its type keeps the type of the row.
LEMMA RowUpdate ==
    ASSUME NEW x \in Row
    PROVE  /\ \A s \in Status : [x EXCEPT !.status = s] \in Row
           /\ \A o \in Owner \cup {NoOwner} : [x EXCEPT !.owner = o] \in Row
           /\ \A n \in 0..LeaseSeconds : [x EXCEPT !.lease = n] \in Row
           /\ \A n \in Nat : [x EXCEPT !.attempts = n] \in Row
           /\ \A n \in 0..MaxBackoff : [x EXCEPT !.wait = n] \in Row
           /\ \A n \in 0..CoalesceSeconds : [x EXCEPT !.age = n] \in Row
BY DEF Row

\* The values the methods write belong to their columns.
LEMMA RowValues ==
    /\ Status = {"absent", "pending", "leased", "delivered", "failed",
                 "dead_letter"}
    /\ 0 \in 0..LeaseSeconds /\ 0 \in 0..MaxBackoff /\ 0 \in 0..CoalesceSeconds
    /\ LeaseSeconds \in 0..LeaseSeconds
BY PolicyAssumption DEF Status

\* The row INSERT makes is good.
LEMMA NoRowGood ==
    /\ GoodRow(NoRow)
    /\ GoodRow([NoRow EXCEPT !.status = "pending"])
<1>1. NoRow \in Row /\ LeaseShape(NoRow)
  BY OwnerAssumption, PolicyAssumption DEF NoRow, Row, Status, LeaseShape
<1>2. [NoRow EXCEPT !.status = "pending"] \in Row
  BY <1>1, RowUpdate, RowValues
<1>3. LeaseShape([NoRow EXCEPT !.status = "pending"])
  BY DEF NoRow, LeaseShape
<1>4. QED
  BY <1>1, <1>2, <1>3 DEF GoodRow

\* A row that gives its lease up is good again.
LEMMA ReleasedGood ==
    ASSUME NEW x \in Row, NEW s \in Status \ {"leased"}
    PROVE  GoodRow([x EXCEPT !.status = s, !.owner = NoOwner, !.lease = 0])
<1>1. [x EXCEPT !.status = s, !.owner = NoOwner, !.lease = 0] \in Row
  BY RowUpdate, RowValues, Zenon
<1>2. LeaseShape([x EXCEPT !.status = s, !.owner = NoOwner, !.lease = 0])
  BY DEF LeaseShape, Row
<1>3. QED
  BY <1>1, <1>2 DEF GoodRow

-----------------------------------------------------------------------------
\* observe (INSERT OR IGNORE) adds well-formed rows only.
LEMMA ObserveGood ==
    ASSUME NEW r, GoodRows(r), NEW ids
    PROVE  GoodRows(Observe(r, ids))
BY NoRowGood DEF GoodRows, GoodRow, Rows, Observe

\* reconcile_absent leaves well-formed rows.
LEMMA ReconcileGood ==
    ASSUME NEW r, GoodRows(r), NEW present
    PROVE  GoodRows(ReconcileAbsent(r, present))
<1>1. ASSUME NEW x, GoodRow(x), x.status \in {"pending", "failed"}
      PROVE  GoodRow([x EXCEPT !.status = "delivered", !.wait = 0])
  <2>1. [x EXCEPT !.status = "delivered", !.wait = 0] \in Row
    BY <1>1, RowUpdate, RowValues, Zenon DEF GoodRow
  <2>2. LeaseShape([x EXCEPT !.status = "delivered", !.wait = 0])
    BY <1>1 DEF GoodRow, LeaseShape, Row
  <2>3. QED
    BY <2>1, <2>2 DEF GoodRow
<1>2. ASSUME NEW m \in Message
      PROVE  GoodRow(ReconcileAbsent(r, present)[m])
  BY <1>1, <1>2, GoodRowsDef DEF ReconcileAbsent
<1>3. QED
  BY <1>2 DEF GoodRow, GoodRows, Rows, ReconcileAbsent

\* The recovery of ready_ids leaves well-formed rows.
LEMMA RecoverGood ==
    ASSUME NEW r, GoodRows(r)
    PROVE  GoodRows(Recover(r))
<1>1. ASSUME NEW x, GoodRow(x),
             \/ x.status = "leased" /\ x.lease = 0
             \/ x.status = "failed" /\ x.wait = 0
      PROVE  GoodRow([x EXCEPT !.status = "pending", !.owner = NoOwner])
  <2>1. [x EXCEPT !.status = "pending", !.owner = NoOwner] \in Row
    BY <1>1, RowUpdate, RowValues, Zenon DEF GoodRow
  <2>2. LeaseShape([x EXCEPT !.status = "pending", !.owner = NoOwner])
    BY <1>1 DEF GoodRow, LeaseShape, Row
  <2>3. QED
    BY <2>1, <2>2 DEF GoodRow
<1>2. ASSUME NEW m \in Message
      PROVE  GoodRow(Recover(r)[m])
  BY <1>1, <1>2, GoodRowsDef DEF Recover
<1>3. QED
  BY <1>2 DEF GoodRow, GoodRows, Rows, Recover

\* acquire sets owner and expiry together.
LEMMA AcquireGood ==
    ASSUME NEW r, GoodRows(r), NEW ids, NEW o \in Owner
    PROVE  GoodRows(Acquire(r, ids, o))
<1>1. ASSUME NEW x \in Row
      PROVE  GoodRow([x EXCEPT !.status = "leased", !.owner = o,
                               !.lease = LeaseSeconds, !.attempts = @ + 1])
  <2> DEFINE y == [x EXCEPT !.status = "leased", !.owner = o,
                            !.lease = LeaseSeconds]
  <2>1. y \in Row
    BY <1>1, RowUpdate, RowValues, Zenon
  <2>2. LeaseShape([y EXCEPT !.attempts = @ + 1])
    BY <1>1, OwnerAssumption DEF LeaseShape, Row
  <2> HIDE DEF y
  <2>3. y.attempts + 1 \in Nat
    BY <2>1 DEF Row
  <2>4. [y EXCEPT !.attempts = @ + 1] \in Row
    BY <2>1, <2>3, RowUpdate
  <2>5. QED
    BY <2>2, <2>4 DEF y, GoodRow
<1>2. ASSUME NEW m \in Message
      PROVE  GoodRow(Acquire(r, ids, o)[m])
  BY <1>1, <1>2, GoodRowsDef DEF Acquire, GoodRow
<1>3. QED
  BY <1>2 DEF GoodRow, GoodRows, Rows, Acquire

\* mark_delivered gives owner and expiry up together.
LEMMA MarkDeliveredGood ==
    ASSUME NEW r, GoodRows(r), NEW ids, NEW o
    PROVE  GoodRows(MarkDelivered(r, ids, o))
<1>1. ASSUME NEW m \in Message
      PROVE  GoodRow(MarkDelivered(r, ids, o)[m])
  BY <1>1, ReleasedGood, RowValues, GoodRowsDef DEF MarkDelivered, GoodRow
<1>2. QED
  BY <1>1 DEF GoodRow, GoodRows, Rows, MarkDelivered

\* The backoff never exceeds its cap, however many attempts there were.
LEMMA BackoffBound == ASSUME NEW n PROVE Backoff(n) \in 0..MaxBackoff
BY PolicyAssumption DEF Backoff

\* mark_failed gives owner and expiry up together.
LEMMA MarkFailedGood ==
    ASSUME NEW r, GoodRows(r), NEW ids, NEW o, NEW terminal
    PROVE  GoodRows(MarkFailed(r, ids, o, terminal))
<1>1. ASSUME NEW x \in Row
      PROVE  GoodRow([x EXCEPT !.status = "failed", !.owner = NoOwner,
                               !.lease = 0, !.wait = Backoff(x.attempts)])
  <2>1. [x EXCEPT !.status = "failed", !.owner = NoOwner, !.lease = 0,
                  !.wait = Backoff(x.attempts)] \in Row
    BY <1>1, BackoffBound, RowUpdate, RowValues, Zenon
  <2>2. LeaseShape([x EXCEPT !.status = "failed", !.owner = NoOwner,
                             !.lease = 0, !.wait = Backoff(x.attempts)])
    BY <1>1 DEF LeaseShape, Row
  <2>3. QED
    BY <2>1, <2>2 DEF GoodRow
<1>2. ASSUME NEW m \in Message
      PROVE  GoodRow(MarkFailed(r, ids, o, terminal)[m])
  BY <1>1, <1>2, ReleasedGood, RowValues, GoodRowsDef DEF MarkFailed, GoodRow
<1>3. QED
  BY <1>2 DEF GoodRow, GoodRows, Rows, MarkFailed

\* A requeued row starts afresh.
LEMMA RequeueGood ==
    ASSUME NEW r, GoodRows(r), NEW m \in Message
    PROVE  GoodRows(Requeue(r, m))
<1>1. r[m].age \in 0..CoalesceSeconds
  BY DEF GoodRows, Rows, Row
<1>2. [NoRow EXCEPT !.status = "pending", !.age = r[m].age] \in Row
  BY <1>1, NoRowGood, RowUpdate DEF GoodRow
<1>3. LeaseShape([NoRow EXCEPT !.status = "pending", !.age = r[m].age])
  BY DEF LeaseShape, NoRow
<1>4. QED
  BY <1>2, <1>3 DEF GoodRows, Rows, Requeue

\* Time only runs the timers of the rows down.
LEMMA ElapseGood ==
    ASSUME NEW r, GoodRows(r)
    PROVE  GoodRows(Elapse(r))
<1>1. ASSUME NEW x, GoodRow(x),
             NEW l \in 0..LeaseSeconds, l = 0 \/ x.lease # 0,
             NEW w \in 0..MaxBackoff, NEW a \in 0..CoalesceSeconds
      PROVE  GoodRow([x EXCEPT !.lease = l, !.wait = w, !.age = a])
  <2>1. [x EXCEPT !.lease = l, !.wait = w, !.age = a] \in Row
    BY <1>1, RowUpdate, Zenon DEF GoodRow
  <2>2. LeaseShape([x EXCEPT !.lease = l, !.wait = w, !.age = a])
    BY <1>1 DEF GoodRow, LeaseShape, Row
  <2>3. QED
    BY <2>1, <2>2 DEF GoodRow
<1>2. ASSUME NEW m \in Message
      PROVE  GoodRow(Elapse(r)[m])
  <2> DEFINE x == r[m]
             l == IF x.lease > 0 THEN x.lease - 1 ELSE 0
             w == IF x.wait > 0 THEN x.wait - 1 ELSE 0
             a == IF x.age < CoalesceSeconds /\ x.status # "absent"
                  THEN x.age + 1 ELSE x.age
  <2>1. Elapse(r)[m] = [x EXCEPT !.lease = l, !.wait = w, !.age = a]
    BY <1>2 DEF Elapse
  <2>2. GoodRow(x)
    BY <1>2, GoodRowsDef
  <2> HIDE DEF x
  <2>3. /\ l \in 0..LeaseSeconds /\ (l = 0 \/ x.lease # 0)
        /\ w \in 0..MaxBackoff /\ a \in 0..CoalesceSeconds
    BY <2>2, PolicyAssumption DEF GoodRow, Row
  <2> HIDE DEF l, w, a
  <2>4. GoodRow([x EXCEPT !.lease = l, !.wait = w, !.age = a])
    BY <1>1, <2>2, <2>3, Zenon
  <2>5. QED
    BY <2>1, <2>4, Zenon
<1>3. QED
  BY <1>2 DEF GoodRow, GoodRows, Rows, Elapse

-----------------------------------------------------------------------------
(* What the methods do to the status and the owner of one row.              *)

Same(x, y) == x.status = y.status /\ x.owner = y.owner
Becomes(y, s, o) == y.status = s /\ y.owner = o

\* observe and reconcile_absent, one after the other.
LEMMA ScanRow ==
    ASSUME NEW r, GoodRows(r), NEW seen, NEW m \in Message
    PROVE  LET y == ReconcileAbsent(Observe(r, seen), seen)[m]
           IN  /\ m \in seen /\ r[m].status = "absent" =>
                     Becomes(y, "pending", r[m].owner)
               /\ m \notin seen /\ r[m].status \in {"pending", "failed"} =>
                     Becomes(y, "delivered", r[m].owner)
               /\ ~(m \in seen /\ r[m].status = "absent")
                  /\ ~(m \notin seen /\ r[m].status \in {"pending", "failed"}) =>
                     Same(y, r[m])
<1>1. r[m] \in Row /\ LeaseShape(r[m])
  BY DEF GoodRows, Rows
<1>2. CASE m \in seen /\ r[m].status = "absent"
  BY <1>1, <1>2 DEF ReconcileAbsent, Observe, Becomes, NoRow, LeaseShape
<1>3. CASE m \in seen /\ r[m].status # "absent"
  BY <1>3 DEF ReconcileAbsent, Observe, Same
<1>4. CASE m \notin seen
  BY <1>1, <1>4 DEF ReconcileAbsent, Observe, Same, Becomes, Row
<1>5. QED
  BY <1>2, <1>3, <1>4

\* The recovery of ready_ids.
LEMMA RecoverRow ==
    ASSUME NEW r, GoodRows(r), NEW m \in Message
    PROVE  \/ r[m].status \in {"leased", "failed"} /\
              Becomes(Recover(r)[m], "pending", NoOwner)
           \/ Same(Recover(r)[m], r[m])
BY DEF Recover, Same, Becomes, GoodRows, Rows, Row

\* acquire.
LEMMA AcquireRow ==
    ASSUME NEW r, GoodRows(r), NEW ids, NEW o, NEW m \in Message
    PROVE  IF m \in Acquirable(r, ids)
           THEN Becomes(Acquire(r, ids, o)[m], "leased", o)
           ELSE Same(Acquire(r, ids, o)[m], r[m])
<1>1. r[m] \in Row
  BY DEF GoodRows, Rows
<1>2. CASE m \in Acquirable(r, ids)
  BY <1>1, <1>2 DEF Acquire, Becomes, Row
<1>3. CASE m \notin Acquirable(r, ids)
  BY <1>3 DEF Acquire, Same
<1>4. QED
  BY <1>2, <1>3

\* The rows of ids that o holds.
HeldRows(r, ids, o) ==
    {m \in Message : m \in ids /\ r[m].status = "leased" /\ r[m].owner = o}

\* mark_delivered.
LEMMA MarkDeliveredRow ==
    ASSUME NEW r, GoodRows(r), NEW ids, NEW o, NEW m \in Message
    PROVE  IF m \in HeldRows(r, ids, o)
           THEN Becomes(MarkDelivered(r, ids, o)[m], "delivered", NoOwner)
           ELSE Same(MarkDelivered(r, ids, o)[m], r[m])
BY DEF MarkDelivered, HeldRows, Same, Becomes, GoodRows, Rows, Row

\* mark_failed.
LEMMA MarkFailedRow ==
    ASSUME NEW r, GoodRows(r), NEW ids, NEW o, NEW t, NEW m \in Message
    PROVE  IF m \in HeldRows(r, ids, o)
           THEN \/ Becomes(MarkFailed(r, ids, o, t)[m], "dead_letter", NoOwner)
                \/ Becomes(MarkFailed(r, ids, o, t)[m], "failed", NoOwner)
           ELSE Same(MarkFailed(r, ids, o, t)[m], r[m])
<1>1. r[m] \in Row
  BY DEF GoodRows, Rows
<1>2. CASE m \in HeldRows(r, ids, o)
  BY <1>1, <1>2 DEF MarkFailed, HeldRows, Becomes, Row
<1>3. CASE m \notin HeldRows(r, ids, o)
  BY <1>3 DEF MarkFailed, HeldRows, Same
<1>4. QED
  BY <1>2, <1>3

\* requeue.
LEMMA RequeueRow ==
    ASSUME NEW r, GoodRows(r), NEW n \in Message, NEW m \in Message
    PROVE  IF m = n THEN Becomes(Requeue(r, n)[m], "pending", NoOwner)
           ELSE Same(Requeue(r, n)[m], r[m])
BY DEF Requeue, NoRow, Same, Becomes, GoodRows, Rows

\* The clock.
LEMMA ElapseRow ==
    ASSUME NEW r, GoodRows(r), NEW m \in Message
    PROVE  Same(Elapse(r)[m], r[m])
BY DEF Elapse, Same, GoodRows, Rows, Row

-----------------------------------------------------------------------------
(* The methods and the attempts of a row.                                   *)

\* Only acquire counts an attempt, and only observe and requeue start anew.
LEMMA AttemptsKept ==
    ASSUME NEW r, GoodRows(r), NEW m \in Message
    PROVE  /\ \A seen : LET y == ReconcileAbsent(Observe(r, seen), seen)[m]
                        IN  y.attempts = r[m].attempts \/ y.attempts = 0
           /\ Recover(r)[m].attempts = r[m].attempts
           /\ \A ids, o : MarkDelivered(r, ids, o)[m].attempts = r[m].attempts
           /\ \A ids, o, t : MarkFailed(r, ids, o, t)[m].attempts = r[m].attempts
           /\ \A n \in Message : Requeue(r, n)[m].attempts =
                                   IF n = m THEN 0 ELSE r[m].attempts
           /\ Elapse(r)[m].attempts = r[m].attempts
<1>1. r[m] \in Row /\ r \in Rows
  BY DEF GoodRows, Rows
<1>2. ASSUME NEW seen, NEW y, y = ReconcileAbsent(Observe(r, seen), seen)[m]
      PROVE  y.attempts = r[m].attempts \/ y.attempts = 0
  <2>1. ASSUME NEW x, x = Observe(r, seen)[m]
        PROVE  /\ x.attempts = r[m].attempts \/ x.attempts = 0
               /\ [x EXCEPT !.status = "delivered", !.wait = 0].attempts = x.attempts
    BY <1>1, <2>1, NoRowGood DEF Observe, NoRow, Row, GoodRow
  <2>2. \/ y = Observe(r, seen)[m]
        \/ y = [Observe(r, seen)[m] EXCEPT !.status = "delivered", !.wait = 0]
    BY <1>2 DEF ReconcileAbsent
  <2>3. QED
    BY <2>1, <2>2
<1>3. Recover(r)[m].attempts = r[m].attempts
  BY <1>1 DEF Recover, Row
<1>4. \A ids, o : MarkDelivered(r, ids, o)[m].attempts = r[m].attempts
  BY <1>1 DEF MarkDelivered, Row
<1>5. \A ids, o, t : MarkFailed(r, ids, o, t)[m].attempts = r[m].attempts
  BY <1>1 DEF MarkFailed, Row
<1>6. \A n \in Message : Requeue(r, n)[m].attempts =
                           IF n = m THEN 0 ELSE r[m].attempts
  BY <1>1 DEF Requeue, Rows, NoRow
<1>7. Elapse(r)[m].attempts = r[m].attempts
  BY <1>1 DEF Elapse, Row
<1>8. QED
  BY <1>2, <1>3, <1>4, <1>5, <1>6, <1>7

\* observe begins with no attempt made.
LEMMA ObservedUntried ==
    ASSUME NEW r, GoodRows(r), NEW seen, NEW m \in Message,
           r[m].status = "absent", m \in seen
    PROVE  ReconcileAbsent(Observe(r, seen), seen)[m].attempts = 0
BY DEF ReconcileAbsent, Observe, NoRow

\* A failure that leaves a row to be tried again leaves it an attempt.
LEMMA FailedHasAttempts ==
    ASSUME NEW r, GoodRows(r), NEW ids, NEW o, NEW t,
           NEW m \in HeldRows(r, ids, o),
           MarkFailed(r, ids, o, t)[m].status # "dead_letter"
    PROVE  r[m].attempts < MaxAttempts
<1>1. r[m] \in Row /\ r[m].attempts \in Nat /\ MaxAttempts \in Nat
  BY PolicyAssumption DEF GoodRows, Rows, Row, HeldRows
<1>2. CASE t \/ r[m].attempts >= MaxAttempts
  BY <1>1, <1>2 DEF MarkFailed, HeldRows, Row
<1>3. CASE ~(r[m].attempts >= MaxAttempts)
  BY <1>1, <1>3
<1>4. QED
  BY <1>2, <1>3

\* acquire counts the attempts of the rows it leases, one each.
LEMMA AcquiredAttempts ==
    ASSUME NEW r, GoodRows(r), NEW ids, NEW o, NEW m \in Message
    PROVE  Acquire(r, ids, o)[m].attempts =
             IF m \in Acquirable(r, ids) THEN r[m].attempts + 1
                                         ELSE r[m].attempts
BY DEF Acquire, GoodRows, Rows, Row
=============================================================================
