--------------------------- MODULE ColdWakeProof ---------------------------
(***************************************************************************)
(* Proofs about ColdWake for every value of its constants: the types, the  *)
(* ownership of leased rows while their wake is in flight, and what rests  *)
(* on it: what is delivered was taken, what the dashboard shows, the bound *)
(* of the wakes and of the attempts, that no second process is given a     *)
(* message before the lease of the first is over, and that the cold wake   *)
(* implements the delivery contract.                                       *)
(***************************************************************************)
EXTENDS ColdWake, DeliveryLeaseProof, FiniteSetTheorems

-----------------------------------------------------------------------------
(* TypeOK, part by part: an action disturbs few of the parts.              *)

RowsOK == rows \in [Binding -> Rows] /\ \A b \in Binding : GoodRows(rows[b])
MailOK == /\ signals \in [Binding -> SUBSET Message]
          /\ emitted \in [Binding -> SUBSET Message]
          /\ consumed \in [Binding -> SUBSET Message]
SnapOK == snap \in [Binding -> [state : SessionState, wake : WakeStatus]]
ProcsOK == procs \in [Binding -> [Owner -> Proc]]
InflightOK == inflight \in [Binding -> Attempt]
HistOK == hist \in [Binding -> Seq(Nat)]
WorkerOK == /\ stage \in [Binding -> Stage]
            /\ batch \in [Binding -> SUBSET Message]
            /\ claim \in [Binding -> Owner \cup {NoOwner}]
            /\ verdict \in [Binding -> Outcome \cup {"none", "timeout"}]
EventsOK == queue \in Seq(Event) /\ spool \in Seq(Event) /\ retry \in SUBSET Event
RestOK == /\ daemon \in {"up", "loading", "down"}
          /\ turn \in [Binding -> BOOLEAN]
          /\ kind \in [Binding -> Kind]
          /\ used \in [crashes : Nat, turns : Nat, refusals : Nat, requeues : Nat]
          /\ served \in [Binding -> SUBSET Message]

Parts == /\ RowsOK /\ MailOK /\ SnapOK /\ ProcsOK /\ InflightOK /\ HistOK
         /\ WorkerOK /\ EventsOK /\ RestOK

\* The parts are TypeOK.
LEMMA PartsOfTypeOK == TypeOK <=> Parts
BY DEF TypeOK, Parts, RowsOK, MailOK, SnapOK, ProcsOK, InflightOK, HistOK,
       WorkerOK, EventsOK, RestOK, GoodRows

\* A part whose variables an action leaves alone stays well-typed.
LEMMA Kept ==
    /\ RowsOK /\ UNCHANGED rows => RowsOK'
    /\ MailOK /\ UNCHANGED <<signals, emitted, consumed>> => MailOK'
    /\ SnapOK /\ UNCHANGED snap => SnapOK'
    /\ ProcsOK /\ UNCHANGED procs => ProcsOK'
    /\ InflightOK /\ UNCHANGED inflight => InflightOK'
    /\ HistOK /\ UNCHANGED hist => HistOK'
    /\ WorkerOK /\ UNCHANGED <<stage, batch, claim, verdict>> => WorkerOK'
    /\ EventsOK /\ UNCHANGED <<queue, spool, retry>> => EventsOK'
    /\ RestOK /\ UNCHANGED <<daemon, turn, kind, used, served>> => RestOK'
BY DEF RowsOK, MailOK, SnapOK, ProcsOK, InflightOK, HistOK, WorkerOK,
       EventsOK, RestOK

\* Trimming a wake history leaves a history that is no longer.
LEMMA TrimmedShorter ==
    ASSUME NEW h \in Seq(Nat)
    PROVE  Trimmed(h) \in Seq(Nat) /\ Len(Trimmed(h)) <= Len(h)
<1> DEFINE gone == Cardinality({i \in DOMAIN h : h[i] >= Hour - 1})
<1>1. gone \in Nat /\ gone <= Len(h)
  <2>1. IsFiniteSet(1..Len(h)) /\ Cardinality(1..Len(h)) = Len(h)
    <3>1. Len(h) \in Nat
      OBVIOUS
    <3>2. IsFiniteSet(1..Len(h))
      BY <3>1, FS_Interval
    <3>3. Cardinality(1..Len(h)) = IF 1 > Len(h) THEN 0 ELSE Len(h) - 1 + 1
      BY <3>1, FS_Interval
    <3>4. QED
      BY <3>1, <3>2, <3>3
  <2>2. {i \in DOMAIN h : h[i] >= Hour - 1} \subseteq 1..Len(h)
    OBVIOUS
  <2>3. QED
    BY <2>1, <2>2, FS_Subset, FS_CardinalityType
<1>2. Trimmed(h) = [i \in 1..(Len(h) - gone) |-> h[gone + i] + 1]
  BY DEF Trimmed
<1> HIDE DEF gone
<1>3. \A i \in 1..(Len(h) - gone) : h[gone + i] + 1 \in Nat
  BY <1>1
<1>4. Len(h) - gone \in Nat
  BY <1>1
<1>5. QED
  BY <1>1, <1>2, <1>3, <1>4

\* The rows of one binding are replaced by good rows.
LEMMA RowsUpdate ==
    ASSUME RowsOK, NEW b \in Binding, NEW r, GoodRows(r),
           rows' = [rows EXCEPT ![b] = r]
    PROVE  RowsOK'
BY DEF RowsOK, GoodRows

\* The ways the snapshot of a session is written.
LEMMA SnapUpdate ==
    ASSUME SnapOK, NEW b \in Binding,
           NEW s \in SessionState, NEW w \in WakeStatus,
           \/ snap' = [snap EXCEPT ![b] = [state |-> s, wake |-> w]]
           \/ snap' = [snap EXCEPT ![b].state = s]
           \/ snap' = [snap EXCEPT ![b].wake = w]
    PROVE  SnapOK'
BY DEF SnapOK

\* The worker moves on with one binding.
LEMMA WorkerUpdate ==
    ASSUME WorkerOK, NEW b \in Binding, NEW s \in Stage,
           NEW ids \in SUBSET Message, NEW o \in Owner \cup {NoOwner},
           NEW v \in Outcome \cup {"none", "timeout"},
           stage' = [stage EXCEPT ![b] = s],
           batch' = batch \/ batch' = [batch EXCEPT ![b] = ids],
           claim' = claim \/ claim' = [claim EXCEPT ![b] = o],
           verdict' = verdict \/ verdict' = [verdict EXCEPT ![b] = v]
    PROVE  WorkerOK'
BY DEF WorkerOK

\* The worker is done with one binding.
LEMMA DoneType ==
    ASSUME WorkerOK, NEW b \in Binding, Done(b)
    PROVE  WorkerOK'
BY DEF WorkerOK, Done, At, Stage

\* A process changes its phase, or starts, or is gone.
LEMMA ProcsUpdate ==
    ASSUME ProcsOK, NEW b \in Binding, NEW o, NEW p, o \in Owner => p \in Proc,
           procs' = [procs EXCEPT ![b][o] = p]
    PROVE  ProcsOK'
<1>1. [procs[b] EXCEPT ![o] = p] \in [Owner -> Proc]
  BY DEF ProcsOK
<1>2. procs' = [procs EXCEPT ![b] = [procs[b] EXCEPT ![o] = p]]
  BY DEF ProcsOK
<1>3. QED
  BY <1>1, <1>2 DEF ProcsOK

\* A process changes its phase alone.
LEMMA PhaseUpdate ==
    ASSUME ProcsOK, NEW b \in Binding, NEW o \in Owner,
           NEW phase \in Running \cup Outcome \cup {"none"},
           procs' = [procs EXCEPT ![b][o].phase = phase]
    PROVE  ProcsOK'
<1>1. ASSUME NEW x \in Proc PROVE [x EXCEPT !.phase = phase] \in Proc
  BY DEF Proc
<1>2. [procs[b][o] EXCEPT !.phase = phase] \in Proc
  BY <1>1 DEF ProcsOK
<1>3. procs' = [procs EXCEPT ![b][o] = [procs[b][o] EXCEPT !.phase = phase]]
  BY DEF ProcsOK
<1>4. QED
  BY <1>2, <1>3, ProcsUpdate

\* A hook adds its events to the queue or to the spool.
LEMMA HookType ==
    ASSUME EventsOK, NEW b \in Binding, NEW states \in Openings \cup {<<"waiting">>},
           Hook(b, states)
    PROVE  EventsOK'
<1>1. PICK sent : /\ sent = [i \in DOMAIN states |-> [b |-> b, state |-> states[i]]]
                  /\ \/ queue' = queue \o sent /\ spool' = spool
                     \/ spool' = spool \o sent /\ queue' = queue
                  /\ retry' = retry
  BY DEF Hook
<1>2. states \in Seq({"start", "working", "waiting"})
  <2>1. ASSUME NEW S, NEW x \in S, NEW y \in S
        PROVE  <<x>> \in Seq(S) /\ <<x, y>> \in Seq(S)
    OBVIOUS
  <2>2. /\ <<"working">> \in Seq({"start", "working", "waiting"})
        /\ <<"waiting">> \in Seq({"start", "working", "waiting"})
        /\ <<"start", "working">> \in Seq({"start", "working", "waiting"})
    BY <2>1
  <2>3. QED
    BY <2>2 DEF Openings
<1>3. sent \in Seq(Event)
  <2>1. PICK n \in Nat : DOMAIN states = 1..n
    BY <1>2
  <2>2. \A i \in 1..n : [b |-> b, state |-> states[i]] \in Event
    BY <1>2, <2>1 DEF Event
  <2>3. sent = [i \in 1..n |-> [b |-> b, state |-> states[i]]]
    BY <1>1, <2>1
  <2>4. QED
    BY <2>2, <2>3
<1>4. \A q \in Seq(Event) : q \o sent \in Seq(Event)
  BY <1>3
<1>5. QED
  BY <1>1, <1>4 DEF EventsOK

\* An event that is handled writes the session's state, marks its attempt as
\* touched and may go to the retry file.
LEMMA ShowsType ==
    ASSUME SnapOK, InflightOK, NEW b \in Binding, NEW s \in SessionState, Shows(b, s)
    PROVE  SnapOK' /\ InflightOK'
<1>1. SnapOK'
  <2>1. snap' = [snap EXCEPT ![b].state = s]
    BY DEF Shows
  <2>2. PICK w \in WakeStatus : w = snap[b].wake
    BY DEF SnapOK
  <2>3. QED
    BY <2>1, <2>2, SnapUpdate
<1>2. ASSUME NEW x \in Attempt, NEW t \in BOOLEAN
      PROVE  [x EXCEPT !.touched = t] \in Attempt
  BY <1>2 DEF Attempt
<1>3. PICK t \in BOOLEAN : t = InFlight(b)
  BY DEF InFlight
<1>4. inflight' = [inflight EXCEPT ![b] = [inflight[b] EXCEPT !.touched = t]]
  BY <1>3 DEF Shows, InflightOK
<1>5. [inflight[b] EXCEPT !.touched = t] \in Attempt
  BY <1>2 DEF InflightOK
<1>6. QED
  BY <1>1, <1>4, <1>5 DEF InflightOK

LEMMA HandleType ==
    ASSUME Parts, NEW e \in Event, NEW others \in SUBSET Event, Handle(e, others)
    PROVE  /\ SnapOK' /\ InflightOK' /\ retry' \in SUBSET Event
           /\ used' \in [crashes : Nat, turns : Nat, refusals : Nat, requeues : Nat]
<1>1. e.b \in Binding /\ ShownBy(e) \in SessionState /\ "degraded" \in SessionState
  BY DEF Event, ShownBy, SessionState
<1>2. Shows(e.b, ShownBy(e)) \/ Shows(e.b, "degraded")
  BY DEF Handle, LacksToken, Accepted, Refused
<1>3. SnapOK' /\ InflightOK'
  BY <1>1, <1>2, ShowsType DEF Parts
<1>4. retry' \in SUBSET Event
  BY DEF Handle, LacksToken, Accepted, Refused
<1>5. used \in [crashes : Nat, turns : Nat, refusals : Nat, requeues : Nat]
  BY DEF Parts, RestOK
<1>6. used' = used \/ used' = [used EXCEPT !.refusals = @ + 1]
  BY DEF Handle, LacksToken, Accepted, Refused
<1>7. QED
  BY <1>3, <1>4, <1>5, <1>6

\* Nothing else changes, whether it comes from the queue or the retry file.
LEMMA EventFrame ==
    ASSUME ProcessEvent \/ ReplayRetry
    PROVE  /\ UNCHANGED <<rows, mail, procs, hist, worker, daemon, turn, kind, served>>
           /\ used' = used \/ used' = [used EXCEPT !.refusals = @ + 1]
           /\ \/ UNCHANGED <<snap, inflight>>
              \/ \E b, s : Shows(b, s)
BY DEF ProcessEvent, ReplayRetry, Handle, LacksToken, Accepted, Refused

\* In particular, of the attempt in flight, of the wake shown and of the
\* crashes counted.
LEMMA EventSpares ==
    ASSUME TypeOK, ProcessEvent \/ ReplayRetry, NEW c \in Binding
    PROVE  /\ UNCHANGED <<rows, mail, procs, hist, worker, daemon, turn, kind, served>>
           /\ inflight'[c].owner = inflight[c].owner
           /\ inflight'[c].ids = inflight[c].ids
           /\ snap'[c].wake = snap[c].wake
           /\ used'.crashes = used.crashes
<1>1. ASSUME NEW x \in Attempt, NEW t
      PROVE  /\ [x EXCEPT !.touched = t].owner = x.owner
             /\ [x EXCEPT !.touched = t].ids = x.ids
  BY <1>1 DEF Attempt
<1>2. ASSUME NEW x \in [state : SessionState, wake : WakeStatus], NEW s
      PROVE  [x EXCEPT !.state = s].wake = x.wake
  BY <1>2
<1>3. /\ inflight \in [Binding -> Attempt]
      /\ snap \in [Binding -> [state : SessionState, wake : WakeStatus]]
      /\ used \in [crashes : Nat, turns : Nat, refusals : Nat, requeues : Nat]
  BY DEF TypeOK
<1>4. /\ \/ inflight'[c] = inflight[c]
         \/ \E t : inflight'[c] = [inflight[c] EXCEPT !.touched = t]
      /\ \/ snap'[c] = snap[c]
         \/ \E s : snap'[c] = [snap[c] EXCEPT !.state = s]
  <2>1. CASE UNCHANGED <<snap, inflight>>
    BY <2>1
  <2>2. ASSUME NEW b, NEW s, Shows(b, s)
        PROVE  /\ \/ inflight'[c] = inflight[c]
                  \/ \E t : inflight'[c] = [inflight[c] EXCEPT !.touched = t]
               /\ \/ snap'[c] = snap[c]
                  \/ \E t : snap'[c] = [snap[c] EXCEPT !.state = t]
    <3>1. /\ snap' = [snap EXCEPT ![b].state = s]
          /\ \E t : inflight' = [inflight EXCEPT ![b].touched = t]
      BY <2>2 DEF Shows
    <3>2. \/ snap'[c] = snap[c]
          \/ snap'[c] = [snap[c] EXCEPT !.state = s]
      BY <1>3, <3>1
    <3>3. \/ inflight'[c] = inflight[c]
          \/ \E t : inflight'[c] = [inflight[c] EXCEPT !.touched = t]
      BY <1>3, <3>1
    <3>4. QED
      BY <3>2, <3>3
  <2>3. QED
    BY <2>1, <2>2, EventFrame
<1>5. inflight'[c].owner = inflight[c].owner /\ inflight'[c].ids = inflight[c].ids
  <2>1. inflight[c] \in Attempt
    BY <1>3
  <2>2. CASE inflight'[c] = inflight[c]
    BY <2>2
  <2>3. ASSUME NEW t, inflight'[c] = [inflight[c] EXCEPT !.touched = t]
        PROVE  inflight'[c].owner = inflight[c].owner /\ inflight'[c].ids = inflight[c].ids
    BY <1>1, <2>1, <2>3
  <2>4. QED
    BY <1>4, <2>2, <2>3
<1>6. snap'[c].wake = snap[c].wake
  <2>1. snap[c] \in [state : SessionState, wake : WakeStatus]
    BY <1>3
  <2>2. CASE snap'[c] = snap[c]
    BY <2>2
  <2>3. ASSUME NEW s, snap'[c] = [snap[c] EXCEPT !.state = s]
        PROVE  snap'[c].wake = snap[c].wake
    BY <1>2, <2>1, <2>3
  <2>4. QED
    BY <1>4, <2>2, <2>3
<1>7. used'.crashes = used.crashes
  <2>1. ASSUME NEW x \in [crashes : Nat, turns : Nat, refusals : Nat, requeues : Nat]
        PROVE  [x EXCEPT !.refusals = @ + 1].crashes = x.crashes
    OBVIOUS
  <2>2. QED
    BY <1>3, <2>1, EventFrame
<1>8. QED
  BY <1>5, <1>6, <1>7, EventFrame

-----------------------------------------------------------------------------
(* Type correctness, action by action.                                      *)

\* The steps of the worker at a binding keep the types.
LEMMA WorkerActionsType ==
    ASSUME Parts, NEW b \in Binding, Tick(b)
    PROVE  Parts'
<1>1. CASE FinishMark(b)
  <2>1. RowsOK'
    <3>1. \A ids, o, t : /\ GoodRows(MarkDelivered(rows[b], ids, o))
                         /\ GoodRows(MarkFailed(rows[b], ids, o, t))
      BY MarkDeliveredGood, MarkFailedGood DEF Parts, RowsOK
    <3>2. \E r : GoodRows(r) /\ rows' = [rows EXCEPT ![b] = r]
      BY <1>1, <3>1 DEF FinishMark
    <3>3. QED
      BY <3>2, RowsUpdate DEF Parts
  <2>2. ProcsOK'
    <3>1. PICK p \in {NoProc, procs[b][inflight[b].owner]} :
            procs' = [procs EXCEPT ![b][inflight[b].owner] = p]
      BY <1>1 DEF FinishMark
    <3>2. inflight[b].owner \in Owner => p \in Proc
      BY <3>1, TimingAssumption, PolicyAssumption
      DEF Parts, ProcsOK, NoProc, Proc, MaxAge, Running
    <3>3. QED
      BY <3>1, <3>2, ProcsUpdate DEF Parts
  <2>3. WorkerOK'
    <3>1. PICK v \in Outcome \cup {"timeout"} :
            verdict' = [verdict EXCEPT ![b] = v]
      BY <1>1 DEF FinishMark, Exited
    <3>2. QED
      BY <1>1, <3>1 DEF FinishMark, Parts, WorkerOK, At, Stage
  <2>4. RestOK'
    <3>1. inflight[b].ids \in SUBSET Message
      BY DEF Parts, InflightOK, Attempt
    <3>2. QED
      BY <1>1, <3>1 DEF FinishMark, Parts, RestOK
  <2>5. QED
    BY <1>1, <2>1, <2>2, <2>3, <2>4, Kept DEF FinishMark, Parts, mail, events
<1>2. CASE FinishRecord(b)
  <2>1. FinishedState(b) \in SessionState /\ FinishedWake(b) \in WakeStatus
    <3>1. inflight[b].prior \in SessionState /\ snap[b].state \in SessionState
      BY DEF Parts, InflightOK, Attempt, SnapOK
    <3>2. verdict[b] \in Outcome \cup {"none", "timeout"}
      BY DEF Parts, WorkerOK
    <3>3. FinishedState(b) \in SessionState
      BY <3>1, <3>2 DEF FinishedState, SessionState, Outcome
    <3>4. FinishedWake(b) \in WakeStatus
      BY <3>2 DEF FinishedWake, WakeStatus, Outcome
    <3>5. QED
      BY <3>3, <3>4
  <2>2. SnapOK'
    BY <1>2, <2>1, SnapUpdate DEF FinishRecord, Parts
  <2>3. InflightOK'
    BY <1>2 DEF FinishRecord, Parts, InflightOK, Attempt, NoAttempt, SessionState
  <2>4. WorkerOK'
    BY <1>2 DEF FinishRecord, Parts, WorkerOK, At, Stage
  <2>5. QED
    BY <1>2, <2>2, <2>3, <2>4, Kept DEF FinishRecord, Parts, mail, events
<1>3. CASE Scan(b)
  <2>1. PICK seen \in SUBSET Message :
          /\ rows' = [rows EXCEPT ![b] = ReconcileAbsent(Observe(@, seen), seen)]
          /\ batch' = [batch EXCEPT ![b] = seen]
    BY <1>3 DEF Scan, Parts, MailOK
  <2>2. RowsOK'
    <3>1. GoodRows(rows[b])
      BY DEF Parts, RowsOK
    <3>2. GoodRows(ReconcileAbsent(Observe(rows[b], seen), seen))
      BY <3>1, ObserveGood, ReconcileGood
    <3>3. QED
      BY <2>1, <3>2, RowsUpdate DEF Parts
  <2>3. WorkerOK'
    BY <1>3, <2>1 DEF Scan, Parts, WorkerOK, At, Stage
  <2>4. QED
    BY <1>3, <2>2, <2>3, Kept DEF Scan, Parts, mail, events
<1>4. ASSUME NEW w \in WakeStatus, Hold(b, w)
      PROVE  Parts'
  <2>1. SnapOK'
    BY <1>4 DEF Hold, Wake, Parts, SnapOK
  <2>2. WorkerOK'
    BY <1>4, DoneType DEF Hold, Parts
  <2>3. QED
    BY <1>4, <2>1, <2>2, Kept DEF Hold, Parts, mail, events
<1>5. CASE \/ HoldWaking(b) \/ HoldTokenless(b) \/ HoldBlocked(b)
           \/ HoldSettled(b) \/ HoldWorking(b) \/ HoldSubagent(b)
           \/ HoldDegraded(b) \/ HoldRateLimited(b)
  <2>1. snap[b].wake \in WakeStatus
    BY DEF Parts, SnapOK
  <2>2. \E w \in WakeStatus : Hold(b, w)
    BY <1>5, <2>1
    DEF HoldWaking, HoldTokenless, HoldBlocked, HoldSettled, HoldWorking,
        HoldSubagent, HoldDegraded, HoldRateLimited, WakeStatus
  <2>3. QED
    BY <1>4, <2>2
<1>6. GoodRows(Recovered(b))
  BY RecoverGood DEF Recovered, Parts, RowsOK
<1>7. CASE HoldNotReady(b)
  <2>1. RowsOK'
    BY <1>6, <1>7, RowsUpdate DEF HoldNotReady, Select, Parts
  <2>2. SnapOK'
    BY <1>7 DEF HoldNotReady, Wake, Parts, SnapOK, WakeStatus
  <2>3. WorkerOK'
    BY <1>7, DoneType DEF HoldNotReady, Parts
  <2>4. QED
    BY <1>7, <2>1, <2>2, <2>3, Kept
    DEF HoldNotReady, Select, Parts, mail, events
<1>8. CASE TakeReady(b)
  <2>1. RowsOK'
    BY <1>6, <1>8, RowsUpdate DEF TakeReady, Select, Parts
  <2>2. Ready(Recovered(b), batch[b]) \in SUBSET Message
    BY DEF Parts, WorkerOK, Ready
  <2>3. WorkerOK'
    BY <1>8, <2>2 DEF TakeReady, Parts, WorkerOK, At, Stage
  <2>4. QED
    BY <1>8, <2>1, <2>3, Kept DEF TakeReady, Select, Parts, mail, events
<1>9. CASE AcquireLease(b)
  <2>1. PICK o \in Owner :
          /\ rows' = [rows EXCEPT ![b] = Acquire(@, batch[b], o)]
          /\ batch' = [batch EXCEPT ![b] = Acquirable(rows[b], @)]
          /\ claim' = [claim EXCEPT ![b] = o]
    BY <1>9 DEF AcquireLease
  <2>2. RowsOK'
    BY <2>1, AcquireGood, RowsUpdate DEF Parts, RowsOK
  <2>3. Acquirable(rows[b], batch[b]) \in SUBSET Message
    BY DEF Parts, WorkerOK, Acquirable
  <2>4. WorkerOK'
    BY <1>9, <2>1, <2>3 DEF AcquireLease, Parts, WorkerOK, At, Stage
  <2>5. QED
    BY <1>9, <2>2, <2>4, Kept DEF AcquireLease, Parts, mail, events
<1>10. CASE Launch(b)
  <2>1. [phase |-> "started", ids |-> batch[b], age |-> 0] \in Proc
    BY TimingAssumption, PolicyAssumption
    DEF Proc, Running, MaxAge, Parts, WorkerOK
  <2>2. ProcsOK'
    BY <1>10, <2>1, ProcsUpdate DEF Launch, Parts
  <2>3. WorkerOK'
    BY <1>10 DEF Launch, Parts, WorkerOK, At, Stage
  <2>4. QED
    BY <1>10, <2>2, <2>3, Kept DEF Launch, Parts, mail, events
<1>11. CASE LaunchFails(b)
  <2>1. RowsOK'
    BY <1>11, MarkFailedGood, RowsUpdate DEF LaunchFails, Parts, RowsOK
  <2>2. SnapOK'
    BY <1>11 DEF LaunchFails, Wake, Parts, SnapOK, WakeStatus
  <2>3. WorkerOK'
    BY <1>11, DoneType DEF LaunchFails, Parts
  <2>4. QED
    BY <1>11, <2>1, <2>2, <2>3, Kept DEF LaunchFails, Parts, mail, events
<1>12. CASE Record(b)
  <2>1. InflightOK'
    <3>1. [owner |-> claim[b], ids |-> batch[b], prior |-> snap[b].state,
           touched |-> FALSE] \in Attempt
      BY DEF Parts, WorkerOK, SnapOK, Attempt
    <3>2. QED
      BY <1>12, <3>1 DEF Record, Parts, InflightOK
  <2>2. HistOK'
    <3>1. Append(hist[b], 0) \in Seq(Nat)
      BY DEF Parts, HistOK
    <3>2. hist' = [hist EXCEPT ![b] = Append(hist[b], 0)]
      BY <1>12 DEF Record, Parts, HistOK
    <3>3. QED
      BY <3>1, <3>2 DEF Parts, HistOK
  <2>3. SnapOK'
    BY <1>12 DEF Record, Parts, SnapOK, SessionState, WakeStatus
  <2>4. WorkerOK'
    BY <1>12, DoneType DEF Record, Parts
  <2>5. QED
    BY <1>12, <2>1, <2>2, <2>3, <2>4, Kept DEF Record, Parts, mail, events
<1>13. QED
  BY <1>1, <1>2, <1>3, <1>5, <1>7, <1>8, <1>9, <1>10, <1>11, <1>12 DEF Tick

\* So do all others.
LEMMA OtherActionsType ==
    ASSUME Parts, Next, \A b \in Binding : ~Tick(b)
    PROVE  Parts'
<1>1. CASE TickStart
  <2>1. WorkerOK'
    BY <1>1 DEF TickStart, Parts, WorkerOK, Stage
  <2>2. QED
    BY <1>1, <2>1, Kept DEF TickStart, Parts, mail, events
<1>2. CASE ProcessEvent \/ ReplayRetry
  <2>1. ASSUME NEW e \in Event, NEW others \in SUBSET Event, Handle(e, others)
        PROVE  /\ SnapOK' /\ InflightOK' /\ RestOK' /\ retry' \in SUBSET Event
    <3>1. /\ SnapOK' /\ InflightOK' /\ retry' \in SUBSET Event
          /\ used' \in [crashes : Nat, turns : Nat, refusals : Nat, requeues : Nat]
      BY <2>1, HandleType
    <3>2. RestOK'
      BY <1>2, <3>1, EventFrame DEF Parts, RestOK
    <3>3. QED
      BY <3>1, <3>2
  <2>2. CASE ProcessEvent
    <3>1. /\ Head(queue) \in Event /\ queue' \in Seq(Event)
          /\ retry \in SUBSET Event /\ spool' \in Seq(Event)
      BY <2>2 DEF ProcessEvent, Parts, EventsOK
    <3>2. Handle(Head(queue), retry)
      BY <2>2 DEF ProcessEvent
    <3>3. SnapOK' /\ InflightOK' /\ RestOK' /\ retry' \in SUBSET Event
      BY <2>1, <3>1, <3>2
    <3>4. QED
      BY <1>2, <3>1, <3>3, EventFrame, Kept DEF Parts, EventsOK, mail, worker
  <2>3. CASE ReplayRetry
    <3>1. queue' = queue /\ spool' = spool
      BY <2>3 DEF ReplayRetry
    <3>2. SnapOK' /\ InflightOK' /\ RestOK' /\ retry' \in SUBSET Event
      <4>1. PICK e \in retry :
              \/ Handle(e, retry \ {e})
              \/ retry' = retry \ {e} /\ UNCHANGED <<snap, inflight, used>>
        BY <2>3 DEF ReplayRetry
      <4>2. e \in Event /\ retry \ {e} \in SUBSET Event
        BY DEF Parts, EventsOK
      <4>3. CASE Handle(e, retry \ {e})
        BY <2>1, <4>2, <4>3
      <4>4. CASE retry' = retry \ {e} /\ UNCHANGED <<snap, inflight, used>>
        BY <1>2, <4>2, <4>4, EventFrame, Kept DEF Parts
      <4>5. QED
        BY <4>1, <4>3, <4>4
    <3>3. QED
      BY <1>2, <3>1, <3>2, EventFrame, Kept DEF Parts, EventsOK, mail, worker
  <2>4. QED
    BY <1>2, <2>2, <2>3
<1>3. ASSUME NEW b \in Binding, MarkDormant(b)
      PROVE  Parts'
  <2>1. SnapOK'
    BY <1>3 DEF MarkDormant, Parts, SnapOK, SessionState
  <2>2. QED
    BY <1>3, <2>1, Kept DEF MarkDormant, Parts, mail, worker, events
<1>4. CASE Crash
  <2>1. ProcsOK'
    BY <1>4, TimingAssumption, PolicyAssumption
    DEF Crash, Parts, ProcsOK, Proc, NoProc, MaxAge
  <2>2. InflightOK'
    BY <1>4 DEF Crash, Parts, InflightOK, Attempt, NoAttempt, SessionState
  <2>3. HistOK'
    BY <1>4 DEF Crash, Parts, HistOK
  <2>4. WorkerOK'
    BY <1>4 DEF Crash, Parts, WorkerOK, Stage
  <2>5. EventsOK'
    BY <1>4 DEF Crash, Parts, EventsOK
  <2>6. RestOK'
    BY <1>4 DEF Crash, Parts, RestOK
  <2>7. QED
    BY <1>4, <2>1, <2>2, <2>3, <2>4, <2>5, <2>6, Kept DEF Crash, Parts, mail
<1>5. CASE Restart
  <2>1. RestOK'
    BY <1>5 DEF Restart, Parts, RestOK
  <2>2. QED
    BY <1>5, <2>1, Kept DEF Restart, Parts, mail, worker, events
<1>6. CASE LoadSpool
  <2>1. EventsOK'
    BY <1>6 DEF LoadSpool, Parts, EventsOK
  <2>2. RestOK'
    BY <1>6 DEF LoadSpool, Parts, RestOK
  <2>3. QED
    BY <1>6, <2>1, <2>2, Kept DEF LoadSpool, Parts, mail, worker
<1>7. ASSUME NEW b \in Binding, StartTurn(b) \/ EndTurn(b)
      PROVE  Parts'
  <2>1. EventsOK'
    BY <1>7, HookType DEF StartTurn, EndTurn, Parts, Openings
  <2>2. CASE StartTurn(b)
    <3>1. [used EXCEPT !.turns = @ + 1] \in
            [crashes : Nat, turns : Nat, refusals : Nat, requeues : Nat]
      BY DEF Parts, RestOK
    <3>2. RestOK'
      BY <2>2, <3>1 DEF StartTurn, Parts, RestOK
    <3>3. QED
      BY <2>1, <2>2, <3>2, Kept DEF StartTurn, Parts, mail, worker
  <2>3. CASE EndTurn(b)
    <3>1. RestOK'
      BY <2>3 DEF EndTurn, Parts, RestOK
    <3>2. QED
      BY <2>1, <2>3, <3>1, Kept DEF EndTurn, Parts, mail, worker
  <2>4. QED
    BY <1>7, <2>2, <2>3
<1>8. ASSUME NEW b \in Binding, NEW o \in Owner, Prompt(b, o) \/ Stop(b, o)
      PROVE  Parts'
  <2>1. ProcsOK'
    BY <1>8, PhaseUpdate DEF Prompt, Stop, Parts, Running
  <2>2. EventsOK'
    BY <1>8, HookType DEF Prompt, Stop, Parts, Openings
  <2>3. QED
    BY <1>8, <2>1, <2>2, Kept DEF Prompt, Stop, Parts, mail, worker
<1>9. ASSUME NEW b \in Binding, NEW o \in Owner, NEW outcome \in Outcome,
             Exit(b, o, outcome)
      PROVE  Parts'
  <2>1. ProcsOK'
    <3>1. CASE Tracked(b, o)
      <4>1. procs' = [procs EXCEPT ![b][o].phase = outcome]
        BY <1>9, <3>1 DEF Exit
      <4>2. QED
        BY <4>1, PhaseUpdate DEF Parts
    <3>2. CASE ~Tracked(b, o)
      <4>1. procs' = [procs EXCEPT ![b][o] = NoProc]
        BY <1>9, <3>2 DEF Exit
      <4>2. NoProc \in Proc
        BY TimingAssumption, PolicyAssumption DEF NoProc, Proc, MaxAge
      <4>3. QED
        BY <4>1, <4>2, ProcsUpdate DEF Parts
    <3>3. QED
      BY <3>1, <3>2
  <2>2. QED
    BY <1>9, <2>1, Kept DEF Exit, Parts, mail, worker, events
<1>10. ASSUME NEW b \in Binding, Fetch(b)
       PROVE  Parts'
  <2>1. MailOK'
    BY <1>10 DEF Fetch, Parts, MailOK
  <2>2. QED
    BY <1>10, <2>1, Kept DEF Fetch, Parts, worker, events
<1>11. ASSUME NEW b \in Binding, NEW m \in Message, Emit(b, m)
       PROVE  Parts'
  <2>1. MailOK'
    BY <1>11 DEF Emit, Parts, MailOK
  <2>2. QED
    BY <1>11, <2>1, Kept DEF Emit, Parts, worker, events
<1>12. ASSUME NEW b \in Binding, NEW m \in Message, OperatorRequeue(b, m)
       PROVE  Parts'
  <2>1. RowsOK'
    BY <1>12, RequeueGood, RowsUpdate DEF OperatorRequeue, Parts, RowsOK
  <2>2. RestOK'
    BY <1>12 DEF OperatorRequeue, Parts, RestOK
  <2>3. QED
    BY <1>12, <2>1, <2>2, Kept DEF OperatorRequeue, Parts, mail, worker, events
<1>13. CASE TimePasses
  <2>1. RowsOK'
    BY <1>13, ElapseGood DEF TimePasses, Parts, RowsOK, GoodRows
  <2>2. ProcsOK'
    <3>1. ASSUME NEW x \in Proc, NEW a \in 0..MaxAge
          PROVE  [x EXCEPT !.age = a] \in Proc
      BY <3>1 DEF Proc
    <3>2. ASSUME NEW x \in Proc
          PROVE  (IF x.phase \in Running /\ x.age < MaxAge
                  THEN x.age + 1 ELSE x.age) \in 0..MaxAge
      BY <3>2, TimingAssumption, PolicyAssumption DEF Proc, MaxAge
    <3>3. ASSUME NEW x \in Proc
          PROVE  [x EXCEPT !.age = IF x.phase \in Running /\ @ < MaxAge
                                   THEN @ + 1 ELSE @] \in Proc
      BY <3>1, <3>2, <3>3
    <3>4. QED
      BY <1>13, <3>3 DEF TimePasses, Parts, ProcsOK
  <2>3. HistOK'
    BY <1>13, TrimmedShorter DEF TimePasses, Parts, HistOK
  <2>4. QED
    BY <1>13, <2>1, <2>2, <2>3, Kept DEF TimePasses, Parts, mail, worker, events
<1>14. QED
  BY <1>1, <1>2, <1>3, <1>4, <1>5, <1>6, <1>7, <1>8, <1>9, <1>10, <1>11,
     <1>12, <1>13
  DEF Next, Worker, Session, Outside

\* The initial state is well-typed.
LEMMA InitType == Init => TypeOK
<1> SUFFICES ASSUME Init PROVE Parts
  BY PartsOfTypeOK
<1>1. RowsOK
  BY NoRowGood DEF Init, RowsOK, GoodRows, GoodRow, Rows
<1>2. MailOK /\ WorkerOK /\ EventsOK /\ RestOK
  BY DEF Init, MailOK, WorkerOK, EventsOK, RestOK, Stage
<1>3. SnapOK /\ InflightOK /\ HistOK
  BY DEF Init, SnapOK, InflightOK, HistOK, Attempt, NoAttempt, SessionState,
         WakeStatus
<1>4. ProcsOK
  BY TimingAssumption, PolicyAssumption
  DEF Init, ProcsOK, Proc, NoProc, MaxAge
<1>5. QED
  BY <1>1, <1>2, <1>3, <1>4 DEF Parts

\* Every step keeps the types.
LEMMA NextType == TypeOK /\ [Next]_vars => TypeOK'
<1>1. ASSUME Parts, UNCHANGED vars PROVE Parts'
  BY <1>1, Kept DEF vars, mail, worker, events, Parts
<1>2. ASSUME Parts, Next PROVE Parts'
  BY <1>2, WorkerActionsType, OtherActionsType
<1>3. QED
  BY <1>1, <1>2, PartsOfTypeOK, PTL

\* Every reachable state is well-typed, and every row of the delivery table
\* meets the table's CHECK constraint: a lease owner exactly while leased.
THEOREM TypeCorrect == Spec => []TypeOK
<1>1. QED
  BY InitType, NextType, PTL DEF Spec

-----------------------------------------------------------------------------
(* A wake in flight owns its rows.  The invariant has to follow the lease   *)
(* from the moment it is taken: through the start of the process, where it  *)
(* is the worker's claim, to the result, and it has to know that a session  *)
(* with a wake in flight never gets past the gate that would recover its    *)
(* leases.                                                                  *)

Holds(row, o) == row.status = "leased" /\ row.owner = o

Owns(b) ==
    /\ stage[b] \in {"finish", "marked"} => InFlight(b)
    /\ stage[b] \in {"acquire", "launch", "record"} => ~InFlight(b)
    /\ stage[b] \in {"launch", "record"} =>
          /\ claim[b] \in Owner
          /\ \A m \in batch[b] : Holds(rows[b][m], claim[b])
    /\ InFlight(b) /\ stage[b] # "marked" =>
          \A m \in inflight[b].ids : Holds(rows[b][m], inflight[b].owner)

Ownership == \A b \in Binding : Owns(b)

\* What does not touch the worker's place with b, and keeps its leases, keeps
\* the ownership.
LEMMA OwnsKept ==
    ASSUME TypeOK, NEW b \in Binding, Owns(b),
           \A m \in Message, o \in Owner :
              Holds(rows[b][m], o) => Holds(rows'[b][m], o),
           inflight'[b].owner = inflight[b].owner,
           inflight'[b].ids = inflight[b].ids,
           stage'[b] = stage[b], batch'[b] = batch[b], claim'[b] = claim[b]
    PROVE  Owns(b)'
<1>1. batch[b] \subseteq Message /\ inflight[b].ids \subseteq Message
  BY DEF TypeOK, Attempt
<1>2. InFlight(b) => inflight[b].owner \in Owner
  BY DEF TypeOK, Attempt, InFlight
<1>3. QED
  BY <1>1, <1>2 DEF Owns, InFlight

\* Only the row methods of the worker itself give leases up.
LEMMA LeasesKept ==
    ASSUME NEW r, GoodRows(r), NEW m \in Message, NEW o, Holds(r[m], o)
    PROVE  /\ \A seen : Holds(ReconcileAbsent(Observe(r, seen), seen)[m], o)
           /\ \A n \in Message : CanRequeue(r, n) => Holds(Requeue(r, n)[m], o)
           /\ Holds(Elapse(r)[m], o)
<1>1. \A seen : Holds(ReconcileAbsent(Observe(r, seen), seen)[m], o)
  BY DEF Holds, ReconcileAbsent, Observe
<1>2. \A n \in Message : CanRequeue(r, n) => Holds(Requeue(r, n)[m], o)
  BY DEF Holds, Requeue, CanRequeue, GoodRows, Rows
<1>3. Holds(Elapse(r)[m], o)
  BY DEF Holds, Elapse, GoodRows, Rows, Row
<1>4. QED
  BY <1>1, <1>2, <1>3

\* At the start no wake is in flight.
LEMMA InitOwnership == Init => Ownership
BY DEF Init, Ownership, Owns, InFlight, NoAttempt

\* The worker's step with b concerns b alone.
LEMMA TickOthers ==
    ASSUME TypeOK, NEW b \in Binding, Tick(b), NEW c \in Binding \ {b}
    PROVE  /\ rows'[c] = rows[c] /\ inflight'[c] = inflight[c]
           /\ stage'[c] = stage[c] /\ batch'[c] = batch[c]
           /\ claim'[c] = claim[c]
<1>1. /\ rows' = rows \/ \E x : rows' = [rows EXCEPT ![b] = x]
      /\ inflight' = inflight \/ \E x : inflight' = [inflight EXCEPT ![b] = x]
      /\ \E x : stage' = [stage EXCEPT ![b] = x]
      /\ batch' = batch \/ \E x : batch' = [batch EXCEPT ![b] = x]
      /\ claim' = claim \/ \E x : claim' = [claim EXCEPT ![b] = x]
  BY DEF Tick, FinishMark, FinishRecord, Scan, HoldWaking, HoldTokenless,
         HoldBlocked, HoldSettled, HoldWorking, HoldSubagent, HoldDegraded, HoldRateLimited,
         HoldNotReady, Select, TakeReady, AcquireLease, Launch, LaunchFails,
         Record, Hold, Done, At
<1>2. QED
  BY <1>1 DEF TypeOK

\* The worker keeps the ownership of the binding it is at.
LEMMA TickOwnership ==
    ASSUME TypeOK, NEW b \in Binding, Tick(b), Owns(b)
    PROVE  Owns(b)'
<1> USE DEF TypeOK
<1>1. CASE FinishMark(b)
  BY <1>1 DEF FinishMark, Working, At, Owns, InFlight
<1>2. CASE FinishRecord(b)
  BY <1>2 DEF FinishRecord, Working, At, Owns, InFlight, NoAttempt
<1>3. CASE Scan(b)
  <2>1. PICK seen : rows'[b] = ReconcileAbsent(Observe(rows[b], seen), seen)
    BY <1>3 DEF Scan
  <2>2. GoodRows(rows[b])
    BY DEF GoodRows
  <2>3. ASSUME NEW m \in Message, NEW o, Holds(rows[b][m], o)
        PROVE  Holds(rows'[b][m], o)
    BY <2>1, <2>2, <2>3, LeasesKept
  <2>4. /\ stage'[b] = "gate" /\ stage[b] = "scan"
        /\ inflight' = inflight /\ inflight[b].ids \subseteq Message
    BY <1>3 DEF Scan, Working, At, Attempt
  <2>5. QED
    BY <2>3, <2>4 DEF Owns, InFlight
<1>4. ASSUME NEW w, Hold(b, w) PROVE Owns(b)'
  BY <1>4 DEF Hold, Gate, Working, Done, At, Owns, InFlight
<1>5. CASE \/ HoldWaking(b) \/ HoldTokenless(b) \/ HoldBlocked(b)
           \/ HoldSettled(b) \/ HoldWorking(b) \/ HoldSubagent(b)
           \/ HoldDegraded(b) \/ HoldRateLimited(b)
  BY <1>4, <1>5
  DEF HoldWaking, HoldTokenless, HoldBlocked, HoldSettled, HoldWorking,
      HoldSubagent, HoldDegraded, HoldRateLimited
<1>6. CASE HoldNotReady(b)
  BY <1>6 DEF HoldNotReady, Select, Wakeable, GatePasses, Done, At, Owns, InFlight
<1>7. CASE TakeReady(b)
  BY <1>7 DEF TakeReady, Select, Wakeable, GatePasses, At, Owns, InFlight
<1>8. CASE AcquireLease(b)
  <2>1. PICK o \in Owner :
          /\ rows'[b] = Acquire(rows[b], batch[b], o)
          /\ batch'[b] = Acquirable(rows[b], batch[b])
          /\ claim'[b] = o
    BY <1>8 DEF AcquireLease
  <2>2. ASSUME NEW m \in batch'[b] PROVE Holds(rows'[b][m], o)
    <3>1. m \in Message /\ rows[b][m] \in Row
      BY <2>1, <2>2 DEF Acquirable, Rows
    <3>2. rows'[b][m] = [rows[b][m] EXCEPT !.status = "leased", !.owner = o,
                            !.lease = LeaseSeconds, !.attempts = @ + 1]
      BY <2>1, <2>2, <3>1 DEF Acquire
    <3>3. QED
      BY <3>1, <3>2 DEF Holds, Row
  <2>3. /\ stage'[b] = "launch" /\ stage[b] = "acquire"
        /\ inflight' = inflight
    BY <1>8 DEF AcquireLease, Working, At
  <2>4. QED
    BY <2>1, <2>2, <2>3 DEF Owns, InFlight
<1>9. CASE Launch(b)
  BY <1>9 DEF Launch, Working, At, Owns, InFlight
<1>10. CASE LaunchFails(b)
  BY <1>10 DEF LaunchFails, Working, Done, At, Owns, InFlight
<1>11. CASE Record(b)
  BY <1>11 DEF Record, Working, Done, At, Owns, InFlight
<1>12. QED
  BY <1>1, <1>2, <1>3, <1>5, <1>6, <1>7, <1>8, <1>9, <1>10, <1>11 DEF Tick

\* Nobody takes a row from a wake.
LEMMA NextOwnership ==
    ASSUME TypeOK, Ownership, Next
    PROVE  Ownership'
<1> SUFFICES ASSUME NEW c \in Binding PROVE Owns(c)'
  BY DEF Ownership
<1>1. Owns(c) /\ GoodRows(rows[c])
  BY DEF Ownership, TypeOK, GoodRows
<1>2. ASSUME NEW b \in Binding, Tick(b) PROVE Owns(c)'
  <2>1. CASE b = c
    BY <1>1, <1>2, <2>1, TickOwnership
  <2>2. CASE b # c
    BY <1>1, <1>2, <2>2, TickOthers, OwnsKept
  <2>3. QED
    BY <2>1, <2>2
<1>3. CASE TickStart
  BY <1>1, <1>3 DEF TypeOK, TickStart, WorkerFree, Owns, InFlight
<1>4. CASE Crash
  BY <1>4 DEF Crash, Owns, InFlight, NoAttempt
<1>5. CASE TimePasses
  <2>1. \A m \in Message, o \in Owner :
           Holds(rows[c][m], o) => Holds(rows'[c][m], o)
    BY <1>1, <1>5, LeasesKept DEF TimePasses
  <2>2. QED
    BY <1>1, <1>5, <2>1, OwnsKept DEF TimePasses, worker
<1>6. ASSUME NEW b \in Binding, NEW m \in Message, OperatorRequeue(b, m)
      PROVE  Owns(c)'
  <2>1. \/ rows'[c] = rows[c]
        \/ CanRequeue(rows[c], m) /\ rows'[c] = Requeue(rows[c], m)
    BY <1>6 DEF OperatorRequeue, TypeOK
  <2>2. \A n \in Message, o \in Owner :
           Holds(rows[c][n], o) => Holds(rows'[c][n], o)
    BY <1>1, <2>1, LeasesKept
  <2>3. QED
    BY <1>1, <1>6, <2>2, OwnsKept DEF OperatorRequeue, worker
<1>7. CASE ProcessEvent \/ ReplayRetry
  BY <1>1, <1>7, EventSpares, OwnsKept DEF worker
<1>8. ASSUME UNCHANGED <<rows, inflight, stage, batch, claim>>
      PROVE  Owns(c)'
  BY <1>1, <1>8, OwnsKept
<1>9. ASSUME NEW b \in Binding,
             \/ MarkDormant(b) \/ StartTurn(b) \/ EndTurn(b) \/ Fetch(b)
             \/ \E o \in Owner : Prompt(b, o) \/ Stop(b, o)
             \/ \E o \in Owner, outcome \in Outcome : Exit(b, o, outcome)
             \/ \E m \in Message : Emit(b, m)
      PROVE  Owns(c)'
  BY <1>8, <1>9
  DEF MarkDormant, StartTurn, EndTurn, Fetch, Prompt, Stop, Exit, Emit, worker
<1>10. CASE Restart \/ LoadSpool
  BY <1>8, <1>10 DEF Restart, LoadSpool, worker
<1>11. QED
  BY <1>2, <1>3, <1>4, <1>5, <1>6, <1>7, <1>9, <1>10
  DEF Next, Worker, Session, Outside

\* The ownership holds throughout.
LEMMA OwnershipInvariant == Spec => []Ownership
<1>1. TypeOK /\ Ownership /\ UNCHANGED vars => Ownership'
  BY DEF vars, worker, Ownership, Owns, InFlight
<1>2. TypeOK /\ Ownership /\ Next => Ownership'
  BY NextOwnership
<1>3. QED
  BY <1>1, <1>2, InitOwnership, TypeCorrect, PTL DEF Spec

\* The result of a wake always finds the rows it is about: whatever the other
\* methods do to the table while a resume process runs, the rows it was given
\* stay leased to it until its result is marked.
THEOREM InflightOwnsItsRows == Spec => []InflightOwnsRows
<1>1. Ownership => InflightOwnsRows
  BY DEF Ownership, Owns, InflightOwnsRows, Holds
<1>2. QED
  BY <1>1, OwnershipInvariant, PTL

-----------------------------------------------------------------------------
(* No message is written off unread.                                        *)

\* The signal of a message is there until the agent takes it; rows are made
\* of signals alone; and what is delivered was taken or served.
Taken(b) ==
    /\ signals[b] \subseteq emitted[b]
    /\ emitted[b] \ signals[b] \subseteq consumed[b]
    /\ \A m \in Message :
          /\ rows[b][m].status # "absent" => m \in emitted[b] \ SystemMail
          /\ rows[b][m].status = "delivered" => m \in consumed[b] \cup served[b]

AllTaken == \A b \in Binding : Taken(b)

\* A step that writes the rows of a binding and leaves its signals alone.
LEMMA TakenByRows ==
    ASSUME NEW b \in Binding, Taken(b),
           signals'[b] = signals[b], emitted'[b] = emitted[b],
           consumed'[b] = consumed[b], served[b] \subseteq served'[b],
           \A m \in Message :
              /\ rows'[b][m].status # "absent" =>
                    rows[b][m].status # "absent" \/ m \in signals[b] \ SystemMail
              /\ rows'[b][m].status = "delivered" =>
                    \/ rows[b][m].status = "delivered"
                    \/ m \in consumed[b] \cup served'[b]
    PROVE  Taken(b)'
BY DEF Taken

\* The steps of the worker.
LEMMA TickTaken ==
    ASSUME TypeOK, Ownership, ~SignalUnreadable, NEW b \in Binding, Taken(b), Tick(b)
    PROVE  Taken(b)'
<1>1. GoodRows(rows[b]) /\ Owns(b)
  BY DEF TypeOK, GoodRows, Ownership
<1>2. CASE FinishMark(b)
  <2> DEFINE o == inflight[b].owner
             ids == inflight[b].ids
             ok == Exited(b) /\ Process(b).phase = "ok"
  <2>1. /\ ok => /\ rows'[b] = MarkDelivered(rows[b], ids, o)
                 /\ served'[b] = served[b] \cup ids
        /\ ~ok => /\ \E t : rows'[b] = MarkFailed(rows[b], ids, o, t)
                  /\ served'[b] = served[b]
        /\ UNCHANGED mail
    BY <1>2 DEF FinishMark, TypeOK, Exited
  <2>2. CASE ok
    <3>1. \A m \in Message :
             Same(rows'[b][m], rows[b][m]) \/ m \in HeldRows(rows[b], ids, o)
      BY <1>1, <2>1, <2>2, MarkDeliveredRow
    <3>2. QED
      BY <2>1, <2>2, <3>1, TakenByRows DEF Same, HeldRows, mail
  <2>3. CASE ~ok
    <3>1. PICK t : rows'[b] = MarkFailed(rows[b], ids, o, t)
      BY <2>1, <2>3
    <3>2. \A m \in Message :
             \/ Same(rows'[b][m], rows[b][m])
             \/ /\ m \in HeldRows(rows[b], ids, o)
                /\ rows'[b][m].status \in {"dead_letter", "failed"}
      BY <1>1, <3>1, MarkFailedRow DEF Becomes
    <3>3. QED
      BY <2>1, <2>3, <3>2, TakenByRows DEF Same, HeldRows, mail
  <2>4. QED
    BY <2>2, <2>3
<1>3. CASE Scan(b)
  <2> DEFINE seen == signals[b] \ SystemMail
  <2>1. /\ rows'[b] = ReconcileAbsent(Observe(rows[b], seen), seen)
        /\ UNCHANGED <<mail, served>>
    <3>1. \E s \in {seen} :
             /\ rows' = [rows EXCEPT ![b] = ReconcileAbsent(Observe(@, s), s)]
             /\ UNCHANGED <<mail, served>>
      BY <1>3 DEF Scan
    <3>2. QED
      BY <3>1 DEF TypeOK
  <2>2. ASSUME NEW m \in Message
        PROVE  /\ rows'[b][m].status # "absent" =>
                     rows[b][m].status # "absent" \/ m \in seen
               /\ rows'[b][m].status = "delivered" =>
                     \/ rows[b][m].status = "delivered"
                     \/ rows[b][m].status # "absent" /\ m \notin seen
    BY <1>1, <2>1, ScanRow DEF Same, Becomes
  <2>3. ASSUME NEW m \in Message, rows[b][m].status # "absent", m \notin seen
        PROVE  m \in consumed[b]
    BY <2>3 DEF Taken
  <2>4. QED
    BY <2>1, <2>2, <2>3, TakenByRows DEF mail
<1>4. CASE HoldNotReady(b) \/ TakeReady(b)
  <2>1. rows'[b] = Recovered(b) /\ UNCHANGED <<mail, served>>
    BY <1>4 DEF HoldNotReady, TakeReady, Select, TypeOK
  <2>2. \A m \in Message :
           \/ Same(rows'[b][m], rows[b][m])
           \/ rows[b][m].status \in {"leased", "failed"} /\ rows'[b][m].status = "pending"
    BY <1>1, <2>1, RecoverRow DEF Recovered, Same, Becomes
  <2>3. QED
    BY <2>1, <2>2, TakenByRows DEF Same, mail
<1>5. CASE AcquireLease(b)
  <2>1. PICK o \in Owner : /\ rows'[b] = Acquire(rows[b], batch[b], o)
                           /\ UNCHANGED <<mail, served>>
    BY <1>5 DEF AcquireLease, TypeOK
  <2>2. \A m \in Message :
           \/ Same(rows'[b][m], rows[b][m])
           \/ rows[b][m].status = "pending" /\ rows'[b][m].status = "leased"
    BY <1>1, <2>1, AcquireRow DEF Acquirable, Same, Becomes
  <2>3. QED
    BY <2>1, <2>2, TakenByRows DEF Same, mail
<1>6. CASE LaunchFails(b)
  <2>1. /\ rows'[b] = MarkFailed(rows[b], batch[b], claim[b], FALSE)
        /\ UNCHANGED <<mail, served>>
    <3>1. /\ rows' = [rows EXCEPT ![b] = MarkFailed(rows[b], batch[b], claim[b], FALSE)]
          /\ UNCHANGED <<mail, served>>
      BY <1>6 DEF LaunchFails
    <3>2. QED
      BY <3>1 DEF TypeOK
  <2>2. \A m \in Message :
           \/ Same(rows'[b][m], rows[b][m])
           \/ /\ m \in HeldRows(rows[b], batch[b], claim[b])
              /\ rows'[b][m].status \in {"dead_letter", "failed"}
    BY <1>1, <2>1, MarkFailedRow DEF Becomes
  <2>3. QED
    BY <2>1, <2>2, TakenByRows DEF Same, HeldRows, mail
<1>7. ASSUME UNCHANGED <<rows, mail, served>>
      PROVE  Taken(b)'
  BY <1>7 DEF Taken, mail
<1>8. CASE \/ FinishRecord(b) \/ Launch(b) \/ Record(b)
           \/ HoldWaking(b) \/ HoldTokenless(b) \/ HoldBlocked(b)
           \/ HoldSettled(b) \/ HoldWorking(b) \/ HoldSubagent(b)
           \/ HoldDegraded(b) \/ HoldRateLimited(b)
  BY <1>7, <1>8
  DEF FinishRecord, Launch, Record, HoldWaking, HoldTokenless, HoldBlocked,
      HoldSettled, HoldWorking, HoldSubagent, HoldDegraded, HoldRateLimited, Hold
<1>9. QED
  BY <1>2, <1>3, <1>4, <1>5, <1>6, <1>8 DEF Tick

\* Of the bindings the worker is not at, it writes nothing.
LEMMA TickSpares ==
    ASSUME TypeOK, NEW b \in Binding, Tick(b), NEW c \in Binding \ {b}
    PROVE  /\ rows'[c] = rows[c] /\ served'[c] = served[c] /\ snap'[c] = snap[c]
           /\ mail' = mail /\ used' = used /\ kind' = kind
<1>1. rows'[c] = rows[c]
  BY TickOthers
<1>2. \/ served' = served
      \/ \E x : served' = [served EXCEPT ![b] = x]
  BY DEF Tick, FinishMark, FinishRecord, Scan, HoldWaking, HoldTokenless,
         HoldBlocked, HoldSettled, HoldWorking, HoldSubagent, HoldDegraded, HoldRateLimited,
         HoldNotReady, Select, TakeReady, AcquireLease, Launch, LaunchFails,
         Record, Hold
<1>3. \/ snap' = snap
      \/ \E x : snap' = [snap EXCEPT ![b] = x]
      \/ \E w : snap' = [snap EXCEPT ![b].wake = w]
  BY DEF Tick, FinishMark, FinishRecord, Scan, HoldWaking, HoldTokenless,
         HoldBlocked, HoldSettled, HoldWorking, HoldSubagent, HoldDegraded, HoldRateLimited,
         HoldNotReady, Select, TakeReady, AcquireLease, Launch, LaunchFails,
         Record, Hold, Wake
<1>4. snap'[c] = snap[c] /\ served'[c] = served[c]
  BY <1>2, <1>3 DEF TypeOK
<1>5. mail' = mail /\ used' = used /\ kind' = kind
  BY DEF Tick, FinishMark, FinishRecord, Scan, HoldWaking, HoldTokenless,
         HoldBlocked, HoldSettled, HoldWorking, HoldSubagent, HoldDegraded, HoldRateLimited,
         HoldNotReady, Select, TakeReady, AcquireLease, Launch, LaunchFails,
         Record, Hold
<1>6. QED
  BY <1>1, <1>4, <1>5

\* No step writes a message off unread.
LEMMA NextTaken ==
    ASSUME TypeOK, Ownership, ~SignalUnreadable, AllTaken, Next
    PROVE  AllTaken'
<1> SUFFICES ASSUME NEW c \in Binding PROVE Taken(c)'
  BY DEF AllTaken
<1>1. Taken(c) /\ GoodRows(rows[c])
  BY DEF AllTaken, TypeOK, GoodRows
<1>2. ASSUME NEW b \in Binding, Tick(b) PROVE Taken(c)'
  <2>1. CASE b = c
    BY <1>1, <1>2, <2>1, TickTaken
  <2>2. CASE b # c
    BY <1>1, <1>2, <2>2, TickSpares DEF Taken, mail
  <2>3. QED
    BY <2>1, <2>2
<1>3. CASE TimePasses
  <2>1. \A m \in Message : rows'[c][m].status = rows[c][m].status
    BY <1>1, <1>3, ElapseRow DEF TimePasses, Same
  <2>2. QED
    BY <1>1, <1>3, <2>1, TakenByRows DEF TimePasses, mail
<1>4. ASSUME NEW b \in Binding, NEW m \in Message, OperatorRequeue(b, m)
      PROVE  Taken(c)'
  <2>1. \/ rows'[c] = rows[c]
        \/ CanRequeue(rows[c], m) /\ rows'[c] = Requeue(rows[c], m)
    BY <1>4 DEF OperatorRequeue, TypeOK
  <2>2. \A n \in Message :
           \/ rows'[c][n].status = rows[c][n].status
           \/ rows[c][n].status # "absent" /\ rows'[c][n].status = "pending"
    BY <1>1, <2>1, RequeueRow DEF Same, Becomes, CanRequeue
  <2>3. QED
    BY <1>1, <1>4, <2>2, TakenByRows DEF OperatorRequeue, mail
<1>5. ASSUME NEW b \in Binding, Fetch(b)
      PROVE  Taken(c)'
  BY <1>1, <1>5 DEF Fetch, Taken, TypeOK
<1>6. ASSUME NEW b \in Binding, NEW m \in Message, Emit(b, m)
      PROVE  Taken(c)'
  BY <1>1, <1>6 DEF Emit, Taken, TypeOK
<1>7. ASSUME UNCHANGED <<rows, mail, served>>
      PROVE  Taken(c)'
  BY <1>1, <1>7 DEF Taken, mail
<1>8. ASSUME NEW b \in Binding,
             \/ MarkDormant(b) \/ StartTurn(b) \/ EndTurn(b)
             \/ \E o \in Owner : Prompt(b, o) \/ Stop(b, o)
             \/ \E o \in Owner, outcome \in Outcome : Exit(b, o, outcome)
      PROVE  Taken(c)'
  BY <1>7, <1>8 DEF MarkDormant, StartTurn, EndTurn, Prompt, Stop, Exit
<1>9. CASE TickStart \/ ProcessEvent \/ ReplayRetry \/ Crash \/ Restart \/ LoadSpool
  BY <1>7, <1>9, EventFrame DEF TickStart, Crash, Restart, LoadSpool
<1>10. QED
  BY <1>2, <1>3, <1>4, <1>5, <1>6, <1>8, <1>9 DEF Next, Worker, Session, Outside

\* As long as no signal file fails to be read, a delivered message was taken by
\* the agent's fetch_inbox or given to a resume process that exited well.
THEOREM DeliveredMeansTakenTheorem ==
    ~SignalUnreadable => (Spec => []DeliveredMeansTaken)
<1> SUFFICES ASSUME ~SignalUnreadable PROVE Spec => []DeliveredMeansTaken
  OBVIOUS
<1>1. Init => AllTaken
  BY DEF Init, AllTaken, Taken, NoRow
<1>2. TypeOK /\ Ownership /\ AllTaken /\ [Next]_vars => AllTaken'
  <2>1. AllTaken /\ UNCHANGED vars => AllTaken'
    BY DEF vars, mail, AllTaken, Taken
  <2>2. QED
    BY <2>1, NextTaken
<1>3. AllTaken => DeliveredMeansTaken
  BY DEF AllTaken, Taken, DeliveredMeansTaken
<1>4. QED
  BY <1>1, <1>2, <1>3, TypeCorrect, OwnershipInvariant, PTL DEF Spec

-----------------------------------------------------------------------------
(* What the dashboard is shown.                                             *)

Settled(b) == \A m \in Message : rows[b][m].status \in {"absent", "delivered"}

\* While the daemon has not crashed: "waking" is an attempt in flight, and a
\* session left idle has no row that is open, or that the operator may reopen.
Shown(b) ==
    /\ snap[b].wake = "waking" <=> InFlight(b)
    /\ stage[b] = "idle" /\ snap[b].wake = "idle" => Settled(b)

\* Without a token no wake of a session is ever begun.
Unwoken(b) ==
    kind[b] = "tokenless" =>
        /\ \A m \in Message : rows[b][m].status \in {"absent", "pending", "delivered"}
        /\ ~InFlight(b)
        /\ stage[b] \in {"idle", "scan", "gate"}

AllShown == \A b \in Binding : Unwoken(b) /\ (used.crashes = 0 => Shown(b))

\* What changes neither the place of the worker, nor the attempt, nor the wake
\* status, and reopens no row of a settled session.
LEMMA ShownKept ==
    ASSUME NEW b \in Binding, Unwoken(b), used.crashes = 0 => Shown(b),
           used'.crashes = 0 => used.crashes = 0,
           kind'[b] = kind[b], stage'[b] = stage[b],
           inflight'[b].owner = inflight[b].owner,
           snap'[b].wake = snap[b].wake,
           \A m \in Message :
              \/ rows'[b][m].status = rows[b][m].status
              \/ rows[b][m].status \in {"failed", "dead_letter"}
    PROVE  Unwoken(b)' /\ (used.crashes = 0 => Shown(b))'
BY DEF Unwoken, Shown, Settled, InFlight

\* The worker changes no kind of binding and no count of the faults.
LEMMA TickSparesKind ==
    ASSUME NEW b \in Binding, Tick(b)
    PROVE  kind' = kind /\ used' = used
BY DEF Tick, FinishMark, FinishRecord, Scan, HoldWaking, HoldTokenless,
       HoldBlocked, HoldSettled, HoldWorking, HoldSubagent, HoldDegraded, HoldRateLimited,
       HoldNotReady, Select, TakeReady, AcquireLease, Launch, LaunchFails,
       Record, Hold

\* The steps of the worker at a binding: its rows, and where it goes.
LEMMA TickUnwoken ==
    ASSUME TypeOK, Ownership, NEW b \in Binding, Unwoken(b), Tick(b)
    PROVE  Unwoken(b)'
<1> SUFFICES ASSUME kind[b] = "tokenless" PROVE Unwoken(b)'
  BY TickSparesKind DEF Unwoken
<1>1. GoodRows(rows[b]) /\ Owns(b) /\ ~InFlight(b)
      /\ stage[b] \in {"idle", "scan", "gate"}
  BY DEF TypeOK, GoodRows, Ownership, Unwoken
<1>2. CASE Scan(b)
  <2>1. PICK seen : rows'[b] = ReconcileAbsent(Observe(rows[b], seen), seen)
    BY <1>2 DEF Scan, TypeOK
  <2>2. \A m \in Message : rows'[b][m].status \in {"absent", "pending", "delivered"}
    BY <1>1, <2>1, ScanRow DEF Same, Becomes, Unwoken
  <2>3. stage'[b] = "gate" /\ inflight' = inflight
    BY <1>2 DEF Scan, At, TypeOK
  <2>4. QED
    BY <1>1, <2>2, <2>3 DEF Unwoken, InFlight
<1>3. ASSUME NEW w, Hold(b, w)
      PROVE  Unwoken(b)'
  BY <1>1, <1>3 DEF Hold, Done, At, Unwoken, InFlight, TypeOK
<1>4. CASE \/ HoldWaking(b) \/ HoldTokenless(b) \/ HoldBlocked(b)
           \/ HoldSettled(b) \/ HoldWorking(b) \/ HoldSubagent(b)
           \/ HoldDegraded(b) \/ HoldRateLimited(b)
  BY <1>3, <1>4
  DEF HoldWaking, HoldTokenless, HoldBlocked, HoldSettled, HoldWorking,
      HoldSubagent, HoldDegraded, HoldRateLimited
<1>5. ~HoldNotReady(b) /\ ~TakeReady(b)
  BY DEF HoldNotReady, TakeReady, Select, Wakeable, GatePasses
<1>6. /\ ~FinishMark(b) /\ ~FinishRecord(b) /\ ~AcquireLease(b)
      /\ ~Launch(b) /\ ~LaunchFails(b) /\ ~Record(b)
  BY <1>1 DEF FinishMark, FinishRecord, AcquireLease, Launch, LaunchFails,
              Record, Working
<1>7. QED
  BY <1>2, <1>4, <1>5, <1>6 DEF Tick

\* The wake status the worker leaves a binding with is true of it.
LEMMA TickShown ==
    ASSUME TypeOK, Ownership, NEW b \in Binding, Unwoken(b), Shown(b), Tick(b)
    PROVE  Shown(b)'
<1>1. /\ GoodRows(rows[b]) /\ Owns(b)
      /\ snap[b] \in [state : SessionState, wake : WakeStatus]
  BY DEF TypeOK, GoodRows, Ownership
<1>2. CASE FinishMark(b)
  BY <1>2 DEF FinishMark, At, Shown, InFlight, TypeOK
<1>3. CASE FinishRecord(b)
  <2>1. /\ snap'[b].wake = FinishedWake(b) /\ stage'[b] = "scan"
        /\ inflight'[b] = NoAttempt
    BY <1>3 DEF FinishRecord, At, TypeOK
  <2>2. FinishedWake(b) # "waking"
    BY DEF FinishedWake
  <2>3. QED
    BY <2>1, <2>2 DEF Shown, InFlight, NoAttempt
<1>4. CASE Scan(b)
  BY <1>4 DEF Scan, At, Shown, InFlight, TypeOK
<1>5. ASSUME NEW w, Hold(b, w), w = "waking" <=> InFlight(b),
             w = "idle" => Settled(b)
      PROVE  Shown(b)'
  BY <1>1, <1>5 DEF Hold, Wake, Done, At, Shown, Settled, InFlight, TypeOK
<1>6. ~AnyOpen(rows[b]) /\ ~AnyDead(rows[b]) => Settled(b)
  BY <1>1 DEF AnyOpen, AnyDead, Open, Settled, GoodRows, Rows, Row, Status
<1>7. CASE HoldWaking(b)
  BY <1>5, <1>7 DEF HoldWaking
<1>8. CASE HoldTokenless(b)
  <2>1. ~AnyOpen(rows[b]) => Settled(b)
    BY <1>8 DEF HoldTokenless, AnyOpen, Open, Unwoken, Settled
  <2>2. ~InFlight(b) /\ snap[b].wake # "waking"
    BY <1>8 DEF HoldTokenless, Shown
  <2>3. CASE AnyOpen(rows[b])
    <3>1. Hold(b, "identity_auth_required")
      BY <1>8, <2>3 DEF HoldTokenless
    <3>2. QED
      BY <1>5, <2>2, <3>1
  <2>4. CASE ~AnyOpen(rows[b])
    <3>1. Hold(b, snap[b].wake)
      BY <1>8, <2>4 DEF HoldTokenless
    <3>2. QED
      BY <1>5, <2>1, <2>2, <2>4, <3>1
  <2>5. QED
    BY <2>3, <2>4
<1>9. CASE HoldSettled(b)
  <2>1. ~InFlight(b) /\ ~AnyOpen(rows[b])
    BY <1>9 DEF HoldSettled, GatePasses
  <2>2. CASE AnyDead(rows[b])
    <3>1. Hold(b, "dead_letter")
      BY <1>9, <2>2 DEF HoldSettled
    <3>2. QED
      BY <1>5, <2>1, <3>1
  <2>3. CASE ~AnyDead(rows[b])
    <3>1. Hold(b, "idle")
      BY <1>9, <2>3 DEF HoldSettled
    <3>2. QED
      BY <1>5, <1>6, <2>1, <2>3, <3>1
  <2>4. QED
    BY <2>2, <2>3
<1>10. CASE \/ HoldBlocked(b) \/ HoldWorking(b) \/ HoldSubagent(b)
            \/ HoldDegraded(b) \/ HoldRateLimited(b)
  <2>1. ~InFlight(b) /\ \E w \in {"blocked", "pending"} : Hold(b, w)
    BY <1>10 DEF HoldBlocked, HoldWorking, HoldSubagent, HoldDegraded, HoldRateLimited,
                 Wakeable, GatePasses
  <2>2. QED
    BY <1>5, <2>1
<1>11. CASE HoldNotReady(b)
  <2>1. /\ snap'[b].wake \in {"wake_failed", "pending"}
        /\ inflight' = inflight /\ ~InFlight(b)
    BY <1>1, <1>11 DEF HoldNotReady, Select, Wakeable, GatePasses, Wake, TypeOK
  <2>2. QED
    BY <2>1 DEF Shown, InFlight
<1>12. CASE TakeReady(b)
  BY <1>12 DEF TakeReady, Select, At, Shown, InFlight, TypeOK
<1>13. CASE AcquireLease(b)
  BY <1>13 DEF AcquireLease, At, Shown, InFlight, TypeOK
<1>14. CASE Launch(b)
  BY <1>14 DEF Launch, At, Shown, InFlight, TypeOK
<1>15. CASE LaunchFails(b)
  <2>1. /\ snap'[b].wake \in {"dead_letter", "wake_failed"}
        /\ inflight' = inflight /\ ~InFlight(b)
    BY <1>1, <1>15 DEF LaunchFails, Working, Wake, TypeOK, Owns
  <2>2. QED
    BY <2>1 DEF Shown, InFlight
<1>16. CASE Record(b)
  <2>1. claim[b] \in Owner
    BY <1>1, <1>16 DEF Record, Working, Owns
  <2>2. snap'[b].wake = "waking" /\ inflight'[b].owner = claim[b]
    BY <1>16 DEF Record, TypeOK
  <2>3. QED
    BY <2>1, <2>2, OwnerAssumption DEF Shown, InFlight
<1>17. QED
  BY <1>2, <1>3, <1>4, <1>7, <1>8, <1>9, <1>10, <1>11, <1>12, <1>13, <1>14,
     <1>15, <1>16 DEF Tick

\* And what the others do leaves it true.
LEMMA NextShown ==
    ASSUME TypeOK, Ownership, AllShown, Next
    PROVE  AllShown'
<1> SUFFICES ASSUME NEW c \in Binding
             PROVE  Unwoken(c)' /\ (used.crashes = 0 => Shown(c))'
  BY DEF AllShown
<1>1. Unwoken(c) /\ (used.crashes = 0 => Shown(c)) /\ GoodRows(rows[c])
  BY DEF AllShown, TypeOK, GoodRows
<1>2. ASSUME NEW b \in Binding, Tick(b)
      PROVE  Unwoken(c)' /\ (used.crashes = 0 => Shown(c))'
  <2>1. CASE b = c
    BY <1>1, <1>2, <2>1, TickUnwoken, TickShown, TickSparesKind
  <2>2. CASE b # c
    <3>1. /\ rows'[c] = rows[c] /\ inflight'[c] = inflight[c]
          /\ stage'[c] = stage[c] /\ snap'[c] = snap[c]
          /\ used' = used /\ kind' = kind
      BY <1>2, <2>2, TickOthers, TickSpares
    <3>2. QED
      BY <1>1, <3>1, ShownKept
  <2>3. QED
    BY <2>1, <2>2
<1>3. CASE TickStart
  BY <1>1, <1>3 DEF TickStart, WorkerFree, Unwoken, Shown, Settled, InFlight
<1>4. CASE Crash
  <2>1. used'.crashes # 0
    BY <1>4 DEF Crash, TypeOK
  <2>2. QED
    BY <1>1, <1>4, <2>1 DEF Crash, Unwoken, InFlight, NoAttempt
<1>5. CASE TimePasses
  <2>1. \A m \in Message : rows'[c][m].status = rows[c][m].status
    BY <1>1, <1>5, ElapseRow DEF TimePasses, Same
  <2>2. QED
    BY <1>1, <1>5, <2>1, ShownKept DEF TimePasses, worker
<1>6. ASSUME NEW b \in Binding, NEW m \in Message, OperatorRequeue(b, m)
      PROVE  Unwoken(c)' /\ (used.crashes = 0 => Shown(c))'
  <2>1. \/ rows'[c] = rows[c]
        \/ CanRequeue(rows[c], m) /\ rows'[c] = Requeue(rows[c], m)
    BY <1>6 DEF OperatorRequeue, TypeOK
  <2>2. \A n \in Message :
           \/ rows'[c][n].status = rows[c][n].status
           \/ rows[c][n].status \in {"failed", "dead_letter"}
    BY <1>1, <2>1, RequeueRow DEF Same, CanRequeue
  <2>3. used'.crashes = used.crashes
    BY <1>6 DEF OperatorRequeue, TypeOK
  <2>4. QED
    BY <1>1, <1>6, <2>2, <2>3, ShownKept DEF OperatorRequeue, worker
<1>7. CASE ProcessEvent \/ ReplayRetry
  BY <1>1, <1>7, EventSpares, ShownKept DEF worker
<1>8. ASSUME NEW b \in Binding, MarkDormant(b)
      PROVE  Unwoken(c)' /\ (used.crashes = 0 => Shown(c))'
  <2>1. snap'[c].wake = snap[c].wake
    BY <1>8 DEF MarkDormant, TypeOK
  <2>2. QED
    BY <1>1, <1>8, <2>1, ShownKept DEF MarkDormant, worker
<1>9. ASSUME NEW b \in Binding, StartTurn(b)
      PROVE  Unwoken(c)' /\ (used.crashes = 0 => Shown(c))'
  <2>1. used'.crashes = used.crashes
    BY <1>9 DEF StartTurn, TypeOK
  <2>2. QED
    BY <1>1, <1>9, <2>1, ShownKept DEF StartTurn, worker
<1>10. ASSUME UNCHANGED <<rows, snap, inflight, stage, kind, used>>
       PROVE  Unwoken(c)' /\ (used.crashes = 0 => Shown(c))'
  BY <1>1, <1>10, ShownKept
<1>11. ASSUME NEW b \in Binding,
             \/ EndTurn(b) \/ Fetch(b)
             \/ \E o \in Owner : Prompt(b, o) \/ Stop(b, o)
             \/ \E o \in Owner, outcome \in Outcome : Exit(b, o, outcome)
             \/ \E m \in Message : Emit(b, m)
      PROVE  Unwoken(c)' /\ (used.crashes = 0 => Shown(c))'
  BY <1>10, <1>11 DEF EndTurn, Fetch, Prompt, Stop, Exit, Emit, worker
<1>12. CASE Restart \/ LoadSpool
  BY <1>10, <1>12 DEF Restart, LoadSpool, worker
<1>13. QED
  BY <1>2, <1>3, <1>4, <1>5, <1>6, <1>7, <1>8, <1>9, <1>11, <1>12
  DEF Next, Worker, Session, Outside

\* Between two ticks of a daemon that has not crashed the dashboard shows
\* "waking" exactly for the sessions with a wake in flight, and "idle" for none
\* with mail still to deliver.
THEOREM DashboardTruthfulTheorem == Spec => []DashboardTruthful
<1>1. Init => AllShown
  BY DEF Init, AllShown, Unwoken, Shown, Settled, InFlight, NoAttempt, NoRow
<1>2. TypeOK /\ Ownership /\ AllShown /\ [Next]_vars => AllShown'
  <2>1. AllShown /\ UNCHANGED vars => AllShown'
    BY DEF vars, worker, AllShown, Unwoken, Shown, Settled, InFlight
  <2>2. QED
    BY <2>1, NextShown
<1>3. AllShown => DashboardTruthful
  BY DEF AllShown, Shown, Settled, DashboardTruthful, WorkerFree, AnyOpen, Open
<1>4. QED
  BY <1>1, <1>2, <1>3, TypeCorrect, OwnershipInvariant, PTL DEF Spec

-----------------------------------------------------------------------------
(* The wakes within the hour.                                               *)

\* A wake on its way to be recorded still has room in the hour.
Limited(b) ==
    /\ Len(hist[b]) <= WakesPerHour
    /\ stage[b] \in {"acquire", "launch", "record"}
       => Len(hist[b]) < WakesPerHour

AllLimited == \A b \in Binding : Limited(b)

\* A history that grows no longer, and a worker that comes no nearer to a wake.
LEMMA LimitedKept ==
    ASSUME TypeOK, TypeOK', NEW c \in Binding, Limited(c),
           hist'[c] = hist[c] \/ Len(hist'[c]) <= Len(hist[c]),
           \/ stage'[c] = stage[c]
           \/ stage'[c] \notin {"acquire", "launch", "record"}
    PROVE  Limited(c)'
<1>1. Len(hist[c]) \in Nat /\ Len(hist'[c]) \in Nat /\ WakesPerHour \in Nat
  BY TimingAssumption DEF TypeOK
<1>2. QED
  BY <1>1 DEF Limited

\* The worker looks at the history before it takes a wake, and adds to it last.
LEMMA TickLimited ==
    ASSUME TypeOK, TypeOK', NEW b \in Binding, Tick(b),
           NEW c \in Binding, Limited(c)
    PROVE  Limited(c)'
<1>1. CASE b # c
  <2>1. hist' = hist \/ \E x : hist' = [hist EXCEPT ![b] = x]
    BY DEF Tick, FinishMark, FinishRecord, Scan, HoldWaking, HoldTokenless,
           HoldBlocked, HoldSettled, HoldWorking, HoldSubagent,
           HoldDegraded, HoldRateLimited, HoldNotReady, Select, TakeReady, AcquireLease,
           Launch, LaunchFails, Record, Hold
  <2>2. hist'[c] = hist[c] /\ stage'[c] = stage[c]
    BY <1>1, <2>1, TickOthers DEF TypeOK
  <2>3. QED
    BY <2>2, LimitedKept
<1>2. CASE b = c
  <2>1. CASE \/ FinishMark(b) \/ FinishRecord(b) \/ Scan(b)
             \/ HoldNotReady(b) \/ LaunchFails(b)
    <3>1. /\ hist' = hist
          /\ \E s \in {"marked", "scan", "gate", "idle"} :
                stage' = [stage EXCEPT ![b] = s]
      BY <2>1 DEF FinishMark, FinishRecord, Scan, HoldNotReady, Select,
                  LaunchFails, Done, At
    <3>2. stage'[b] \in {"marked", "scan", "gate", "idle"}
      BY <3>1 DEF TypeOK
    <3>3. QED
      BY <1>2, <3>1, <3>2, LimitedKept
  <2>2. CASE \/ HoldWaking(b) \/ HoldTokenless(b) \/ HoldBlocked(b)
             \/ HoldSettled(b) \/ HoldWorking(b) \/ HoldSubagent(b)
             \/ HoldDegraded(b) \/ HoldRateLimited(b)
    <3>1. \E w : Hold(b, w)
      BY <2>2 DEF HoldWaking, HoldTokenless, HoldBlocked, HoldSettled,
                  HoldWorking, HoldSubagent, HoldDegraded, HoldRateLimited
    <3>2. hist' = hist /\ stage'[b] = "idle"
      BY <3>1 DEF Hold, Done, At, TypeOK
    <3>3. QED
      BY <1>2, <3>2, LimitedKept
  <2>3. CASE TakeReady(b)
    <3>1. hist' = hist /\ Len(hist[b]) < WakesPerHour
      BY <2>3 DEF TakeReady, Select, WakesThisHour
    <3>2. QED
      BY <1>2, <3>1 DEF Limited
  <2>4. CASE AcquireLease(b) \/ Launch(b)
    <3>1. hist' = hist /\ stage[b] \in {"acquire", "launch"}
      BY <2>4 DEF AcquireLease, Launch, Working
    <3>2. QED
      BY <1>2, <3>1 DEF Limited
  <2>5. CASE Record(b)
    <3>1. /\ hist[b] \in Seq(Nat) /\ hist'[b] = Append(hist[b], 0)
          /\ stage[b] = "record" /\ stage'[b] = "idle"
      BY <2>5 DEF Record, Working, Done, At, TypeOK
    <3>2. Len(hist[b]) \in Nat /\ Len(hist'[b]) = Len(hist[b]) + 1
      BY <3>1
    <3>3. Len(hist[b]) < WakesPerHour
      BY <1>2, <3>1 DEF Limited
    <3>4. QED
      BY <1>2, <3>1, <3>2, <3>3, TimingAssumption DEF Limited
  <2>6. QED
    BY <2>1, <2>2, <2>3, <2>4, <2>5 DEF Tick
<1>3. QED
  BY <1>1, <1>2

\* Nobody else adds to the history; time and a crash only shorten it.
LEMMA NextLimited ==
    ASSUME TypeOK, TypeOK', AllLimited, Next
    PROVE  AllLimited'
<1> SUFFICES ASSUME NEW c \in Binding PROVE Limited(c)'
  BY DEF AllLimited
<1>1. Limited(c) /\ hist[c] \in Seq(Nat)
  BY DEF AllLimited, TypeOK
<1>2. ASSUME NEW b \in Binding, Tick(b) PROVE Limited(c)'
  BY <1>1, <1>2, TickLimited
<1>3. CASE TickStart
  <2>1. hist' = hist /\ stage'[c] \in {"finish", "scan"}
    BY <1>3 DEF TickStart
  <2>2. QED
    BY <1>1, <2>1, LimitedKept
<1>4. CASE Crash
  <2>1. Len(hist'[c]) = 0 /\ stage'[c] = "idle"
    BY <1>4 DEF Crash
  <2>2. QED
    BY <2>1, TimingAssumption DEF Limited
<1>5. CASE TimePasses
  <2>1. Len(hist'[c]) <= Len(hist[c]) /\ stage' = stage
    BY <1>1, <1>5, TrimmedShorter DEF TimePasses, worker
  <2>2. QED
    BY <1>1, <2>1, LimitedKept
<1>6. CASE UNCHANGED <<hist, stage>>
  BY <1>1, <1>6, LimitedKept
<1>7. ASSUME NEW b \in Binding,
             \/ MarkDormant(b) \/ StartTurn(b) \/ EndTurn(b) \/ Fetch(b)
             \/ \E o \in Owner : Prompt(b, o) \/ Stop(b, o)
             \/ \E o \in Owner, outcome \in Outcome : Exit(b, o, outcome)
             \/ \E m \in Message : Emit(b, m) \/ OperatorRequeue(b, m)
      PROVE  Limited(c)'
  BY <1>6, <1>7 DEF MarkDormant, StartTurn, EndTurn, Fetch, Prompt, Stop, Exit,
                    Emit, OperatorRequeue, worker
<1>8. CASE ProcessEvent \/ ReplayRetry \/ Restart \/ LoadSpool
  BY <1>6, <1>8, EventFrame DEF Restart, LoadSpool, worker
<1>9. QED
  BY <1>2, <1>3, <1>4, <1>5, <1>7, <1>8 DEF Next, Worker, Session, Outside

\* No session is woken more often than WakesPerHour within an hour of the
\* daemon's life: the history is counted when a wake is taken and written only
\* when its process runs, and the single worker does nothing for the session in
\* between.
THEOREM HourlyLimitTheorem == Spec => []HourlyLimit
<1>1. Init => AllLimited
  BY TimingAssumption DEF Init, AllLimited, Limited
<1>2. TypeOK /\ TypeOK' /\ AllLimited /\ [Next]_vars => AllLimited'
  <2>1. AllLimited /\ UNCHANGED vars => AllLimited'
    BY DEF vars, worker, AllLimited, Limited
  <2>2. QED
    BY <2>1, NextLimited
<1>3. AllLimited => HourlyLimit
  BY DEF AllLimited, Limited, HourlyLimit, WakesThisHour
<1>4. QED
  BY <1>1, <1>2, <1>3, TypeCorrect, PTL DEF Spec

-----------------------------------------------------------------------------
(* The attempts of a message.                                               *)

\* The lease of a row is in the hands of a wake: one in flight, or one the
\* worker is about to start.
Carried(b, m) ==
    \/ InFlight(b) /\ stage[b] # "marked" /\ m \in inflight[b].ids
    \/ stage[b] \in {"launch", "record"} /\ m \in batch[b]

Allowance == MaxAttempts + used.crashes

\* A row that may be leased again, now or when its lapsed lease is recovered,
\* has an attempt left.
Spent(b) ==
    \A m \in Message :
        /\ rows[b][m].attempts <= Allowance
        /\ \/ rows[b][m].status \in {"pending", "failed"}
           \/ rows[b][m].status = "leased" /\ ~Carried(b, m)
           => rows[b][m].attempts < Allowance

AllSpent == \A b \in Binding : Spent(b)

\* What is known of the numbers.
LEMMA AllowanceNat ==
    ASSUME TypeOK
    PROVE  /\ Allowance \in Nat /\ MaxAttempts <= Allowance /\ 0 < Allowance
           /\ \A b \in Binding, m \in Message : rows[b][m].attempts \in Nat
<1>1. rows \in [Binding -> Rows] /\ used.crashes \in Nat
  BY DEF TypeOK
<1>2. QED
  BY <1>1, PolicyAssumption DEF Allowance, Rows, Row

\* What makes no attempt and drops no lease.
LEMMA SpentKept ==
    ASSUME TypeOK, NEW b \in Binding, Spent(b), Allowance' = Allowance,
           \A m \in Message :
              \/ rows'[b][m].attempts = 0
              \/ /\ rows'[b][m].attempts = rows[b][m].attempts
                 /\ \/ rows'[b][m].status = rows[b][m].status
                    \/ rows'[b][m].status \notin {"pending", "failed", "leased"},
           \A m \in Message : Carried(b, m) => Carried(b, m)'
    PROVE  Spent(b)'
BY AllowanceNat DEF Spent

\* The steps of the worker: only acquire counts, and it counts a row that has
\* an attempt left.
LEMMA TickSpent ==
    ASSUME TypeOK, Ownership, NEW b \in Binding, Spent(b), Tick(b)
    PROVE  Spent(b)'
<1>1. /\ GoodRows(rows[b]) /\ Owns(b) /\ Allowance' = Allowance /\ Allowance \in Nat
      /\ MaxAttempts <= Allowance /\ 0 < Allowance /\ MaxAttempts \in Nat
      /\ \A m \in Message : rows[b][m].attempts \in Nat
  BY TickSparesKind, AllowanceNat, PolicyAssumption
  DEF TypeOK, GoodRows, Ownership, Allowance
<1>2. CASE FinishMark(b)
  <2> DEFINE o == inflight[b].owner
             ids == inflight[b].ids
  <2>1. /\ stage[b] = "finish" /\ stage'[b] = "marked" /\ inflight' = inflight
        /\ \/ rows'[b] = MarkDelivered(rows[b], ids, o)
           \/ \E t : rows'[b] = MarkFailed(rows[b], ids, o, t)
    BY <1>2 DEF FinishMark, Working, At, TypeOK
  <2>2. \A m \in Message : Carried(b, m) => m \in HeldRows(rows[b], ids, o)
    BY <1>1, <2>1 DEF Carried, Owns, Holds, HeldRows
  <2>3. ASSUME NEW m \in Message, m \notin HeldRows(rows[b], ids, o)
        PROVE  Same(rows'[b][m], rows[b][m])
    BY <1>1, <2>1, <2>3, MarkDeliveredRow, MarkFailedRow
  <2>4. ASSUME NEW m \in HeldRows(rows[b], ids, o)
        PROVE  \/ rows'[b][m].status \in {"delivered", "dead_letter"}
               \/ rows'[b][m].status = "failed" /\ rows[b][m].attempts < MaxAttempts
    <3>1. m \in Message
      BY DEF HeldRows
    <3>2. QED
      BY <1>1, <2>1, <3>1, MarkDeliveredRow, MarkFailedRow, FailedHasAttempts DEF Becomes
  <2>5. \A m \in Message : rows'[b][m].attempts = rows[b][m].attempts
    BY <1>1, <2>1, AttemptsKept
  <2>6. QED
    BY <1>1, <2>2, <2>3, <2>4, <2>5 DEF Spent, Same
<1>3. CASE FinishRecord(b)
  <2>1. /\ stage[b] = "marked" /\ rows' = rows /\ batch' = batch
    BY <1>3 DEF FinishRecord, Working
  <2>2. QED
    BY <1>1, <2>1, SpentKept DEF Carried
<1>4. CASE Scan(b)
  <2>1. PICK seen : rows'[b] = ReconcileAbsent(Observe(rows[b], seen), seen)
    BY <1>4 DEF Scan, TypeOK
  <2>2. \A m \in Message : Carried(b, m) => Carried(b, m)'
    BY <1>4 DEF Scan, Working, At, Carried, InFlight, TypeOK
  <2>3. ASSUME NEW m \in Message
        PROVE  \/ rows'[b][m].attempts = 0
               \/ /\ rows'[b][m].attempts = rows[b][m].attempts
                  /\ \/ rows'[b][m].status = rows[b][m].status
                     \/ rows'[b][m].status \notin {"pending", "failed", "leased"}
    <3>1. CASE m \in seen /\ rows[b][m].status = "absent"
      BY <1>1, <2>1, <3>1, ObservedUntried
    <3>2. CASE ~(m \in seen /\ rows[b][m].status = "absent")
      <4>1. \/ rows'[b][m].attempts = 0
            \/ rows'[b][m].attempts = rows[b][m].attempts
        BY <1>1, <2>1, AttemptsKept
      <4>2. rows'[b][m].status \in {rows[b][m].status, "delivered"}
        BY <1>1, <2>1, <3>2, ScanRow DEF Same, Becomes
      <4>3. QED
        BY <4>1, <4>2
    <3>3. QED
      BY <3>1, <3>2
  <2>4. QED
    BY <1>1, <2>2, <2>3, SpentKept
<1>5. ASSUME NEW w, Hold(b, w)
      PROVE  Spent(b)'
  <2>1. /\ stage[b] = "gate" /\ rows' = rows /\ inflight' = inflight
        /\ stage'[b] = "idle"
    BY <1>5 DEF Hold, Gate, Working, Done, At, TypeOK
  <2>2. QED
    BY <1>1, <2>1, SpentKept DEF Carried, InFlight
<1>6. CASE \/ HoldWaking(b) \/ HoldTokenless(b) \/ HoldBlocked(b)
           \/ HoldSettled(b) \/ HoldWorking(b) \/ HoldSubagent(b)
           \/ HoldDegraded(b) \/ HoldRateLimited(b)
  BY <1>5, <1>6
  DEF HoldWaking, HoldTokenless, HoldBlocked, HoldSettled, HoldWorking,
      HoldSubagent, HoldDegraded, HoldRateLimited
<1>7. CASE HoldNotReady(b) \/ TakeReady(b)
  <2>1. /\ stage[b] = "gate" /\ ~InFlight(b) /\ rows'[b] = Recovered(b)
    BY <1>7 DEF HoldNotReady, TakeReady, Select, Gate, Working, Wakeable,
                GatePasses, TypeOK
  <2>2. \A m \in Message : ~Carried(b, m)
    BY <2>1 DEF Carried
  <2>3. \A m \in Message :
           /\ rows'[b][m].attempts = rows[b][m].attempts
           /\ \/ rows[b][m].status \in {"leased", "failed"}
              \/ rows'[b][m].status = rows[b][m].status
    BY <1>1, <2>1, RecoverRow, AttemptsKept DEF Recovered, Same
  <2>4. QED
    BY <1>1, <2>2, <2>3 DEF Spent
<1>8. CASE AcquireLease(b)
  <2>1. PICK o \in Owner :
          /\ rows'[b] = Acquire(rows[b], batch[b], o)
          /\ batch'[b] = Acquirable(rows[b], batch[b])
          /\ stage[b] = "acquire" /\ stage'[b] = "launch" /\ inflight' = inflight
    BY <1>8 DEF AcquireLease, Working, At, TypeOK
  <2>2. ~InFlight(b) /\ \A m \in Message : ~Carried(b, m)
    BY <1>1, <2>1 DEF Owns, Carried
  <2>3. ASSUME NEW m \in Message, m \in Acquirable(rows[b], batch[b])
        PROVE  /\ rows'[b][m].attempts <= Allowance
               /\ rows'[b][m].status = "leased" /\ Carried(b, m)'
    <3>1. rows[b][m].status = "pending" /\ rows'[b][m].attempts = rows[b][m].attempts + 1
      BY <1>1, <2>1, <2>3, AcquiredAttempts DEF Acquirable
    <3>2. rows[b][m].attempts + 1 <= Allowance
      BY <1>1, <3>1 DEF Spent
    <3>3. rows'[b][m].status = "leased"
      BY <1>1, <2>1, <2>3, AcquireRow DEF Becomes
    <3>4. QED
      BY <2>1, <2>3, <3>1, <3>2, <3>3 DEF Carried
  <2>4. ASSUME NEW m \in Message, m \notin Acquirable(rows[b], batch[b])
        PROVE  /\ rows'[b][m].attempts = rows[b][m].attempts
               /\ rows'[b][m].status = rows[b][m].status
    BY <1>1, <2>1, <2>4, AcquiredAttempts, AcquireRow DEF Same
  <2>5. QED
    BY <1>1, <2>2, <2>3, <2>4 DEF Spent
<1>9. CASE Launch(b)
  <2>1. /\ rows' = rows /\ inflight' = inflight /\ batch' = batch
        /\ stage[b] = "launch" /\ stage'[b] = "record"
    BY <1>9 DEF Launch, Working, At, TypeOK
  <2>2. QED
    BY <1>1, <2>1, SpentKept DEF Carried, InFlight
<1>10. CASE LaunchFails(b)
  <2>1. /\ \E t : rows' = [rows EXCEPT ![b] =
                              MarkFailed(rows[b], batch[b], claim[b], t)]
        /\ inflight' = inflight /\ stage[b] = "launch" /\ stage'[b] = "idle"
    BY <1>10 DEF LaunchFails, Working, Done, At, TypeOK
  <2>2. PICK t : rows'[b] = MarkFailed(rows[b], batch[b], claim[b], t)
    BY <2>1 DEF TypeOK
  <2>3. \A m \in Message : Carried(b, m) => m \in HeldRows(rows[b], batch[b], claim[b])
    BY <1>1, <2>1 DEF Carried, Owns, Holds, HeldRows
  <2>4. ASSUME NEW m \in Message, m \notin HeldRows(rows[b], batch[b], claim[b])
        PROVE  Same(rows'[b][m], rows[b][m])
    BY <1>1, <2>2, <2>4, MarkFailedRow
  <2>5. ASSUME NEW m \in HeldRows(rows[b], batch[b], claim[b])
        PROVE  \/ rows'[b][m].status = "dead_letter"
               \/ rows'[b][m].status = "failed" /\ rows[b][m].attempts < MaxAttempts
    <3>1. m \in Message
      BY DEF HeldRows
    <3>2. QED
      BY <1>1, <2>2, <3>1, MarkFailedRow, FailedHasAttempts DEF Becomes
  <2>6. \A m \in Message : rows'[b][m].attempts = rows[b][m].attempts
    BY <1>1, <2>2, AttemptsKept
  <2>7. QED
    BY <1>1, <2>3, <2>4, <2>5, <2>6 DEF Spent, Same
<1>11. CASE Record(b)
  <2>1. /\ rows' = rows /\ stage[b] = "record" /\ stage'[b] = "idle"
        /\ inflight'[b].owner = claim[b] /\ inflight'[b].ids = batch[b]
    BY <1>11 DEF Record, Working, Done, At, TypeOK
  <2>2. ~InFlight(b) /\ claim[b] \in Owner
    BY <1>1, <2>1 DEF Owns
  <2>3. QED
    BY <1>1, <2>1, <2>2, SpentKept, OwnerAssumption DEF Carried, InFlight
<1>12. QED
  BY <1>2, <1>3, <1>4, <1>6, <1>7, <1>8, <1>9, <1>10, <1>11 DEF Tick

\* A crash drops leases, and allows one attempt more.
LEMMA NextSpent ==
    ASSUME TypeOK, Ownership, AllSpent, Next
    PROVE  AllSpent'
<1> SUFFICES ASSUME NEW c \in Binding PROVE Spent(c)'
  BY DEF AllSpent
<1>1. /\ Spent(c) /\ GoodRows(rows[c]) /\ Allowance \in Nat /\ 0 < Allowance
      /\ \A m \in Message : rows[c][m].attempts \in Nat
  BY AllowanceNat DEF AllSpent, TypeOK, GoodRows
<1>2. ASSUME NEW b \in Binding, Tick(b) PROVE Spent(c)'
  <2>1. CASE b = c
    BY <1>1, <1>2, <2>1, TickSpent
  <2>2. CASE b # c
    <3>1. /\ rows'[c] = rows[c] /\ inflight'[c] = inflight[c] /\ stage'[c] = stage[c]
          /\ batch'[c] = batch[c] /\ Allowance' = Allowance
      BY <1>2, <2>2, TickOthers, TickSpares DEF Allowance
    <3>2. QED
      BY <1>1, <3>1, SpentKept DEF Carried, InFlight
  <2>3. QED
    BY <2>1, <2>2
<1>3. CASE TickStart
  <2>1. /\ rows' = rows /\ inflight' = inflight /\ used' = used
        /\ stage[c] = "idle" /\ stage'[c] # "marked"
    BY <1>3 DEF TickStart, WorkerFree
  <2>2. QED
    BY <1>1, <2>1, SpentKept DEF Carried, InFlight, Allowance
<1>4. CASE Crash
  <2>1. rows' = rows /\ Allowance' = Allowance + 1
    BY <1>4, PolicyAssumption DEF Crash, Allowance, TypeOK
  <2>2. QED
    BY <1>1, <2>1 DEF Spent
<1>5. CASE TimePasses
  <2>1. \A m \in Message : /\ rows'[c][m].status = rows[c][m].status
                           /\ rows'[c][m].attempts = rows[c][m].attempts
    BY <1>1, <1>5, ElapseRow, AttemptsKept DEF TimePasses, Same
  <2>2. Allowance' = Allowance /\ \A m \in Message : Carried(c, m) => Carried(c, m)'
    BY <1>5 DEF TimePasses, Allowance, Carried, InFlight, worker
  <2>3. QED
    BY <1>1, <2>1, <2>2, SpentKept
<1>6. ASSUME NEW b \in Binding, NEW m \in Message, OperatorRequeue(b, m)
      PROVE  Spent(c)'
  <2>1. \/ rows'[c] = rows[c]
        \/ rows'[c] = Requeue(rows[c], m)
    BY <1>6 DEF OperatorRequeue, TypeOK
  <2>2. \A n \in Message :
           \/ rows'[c][n].attempts = 0
           \/ /\ rows'[c][n].status = rows[c][n].status
              /\ rows'[c][n].attempts = rows[c][n].attempts
    BY <1>1, <2>1, RequeueRow, AttemptsKept DEF Same
  <2>3. Allowance' = Allowance /\ \A n \in Message : Carried(c, n) => Carried(c, n)'
    BY <1>6 DEF OperatorRequeue, Allowance, Carried, InFlight, worker, TypeOK
  <2>4. QED
    BY <1>1, <2>2, <2>3, SpentKept
<1>7. CASE ProcessEvent \/ ReplayRetry
  <2>1. /\ rows' = rows /\ Allowance' = Allowance
        /\ \A m \in Message : Carried(c, m) => Carried(c, m)'
    BY <1>7, EventSpares DEF Allowance, Carried, InFlight, worker
  <2>2. QED
    BY <1>1, <2>1, SpentKept
<1>8. ASSUME NEW b \in Binding, StartTurn(b)
      PROVE  Spent(c)'
  <2>1. /\ rows' = rows /\ Allowance' = Allowance
        /\ \A m \in Message : Carried(c, m) => Carried(c, m)'
    BY <1>8 DEF StartTurn, Allowance, Carried, InFlight, worker, TypeOK
  <2>2. QED
    BY <1>1, <2>1, SpentKept
<1>9. ASSUME UNCHANGED <<rows, inflight, stage, batch, used>>
      PROVE  Spent(c)'
  BY <1>1, <1>9, SpentKept DEF Allowance, Carried, InFlight
<1>10. ASSUME NEW b \in Binding,
             \/ MarkDormant(b) \/ EndTurn(b) \/ Fetch(b)
             \/ \E o \in Owner : Prompt(b, o) \/ Stop(b, o)
             \/ \E o \in Owner, outcome \in Outcome : Exit(b, o, outcome)
             \/ \E m \in Message : Emit(b, m)
      PROVE  Spent(c)'
  BY <1>9, <1>10 DEF MarkDormant, EndTurn, Fetch, Prompt, Stop, Exit, Emit, worker
<1>11. CASE Restart \/ LoadSpool
  BY <1>9, <1>11 DEF Restart, LoadSpool, worker
<1>12. QED
  BY <1>2, <1>3, <1>4, <1>5, <1>6, <1>7, <1>8, <1>10, <1>11
  DEF Next, Worker, Session, Outside

\* mark_failed bounds the attempts of a message: one more than MaxAttempts is
\* made only for a wake that a crash of the daemon took the count of.
THEOREM AttemptBoundTheorem == Spec => []AttemptBound
<1>1. Init => AllSpent
  BY PolicyAssumption DEF Init, AllSpent, Spent, Allowance, NoRow
<1>2. TypeOK /\ Ownership /\ AllSpent /\ [Next]_vars => AllSpent'
  <2>1. AllSpent /\ UNCHANGED vars => AllSpent'
    BY DEF vars, worker, AllSpent, Spent, Carried, InFlight, Allowance
  <2>2. QED
    BY <2>1, NextSpent
<1>3. AllSpent => AttemptBound
  BY DEF AllSpent, Spent, AttemptBound, Allowance
<1>4. QED
  BY <1>1, <1>2, <1>3, TypeCorrect, OwnershipInvariant, PTL DEF Spec

-----------------------------------------------------------------------------
(* Two processes for one message.                                           *)

\* A process that has outlived the lease of its rows, or its timeout.
Outlived(b, p) ==
    \/ procs[b][p].age >= LeaseSeconds
    \/ SurvivesTerm /\ procs[b][p].age >= ProcessTimeout

\* A running process that has not holds a lease for what is left of its time.
Guarded(b) ==
    \A p \in Owner : procs[b][p].phase \in Running =>
        \/ Outlived(b, p)
        \/ \A m \in procs[b][p].ids :
              /\ Holds(rows[b][m], p)
              /\ rows[b][m].lease + procs[b][p].age >= LeaseSeconds

\* The lease of a wake about to start is new, and its owner had no process; an
\* attempt is finished when its process has exited or timed out.
Starting(b) ==
    /\ stage[b] = "launch" =>
          /\ procs[b][claim[b]].phase = "none"
          /\ \A m \in batch[b] : rows[b][m].lease = LeaseSeconds
    /\ stage[b] = "finish" => Exited(b) \/ TimedOut(b)

AllGuarded ==
    /\ \A b \in Binding : Guarded(b) /\ Starting(b)
    /\ daemon = "down" => \A b \in Binding : stage[b] = "idle"

\* The lease of a row, and how long it still runs, changes only by its own
\* wake, by its running out, and by the clock.
LEMMA LeaseColumn ==
    ASSUME NEW r, GoodRows(r), NEW m \in Message, NEW o, Holds(r[m], o)
    PROVE  /\ \A seen : ReconcileAbsent(Observe(r, seen), seen)[m] = r[m]
           /\ r[m].lease # 0 => Recover(r)[m] = r[m]
           /\ \A ids, q : Acquire(r, ids, q)[m] = r[m]
           /\ \A ids, q : q # o => MarkDelivered(r, ids, q)[m] = r[m]
           /\ \A ids, q, t : q # o => MarkFailed(r, ids, q, t)[m] = r[m]
           /\ \A n \in Message : CanRequeue(r, n) => Requeue(r, n)[m] = r[m]
           /\ Elapse(r)[m].lease = IF r[m].lease > 0 THEN r[m].lease - 1 ELSE 0
<1>1. r \in Rows /\ r[m] \in Row /\ r[m].status = "leased" /\ r[m].owner = o
  BY DEF Holds, GoodRows, Rows
<1>2. \A seen : ReconcileAbsent(Observe(r, seen), seen)[m] = r[m]
  BY <1>1 DEF ReconcileAbsent, Observe
<1>3. r[m].lease # 0 => Recover(r)[m] = r[m]
  BY <1>1 DEF Recover
<1>4. \A ids, q : Acquire(r, ids, q)[m] = r[m]
  BY <1>1 DEF Acquire, Acquirable
<1>5. \A ids, q : q # o => MarkDelivered(r, ids, q)[m] = r[m]
  BY <1>1 DEF MarkDelivered
<1>6. \A ids, q, t : q # o => MarkFailed(r, ids, q, t)[m] = r[m]
  BY <1>1 DEF MarkFailed
<1>7. \A n \in Message : CanRequeue(r, n) => Requeue(r, n)[m] = r[m]
  BY <1>1 DEF CanRequeue, Requeue, Rows
<1>8. Elapse(r)[m].lease = IF r[m].lease > 0 THEN r[m].lease - 1 ELSE 0
  BY <1>1 DEF Elapse, Row
<1>9. QED
  BY <1>2, <1>3, <1>4, <1>5, <1>6, <1>7, <1>8

\* What is known of the numbers.
LEMMA AgesNat ==
    ASSUME TypeOK, NEW b \in Binding
    PROVE  /\ LeaseSeconds \in Nat \ {0} /\ ProcessTimeout \in Nat
           /\ LeaseSeconds <= MaxAge /\ ProcessTimeout <= MaxAge /\ MaxAge \in Nat
           /\ \A p \in Owner : /\ procs[b][p].age \in 0..MaxAge
                               /\ procs[b][p].ids \subseteq Message
           /\ \A m \in Message : rows[b][m].lease \in 0..LeaseSeconds
           /\ batch[b] \subseteq Message
BY PolicyAssumption, TimingAssumption DEF TypeOK, MaxAge, Proc, Rows, Row

\* A step that leaves a process as it is, or only its phase changes, and does
\* not touch the rows it holds.
LEMMA GuardedKept ==
    ASSUME TypeOK, NEW b \in Binding, Guarded(b),
           \A p \in Owner : procs'[b][p].phase \in Running =>
              /\ procs[b][p].phase \in Running
              /\ procs'[b][p].age = procs[b][p].age
              /\ procs'[b][p].ids = procs[b][p].ids
              /\ \/ Outlived(b, p)
                 \/ \A m \in Message :
                       Holds(rows[b][m], p) => /\ Holds(rows'[b][m], p)
                                               /\ rows'[b][m].lease = rows[b][m].lease
    PROVE  Guarded(b)'
<1> SUFFICES ASSUME NEW p \in Owner, procs'[b][p].phase \in Running, ~Outlived(b, p)'
             PROVE  \A m \in procs'[b][p].ids :
                       /\ Holds(rows'[b][m], p)
                       /\ rows'[b][m].lease + procs'[b][p].age >= LeaseSeconds
  BY DEF Guarded
<1>1. /\ procs[b][p].phase \in Running /\ ~Outlived(b, p)
      /\ procs'[b][p].age = procs[b][p].age /\ procs'[b][p].ids = procs[b][p].ids
  BY DEF Outlived
<1>2. \A m \in procs[b][p].ids :
         /\ Holds(rows[b][m], p)
         /\ rows[b][m].lease + procs[b][p].age >= LeaseSeconds
  BY <1>1 DEF Guarded
<1>3. procs[b][p].ids \subseteq Message
  BY AgesNat
<1>4. QED
  BY <1>1, <1>2, <1>3

\* The place of the worker with b, its process and its attempt are as before.
LEMMA StartingKept ==
    ASSUME NEW b \in Binding, Starting(b),
           stage'[b] = stage[b], batch'[b] = batch[b], claim'[b] = claim[b],
           inflight'[b].owner = inflight[b].owner,
           stage[b] # "idle" => procs'[b] = procs[b] /\ rows'[b] = rows[b]
    PROVE  Starting(b)'
BY DEF Starting, Exited, TimedOut, Process

\* The steps of the worker: a lease is given up by its own wake, or when it ran out.
LEMMA TickGuarded ==
    ASSUME TypeOK, Ownership, NEW b \in Binding, Guarded(b), Starting(b), Tick(b)
    PROVE  Guarded(b)' /\ Starting(b)'
<1>1. GoodRows(rows[b]) /\ Owns(b)
  BY DEF TypeOK, GoodRows, Ownership
<1>2. CASE FinishMark(b)
  <2> DEFINE o == inflight[b].owner
             ids == inflight[b].ids
  <2>1. /\ stage[b] = "finish" /\ stage'[b] = "marked"
        /\ \/ rows'[b] = MarkDelivered(rows[b], ids, o)
           \/ \E t : rows'[b] = MarkFailed(rows[b], ids, o, t)
    BY <1>2 DEF FinishMark, Working, At, TypeOK
  <2>2. o \in Owner /\ (Exited(b) \/ TimedOut(b))
    BY <1>1, <2>1 DEF Owns, Starting, InFlight, TypeOK, Attempt
  <2>3. \/ procs'[b][o] = NoProc
        \/ procs'[b][o] = procs[b][o] /\ SurvivesTerm /\ ~Exited(b)
    BY <1>2, <2>2 DEF FinishMark, TypeOK
  <2>4. \A p \in Owner \ {o} : procs'[b][p] = procs[b][p]
    BY <1>2 DEF FinishMark, TypeOK
  <2>5. ASSUME NEW p \in Owner, procs'[b][p].phase \in Running
        PROVE  /\ procs'[b][p] = procs[b][p]
               /\ p = o => Outlived(b, p)
    BY <2>2, <2>3, <2>4, <2>5 DEF NoProc, Running, Outlived, TimedOut, Process
  <2>6. \A p \in Owner \ {o}, m \in Message :
           Holds(rows[b][m], p) => rows'[b][m] = rows[b][m]
    BY <1>1, <2>1, LeaseColumn
  <2>7. Guarded(b)'
    BY <2>5, <2>6, GuardedKept
  <2>8. QED
    BY <2>1, <2>7 DEF Starting
<1>3. CASE FinishRecord(b)
  <2>1. rows' = rows /\ procs' = procs /\ stage'[b] = "scan"
    BY <1>3 DEF FinishRecord, At, TypeOK
  <2>2. QED
    BY <2>1, GuardedKept DEF Starting
<1>4. CASE Scan(b)
  <2>1. PICK seen : rows'[b] = ReconcileAbsent(Observe(rows[b], seen), seen)
    BY <1>4 DEF Scan, TypeOK
  <2>2. procs' = procs /\ stage'[b] = "gate"
    BY <1>4 DEF Scan, At, TypeOK
  <2>3. \A m \in Message, p \in Owner : Holds(rows[b][m], p) => rows'[b][m] = rows[b][m]
    BY <1>1, <2>1, LeaseColumn
  <2>4. QED
    BY <2>2, <2>3, GuardedKept DEF Starting
<1>5. ASSUME NEW w, Hold(b, w)
      PROVE  Guarded(b)' /\ Starting(b)'
  <2>1. rows' = rows /\ procs' = procs /\ stage'[b] = "idle"
    BY <1>5 DEF Hold, Done, At, TypeOK
  <2>2. QED
    BY <2>1, GuardedKept DEF Starting
<1>6. CASE \/ HoldWaking(b) \/ HoldTokenless(b) \/ HoldBlocked(b)
           \/ HoldSettled(b) \/ HoldWorking(b) \/ HoldSubagent(b)
           \/ HoldDegraded(b) \/ HoldRateLimited(b)
  BY <1>5, <1>6
  DEF HoldWaking, HoldTokenless, HoldBlocked, HoldSettled, HoldWorking,
      HoldSubagent, HoldDegraded, HoldRateLimited
<1>7. CASE HoldNotReady(b) \/ TakeReady(b)
  <2>1. rows'[b] = Recovered(b) /\ procs' = procs /\ stage'[b] \in {"idle", "acquire"}
    BY <1>7 DEF HoldNotReady, TakeReady, Select, Done, At, TypeOK
  <2>2. ASSUME NEW p \in Owner, procs[b][p].phase \in Running, ~Outlived(b, p),
               NEW m \in Message, Holds(rows[b][m], p)
        PROVE  rows'[b][m] = rows[b][m] \/ m \notin procs[b][p].ids
    <3>1. m \in procs[b][p].ids => rows[b][m].lease # 0
      BY <2>2, AgesNat DEF Guarded, Outlived
    <3>2. QED
      BY <1>1, <2>1, <2>2, <3>1, LeaseColumn DEF Recovered
  <2>3. Guarded(b)'
    BY <2>1, <2>2, AgesNat DEF Guarded, Outlived
  <2>4. QED
    BY <2>1, <2>3 DEF Starting
<1>8. CASE AcquireLease(b)
  <2>1. PICK o \in Owner :
          /\ Fresh(b, o)
          /\ rows'[b] = Acquire(rows[b], batch[b], o)
          /\ batch'[b] = Acquirable(rows[b], batch[b])
          /\ claim'[b] = o /\ stage'[b] = "launch" /\ procs' = procs
    BY <1>8 DEF AcquireLease, At, TypeOK
  <2>2. \A m \in Message, p \in Owner : Holds(rows[b][m], p) => rows'[b][m] = rows[b][m]
    BY <1>1, <2>1, LeaseColumn
  <2>3. Guarded(b)'
    BY <2>1, <2>2, GuardedKept
  <2>4. ASSUME NEW m \in batch'[b] PROVE rows'[b][m].lease = LeaseSeconds
    <3>1. m \in Message /\ m \in Acquirable(rows[b], batch[b]) /\ rows[b][m] \in Row
      BY <2>1, AgesNat DEF Acquirable, TypeOK, Rows
    <3>2. rows'[b][m] = [rows[b][m] EXCEPT !.status = "leased", !.owner = o,
                            !.lease = LeaseSeconds, !.attempts = @ + 1]
      BY <2>1, <3>1 DEF Acquire
    <3>3. QED
      BY <3>1, <3>2 DEF Row
  <2>5. QED
    BY <2>1, <2>3, <2>4 DEF Starting, Fresh
<1>9. CASE Launch(b)
  <2> DEFINE o == claim[b]
             started == [phase |-> "started", ids |-> batch[b], age |-> 0]
  <2>1. /\ rows' = rows /\ stage[b] = "launch" /\ stage'[b] = "record" /\ o \in Owner
        /\ procs' = [procs EXCEPT ![b][o] = started]
    BY <1>1, <1>9 DEF Launch, Working, At, Owns, TypeOK
  <2>2. procs'[b][o] = started /\ \A p \in Owner \ {o} : procs'[b][p] = procs[b][p]
    BY <2>1 DEF TypeOK
  <2>3. \A m \in batch[b] : Holds(rows[b][m], o) /\ rows[b][m].lease = LeaseSeconds
    BY <1>1, <2>1 DEF Owns, Starting
  <2>4. ASSUME NEW p \in Owner, procs'[b][p].phase \in Running
        PROVE  \/ Outlived(b, p)'
               \/ \A m \in procs'[b][p].ids :
                     /\ Holds(rows'[b][m], p)
                     /\ rows'[b][m].lease + procs'[b][p].age >= LeaseSeconds
    <3>1. CASE p = o
      <4>1. procs'[b][p].ids = batch[b] /\ procs'[b][p].age = 0
        BY <2>2, <3>1
      <4>2. QED
        BY <2>1, <2>3, <3>1, <4>1, AgesNat
    <3>2. CASE p # o
      BY <2>1, <2>2, <2>4, <3>2 DEF Guarded, Outlived
    <3>3. QED
      BY <3>1, <3>2
  <2>5. QED
    BY <2>1, <2>4 DEF Guarded, Starting
<1>10. CASE LaunchFails(b)
  <2>1. /\ \E t : rows' = [rows EXCEPT ![b] =
                              MarkFailed(rows[b], batch[b], claim[b], t)]
        /\ procs' = procs /\ stage[b] = "launch" /\ stage'[b] = "idle"
    BY <1>10 DEF LaunchFails, Working, Done, At, TypeOK
  <2>2. PICK t : rows'[b] = MarkFailed(rows[b], batch[b], claim[b], t)
    BY <2>1 DEF TypeOK
  <2>3. \A p \in Owner, m \in Message :
           p # claim[b] /\ Holds(rows[b][m], p) => rows'[b][m] = rows[b][m]
    BY <1>1, <2>2, LeaseColumn
  <2>4. procs[b][claim[b]].phase \notin Running
    BY <2>1 DEF Starting, Running
  <2>5. Guarded(b)'
    BY <2>1, <2>3, <2>4, GuardedKept
  <2>6. QED
    BY <2>1, <2>5 DEF Starting
<1>11. CASE Record(b)
  <2>1. rows' = rows /\ procs' = procs /\ stage'[b] = "idle"
    BY <1>11 DEF Record, Done, At, TypeOK
  <2>2. QED
    BY <2>1, GuardedKept DEF Starting
<1>12. QED
  BY <1>2, <1>3, <1>4, <1>6, <1>7, <1>8, <1>9, <1>10, <1>11 DEF Tick

\* A process changes its phase, or is gone: no lease is touched.
LEMMA PhasesGuarded ==
    ASSUME TypeOK, Ownership, NEW c \in Binding, Guarded(c), Starting(c),
           NEW b \in Binding, NEW o \in Owner,
           \/ Prompt(b, o) \/ Stop(b, o)
           \/ \E outcome \in Outcome : Exit(b, o, outcome)
    PROVE  Guarded(c)' /\ Starting(c)'
<1>1. /\ rows' = rows /\ stage' = stage /\ batch' = batch /\ claim' = claim
      /\ inflight' = inflight /\ procs[b][o].phase \in Running
  BY DEF Prompt, Stop, Exit, worker, Running
<1>2. \/ procs' = [procs EXCEPT ![b][o] = NoProc] /\ ~Tracked(b, o)
      \/ \E f \in Running \cup Outcome : procs' = [procs EXCEPT ![b][o].phase = f]
  BY DEF Prompt, Stop, Exit, Running
<1>3. \/ c # b /\ procs'[c] = procs[c]
      \/ c = b /\ \A p \in Owner \ {o} : procs'[c][p] = procs[c][p]
  BY <1>2 DEF TypeOK
<1>4. ASSUME c = b
      PROVE  \/ procs'[c][o] = NoProc /\ ~Tracked(b, o)
             \/ \E f \in Running \cup Outcome :
                   procs'[c][o] = [procs[c][o] EXCEPT !.phase = f]
  <2>1. CASE procs' = [procs EXCEPT ![b][o] = NoProc] /\ ~Tracked(b, o)
    BY <1>4, <2>1 DEF TypeOK
  <2>2. ASSUME NEW f \in Running \cup Outcome, procs' = [procs EXCEPT ![b][o].phase = f]
        PROVE  procs'[c][o] = [procs[c][o] EXCEPT !.phase = f]
    BY <1>4, <2>2 DEF TypeOK
  <2>3. QED
    BY <1>2, <2>1, <2>2
<1>5. ASSUME c = b
      PROVE  \/ procs'[c][o] = NoProc /\ ~Tracked(b, o)
             \/ /\ procs'[c][o].phase \in Running \cup Outcome
                /\ procs'[c][o].age = procs[c][o].age
                /\ procs'[c][o].ids = procs[c][o].ids
  <2>1. procs[c][o] \in Proc
    BY DEF TypeOK
  <2>2. \A f : /\ [procs[c][o] EXCEPT !.phase = f].phase = f
               /\ [procs[c][o] EXCEPT !.phase = f].age = procs[c][o].age
               /\ [procs[c][o] EXCEPT !.phase = f].ids = procs[c][o].ids
    BY <2>1 DEF Proc
  <2>3. QED
    BY <1>4, <1>5, <2>2
<1>6. ASSUME NEW p \in Owner, procs'[c][p].phase \in Running
      PROVE  /\ procs[c][p].phase \in Running
             /\ procs'[c][p].age = procs[c][p].age
             /\ procs'[c][p].ids = procs[c][p].ids
  BY <1>1, <1>3, <1>5, <1>6 DEF NoProc, Running
<1>7. Guarded(c)'
  BY <1>1, <1>6, GuardedKept
<1>8. CASE stage[c] = "launch"
  <2>1. claim[c] \in Owner /\ procs[c][claim[c]].phase = "none"
    BY <1>8 DEF Ownership, Owns, Starting
  <2>2. procs'[c][claim[c]] = procs[c][claim[c]]
    BY <1>1, <1>3, <2>1 DEF Running
  <2>3. QED
    BY <1>1, <1>7, <1>8, <2>2 DEF Starting
<1>9. CASE stage[c] = "finish"
  <2> DEFINE i == inflight[c].owner
  <2>1. i \in Owner /\ (Exited(c) \/ TimedOut(c))
    BY <1>9 DEF Ownership, Owns, Starting, InFlight, TypeOK, Attempt
  <2>2. CASE procs'[c][i] = procs[c][i]
    BY <1>1, <1>7, <1>9, <2>1, <2>2 DEF Starting, Exited, TimedOut, Process
  <2>3. CASE procs'[c][i] # procs[c][i]
    <3>1. c = b /\ i = o
      BY <1>3, <2>1, <2>3
    <3>2. procs[c][i].phase \in Running /\ procs[c][i].age >= ProcessTimeout
      BY <1>1, <2>1, <3>1 DEF Exited, TimedOut, Process, Running, Outcome
    <3>3. /\ procs'[c][i].phase \in Running \cup Outcome
          /\ procs'[c][i].age = procs[c][i].age
      BY <1>5, <3>1 DEF Tracked
    <3>4. QED
      BY <1>1, <1>7, <1>9, <3>2, <3>3 DEF Starting, Exited, TimedOut, Process
  <2>4. QED
    BY <2>2, <2>3
<1>10. QED
  BY <1>1, <1>7, <1>8, <1>9 DEF Starting

\* Of the processes of the other bindings the worker touches none.
LEMMA TickSparesProcs ==
    ASSUME TypeOK, NEW b \in Binding, Tick(b), NEW c \in Binding \ {b}
    PROVE  procs'[c] = procs[c]
<1>1. \/ procs' = procs
      \/ \E o, x : procs' = [procs EXCEPT ![b][o] = x]
  BY DEF Tick, FinishMark, FinishRecord, Scan, HoldWaking, HoldTokenless,
         HoldBlocked, HoldSettled, HoldWorking, HoldSubagent, HoldDegraded, HoldRateLimited,
         HoldNotReady, Select, TakeReady, AcquireLease, Launch, LaunchFails,
         Record, Hold
<1>2. QED
  BY <1>1 DEF TypeOK

\* A second goes by: what a lease loses, the process that holds it gains in age.
LEMMA TimeGuarded ==
    ASSUME TypeOK, NEW c \in Binding, Guarded(c), TimePasses
    PROVE  Guarded(c)'
<1> SUFFICES ASSUME NEW p \in Owner, procs'[c][p].phase \in Running, ~Outlived(c, p)'
             PROVE  \A m \in procs'[c][p].ids :
                       /\ Holds(rows'[c][m], p)
                       /\ rows'[c][m].lease + procs'[c][p].age >= LeaseSeconds
  BY DEF Guarded
<1> DEFINE x == procs[c][p]
           y == procs'[c][p]
<1>1. x \in Proc
  BY DEF TypeOK
<1>2. y = [x EXCEPT !.age = IF x.phase \in Running /\ x.age < MaxAge
                            THEN x.age + 1 ELSE x.age]
  BY DEF TimePasses
<1>3. /\ x.phase = y.phase /\ x.ids = y.ids
      /\ y.age = IF x.phase \in Running /\ x.age < MaxAge THEN x.age + 1 ELSE x.age
  BY <1>1, <1>2 DEF Proc
<1>4. x.age < LeaseSeconds /\ x.age < MaxAge /\ y.age = x.age + 1 /\ x.age \in Nat
  BY <1>3, AgesNat DEF Outlived
<1>5. ~Outlived(c, p)
  BY <1>3, <1>4, AgesNat DEF Outlived
<1>6. \A m \in x.ids : Holds(rows[c][m], p) /\ rows[c][m].lease + x.age >= LeaseSeconds
  BY <1>3, <1>5 DEF Guarded
<1>7. GoodRows(rows[c]) /\ rows'[c] = Elapse(rows[c])
  BY DEF TypeOK, GoodRows, TimePasses
<1>8. ASSUME NEW m \in x.ids
      PROVE  Holds(rows'[c][m], p) /\ rows'[c][m].lease + y.age >= LeaseSeconds
  <2>1. m \in Message /\ rows[c][m].lease \in Nat /\ LeaseSeconds \in Nat
    BY AgesNat
  <2>2. Holds(rows'[c][m], p)
    BY <1>6, <1>7, <2>1, LeasesKept
  <2>3. rows'[c][m].lease = IF rows[c][m].lease > 0 THEN rows[c][m].lease - 1 ELSE 0
    BY <1>6, <1>7, <2>1, LeaseColumn
  <2>4. QED
    BY <1>4, <1>6, <2>1, <2>2, <2>3
<1>9. QED
  BY <1>3, <1>8

\* Neither processes, nor the operator, nor the clock break the guard.
LEMMA NextGuarded ==
    ASSUME TypeOK, Ownership, AllGuarded, Next
    PROVE  AllGuarded'
<1> SUFFICES ASSUME NEW c \in Binding
             PROVE  /\ Guarded(c)' /\ Starting(c)'
                    /\ daemon' = "down" => stage'[c] = "idle"
  BY DEF AllGuarded
<1> DEFINE Upheld == /\ Guarded(c)' /\ Starting(c)'
                     /\ daemon' = "down" => stage'[c] = "idle"
<1>1. /\ Guarded(c) /\ Starting(c) /\ GoodRows(rows[c]) /\ Owns(c)
      /\ daemon = "down" => stage[c] = "idle"
  BY DEF AllGuarded, TypeOK, GoodRows, Ownership
<1>2. ASSUME NEW b \in Binding, Tick(b) PROVE Upheld
  <2>1. daemon' # "down"
    BY <1>2
    DEF Tick, FinishMark, FinishRecord, Scan, HoldWaking, HoldTokenless,
        HoldBlocked, HoldSettled, HoldWorking, HoldSubagent, HoldDegraded, HoldRateLimited,
        HoldNotReady, Select, TakeReady, AcquireLease, Launch, LaunchFails,
        Record, Hold, Gate, Working
  <2>2. CASE b = c
    BY <1>1, <1>2, <2>1, <2>2, TickGuarded
  <2>3. CASE b # c
    <3>1. /\ rows'[c] = rows[c] /\ inflight'[c] = inflight[c] /\ stage'[c] = stage[c]
          /\ batch'[c] = batch[c] /\ claim'[c] = claim[c] /\ procs'[c] = procs[c]
      BY <1>2, <2>3, TickOthers, TickSparesProcs
    <3>2. QED
      BY <1>1, <2>1, <3>1, GuardedKept, StartingKept
  <2>4. QED
    BY <2>2, <2>3
<1>3. CASE TickStart
  <2>1. /\ rows' = rows /\ procs' = procs /\ inflight' = inflight /\ daemon' # "down"
        /\ stage'[c] \in {"finish", "scan"}
        /\ stage'[c] = "finish" => Exited(c) \/ TimedOut(c)
    BY <1>3 DEF TickStart, WorkerFree
  <2>2. QED
    BY <1>1, <2>1, GuardedKept DEF Starting, Exited, TimedOut, Process
<1>4. CASE Crash
  <2>1. rows' = rows /\ stage'[c] = "idle"
    BY <1>4 DEF Crash
  <2>2. \A p \in Owner : procs'[c][p] \in {NoProc, procs[c][p]}
    BY <1>4 DEF Crash
  <2>3. \A p \in Owner : procs'[c][p].phase \in Running => procs'[c][p] = procs[c][p]
    BY <2>2 DEF NoProc, Running
  <2>4. QED
    BY <1>1, <2>1, <2>3, GuardedKept DEF Starting
<1>5. CASE TimePasses
  <2>1. stage[c] = "idle" /\ stage' = stage /\ daemon' = daemon
    BY <1>1, <1>5 DEF TimePasses, WorkerFree, worker
  <2>2. QED
    BY <1>1, <1>5, <2>1, TimeGuarded DEF Starting
<1>6. ASSUME NEW b \in Binding, NEW m \in Message, OperatorRequeue(b, m)
      PROVE  Upheld
  <2>1. /\ procs' = procs /\ inflight' = inflight /\ stage' = stage
        /\ batch' = batch /\ claim' = claim /\ daemon' = daemon
        /\ \/ rows'[c] = rows[c]
           \/ CanRequeue(rows[c], m) /\ rows'[c] = Requeue(rows[c], m)
    BY <1>6 DEF OperatorRequeue, worker, TypeOK
  <2>2. ASSUME NEW n \in Message, NEW p \in Owner, Holds(rows[c][n], p)
        PROVE  rows'[c][n] = rows[c][n]
    <3>1. CanRequeue(rows[c], m) => Requeue(rows[c], m)[n] = rows[c][n]
      BY <1>1, <2>2, LeaseColumn
    <3>2. QED
      BY <2>1, <3>1
  <2>3. Guarded(c)'
    BY <1>1, <2>1, <2>2, GuardedKept
  <2>4. stage[c] = "launch" => \A n \in batch[c] : rows'[c][n] = rows[c][n]
    BY <1>1, <2>2, AgesNat DEF Owns
  <2>5. QED
    BY <1>1, <2>1, <2>3, <2>4 DEF Starting, Exited, TimedOut, Process
<1>7. CASE ProcessEvent \/ ReplayRetry
  <2>1. /\ inflight'[c].owner = inflight[c].owner
        /\ UNCHANGED <<rows, procs, stage, batch, claim, daemon>>
    BY <1>7, EventSpares DEF worker
  <2>2. QED
    BY <1>1, <2>1, GuardedKept, StartingKept
<1>8. ASSUME NEW b \in Binding, NEW o \in Owner,
             \/ Prompt(b, o) \/ Stop(b, o)
             \/ \E outcome \in Outcome : Exit(b, o, outcome)
      PROVE  Upheld
  <2>1. stage' = stage /\ daemon' = daemon
    BY <1>8 DEF Prompt, Stop, Exit, worker
  <2>2. QED
    BY <1>1, <1>8, <2>1, PhasesGuarded
<1>9. ASSUME UNCHANGED <<rows, procs, inflight, stage, batch, claim>>,
             daemon' = "down" => daemon = "down"
      PROVE  Upheld
  BY <1>1, <1>9, GuardedKept, StartingKept
<1>10. ASSUME NEW b \in Binding,
             \/ MarkDormant(b) \/ StartTurn(b) \/ EndTurn(b) \/ Fetch(b)
             \/ \E m \in Message : Emit(b, m)
      PROVE  Upheld
  BY <1>9, <1>10 DEF MarkDormant, StartTurn, EndTurn, Fetch, Emit, worker
<1>11. CASE Restart \/ LoadSpool
  BY <1>9, <1>11 DEF Restart, LoadSpool, worker
<1>12. QED
  BY <1>2, <1>3, <1>4, <1>5, <1>6, <1>7, <1>8, <1>10, <1>11
  DEF Next, Worker, Session, Outside

\* Only Launch starts a process, and it gives it rows that its owner holds.
LEMMA StartsByLaunch ==
    ASSUME TypeOK, Next, NEW b \in Binding, NEW o \in Owner,
           procs[b][o].phase = "none", procs'[b][o].phase = "started"
    PROVE  Launch(b) /\ o = claim[b] /\ procs'[b][o].ids = batch[b]
<1>1. ASSUME NEW c \in Binding, FinishMark(c)
      PROVE  FALSE
  <2>1. \A p \in Owner : procs'[b][p] \in {NoProc, procs[b][p]}
    BY <1>1 DEF FinishMark, TypeOK
  <2>2. QED
    BY <2>1 DEF NoProc
<1>2. ASSUME NEW c \in Binding, Launch(c)
      PROVE  Launch(b) /\ o = claim[b] /\ procs'[b][o].ids = batch[b]
  <2>1. procs' = [procs EXCEPT ![c][claim[c]] =
                    [phase |-> "started", ids |-> batch[c], age |-> 0]]
    BY <1>2 DEF Launch
  <2>2. c = b /\ claim[c] = o
    BY <2>1 DEF TypeOK
  <2>3. procs'[b][o] = [phase |-> "started", ids |-> batch[c], age |-> 0]
    BY <2>1, <2>2 DEF TypeOK
  <2>4. QED
    BY <1>2, <2>2, <2>3
<1>3. ASSUME NEW c \in Binding, NEW p \in Owner,
             \/ Prompt(c, p) \/ Stop(c, p)
             \/ \E outcome \in Outcome : Exit(c, p, outcome)
      PROVE  FALSE
  <2>1. procs[c][p].phase \in Running
    BY <1>3 DEF Prompt, Stop, Exit, Running
  <2>2. c # b \/ p # o
    BY <2>1 DEF Running
  <2>3. \E x : procs' = [procs EXCEPT ![c][p] = x]
    BY <1>3 DEF Prompt, Stop, Exit
  <2>4. procs'[b][o] = procs[b][o]
    BY <2>2, <2>3 DEF TypeOK
  <2>5. QED
    BY <2>4
<1>4. ~Crash
  BY DEF Crash, NoProc
<1>5. ~TimePasses
  <2>1. ASSUME NEW x \in Proc, NEW a PROVE [x EXCEPT !.age = a].phase = x.phase
    BY DEF Proc
  <2>2. ASSUME TimePasses PROVE \E a : procs'[b][o] = [procs[b][o] EXCEPT !.age = a]
    BY <2>2 DEF TimePasses
  <2>3. procs[b][o] \in Proc
    BY DEF TypeOK
  <2>4. QED
    BY <2>1, <2>2, <2>3
<1>6. procs' # procs
  OBVIOUS
<1>7. QED
  BY <1>1, <1>2, <1>3, <1>4, <1>5, <1>6, EventFrame
  DEF Next, Worker, Session, Outside, Tick, TickStart, FinishRecord, Scan,
      HoldWaking, HoldTokenless, HoldBlocked, HoldSettled, HoldWorking,
      HoldSubagent, HoldDegraded, HoldRateLimited, HoldNotReady, Select, TakeReady,
      AcquireLease, LaunchFails, Record, Hold, MarkDormant, StartTurn, EndTurn,
      Fetch, Emit, OperatorRequeue, Restart, LoadSpool

\* While a resume process runs with a message in hand, no second one is given
\* it before the lease of the first is over, or the timeout it survived.
THEOREM SecondWakeOnlyAfterLeaseTheorem == Spec => SecondWakeOnlyAfterLease
<1>1. Init => AllGuarded
  BY DEF Init, AllGuarded, Guarded, Starting, NoProc, Running
<1>2. TypeOK /\ Ownership /\ AllGuarded /\ [Next]_vars => AllGuarded'
  <2>1. AllGuarded /\ UNCHANGED vars => AllGuarded'
    BY DEF vars, worker, AllGuarded, Guarded, Starting, Outlived, Exited, TimedOut,
           Process
  <2>2. QED
    BY <2>1, NextGuarded
<1>3. ASSUME TypeOK, Ownership, AllGuarded, [Next]_vars,
             NEW b \in Binding, NEW o \in Owner,
             procs[b][o].phase = "none", procs'[b][o].phase = "started",
             NEW p \in Owner, procs[b][p].phase \in Running,
             procs[b][p].ids \cap procs'[b][o].ids # {}
      PROVE  Outlived(b, p)
  <2>1. Next
    BY <1>3 DEF vars
  <2>2. Launch(b) /\ o = claim[b] /\ procs'[b][o].ids = batch[b]
    BY <1>3, <2>1, StartsByLaunch
  <2>3. \A m \in batch[b] : Holds(rows[b][m], o)
    BY <1>3, <2>2 DEF Launch, Working, Ownership, Owns
  <2>4. p # o
    BY <1>3 DEF Running
  <2>5. PICK m \in batch[b] : m \in procs[b][p].ids
    BY <1>3, <2>2
  <2>6. ~Holds(rows[b][m], p)
    BY <2>3, <2>4 DEF Holds
  <2>7. QED
    BY <1>3, <2>5, <2>6 DEF AllGuarded, Guarded
<1>4. TypeOK /\ Ownership /\ AllGuarded /\ [Next]_vars =>
        [\A b \in Binding, o \in Owner :
          procs[b][o].phase = "none" /\ procs'[b][o].phase = "started" =>
              \A p \in Owner :
                  /\ procs[b][p].phase \in Running
                  /\ procs[b][p].ids \cap procs'[b][o].ids # {}
                  => \/ procs[b][p].age >= LeaseSeconds
                     \/ SurvivesTerm /\ procs[b][p].age >= ProcessTimeout]_vars
  BY <1>3 DEF Outlived
<1>5. QED
  BY <1>1, <1>2, <1>4, TypeCorrect, OwnershipInvariant, PTL
  DEF Spec, SecondWakeOnlyAfterLease

-----------------------------------------------------------------------------
(* The refinement: the rows start as those of the contract do, and each step *)
(* of the bridge is, seen through the status and the lease owner of the      *)
(* rows, a step of the contract or no step. That the result of a wake is     *)
(* reported by the holder of its rows needs the ownership invariant.         *)

(* Steps of the contract, told row by row.                                  *)

SameRow(c, m) == Same(rows'[c][m], rows[c][m])

\* If no row changes status or owner, the contract stutters.
LEMMA StutterIntro ==
    ASSUME \A c \in Binding, m \in Message : SameRow(c, m)
    PROVE  UNCHANGED Contract!vars
BY DEF Contract!vars, SameRow, Same

\* Two tables of Binding and Message are equal if they agree row by row.
LEMMA TableUpdate ==
    ASSUME NEW S, NEW b \in Binding, NEW f, NEW T,
           S = [c \in Binding |-> [m \in Message |-> S[c][m]]],
           T = [c \in Binding |-> [m \in Message |-> T[c][m]]],
           f = [m \in Message |-> f[m]],
           \A m \in Message : T[b][m] = f[m],
           \A c \in Binding \ {b}, m \in Message : T[c][m] = S[c][m]
    PROVE  T = [S EXCEPT ![b] = f]
<1>1. ASSUME NEW c \in Binding
      PROVE  T[c] = IF c = b THEN f ELSE S[c]
  <2>1. T[c] = [m \in Message |-> T[c][m]] /\ S[c] = [m \in Message |-> S[c][m]]
    BY <1>1
  <2>2. QED
    BY <1>1, <2>1
<1>2. QED
  BY <1>1

StatusTable == [c \in Binding |-> [m \in Message |-> rows[c][m].status]]
HolderTable == [c \in Binding |-> [m \in Message |-> rows[c][m].owner]]

\* The status column of one binding is replaced.
LEMMA StatusUpdate ==
    ASSUME NEW b \in Binding, NEW f, f = [m \in Message |-> f[m]],
           \A m \in Message : rows'[b][m].status = f[m],
           \A c \in Binding \ {b}, m \in Message :
              rows'[c][m].status = rows[c][m].status
    PROVE  StatusTable' = [StatusTable EXCEPT ![b] = f]
<1>1. \A m \in Message : StatusTable'[b][m] = f[m]
  BY DEF StatusTable
<1>2. \A c \in Binding \ {b}, m \in Message :
         StatusTable'[c][m] = StatusTable[c][m]
  BY DEF StatusTable
<1>3. StatusTable = [c \in Binding |-> [m \in Message |-> StatusTable[c][m]]]
  BY DEF StatusTable
<1>4. StatusTable' = [c \in Binding |-> [m \in Message |-> StatusTable'[c][m]]]
  BY DEF StatusTable
<1>5. QED
  BY <1>1, <1>2, <1>3, <1>4, TableUpdate

\* The owner column of one binding is replaced.
LEMMA HolderUpdate ==
    ASSUME NEW b \in Binding, NEW f, f = [m \in Message |-> f[m]],
           \A m \in Message : rows'[b][m].owner = f[m],
           \A c \in Binding \ {b}, m \in Message :
              rows'[c][m].owner = rows[c][m].owner
    PROVE  HolderTable' = [HolderTable EXCEPT ![b] = f]
<1>1. \A m \in Message : HolderTable'[b][m] = f[m]
  BY DEF HolderTable
<1>2. \A c \in Binding \ {b}, m \in Message :
         HolderTable'[c][m] = HolderTable[c][m]
  BY DEF HolderTable
<1>3. HolderTable = [c \in Binding |-> [m \in Message |-> HolderTable[c][m]]]
  BY DEF HolderTable
<1>4. HolderTable' = [c \in Binding |-> [m \in Message |-> HolderTable'[c][m]]]
  BY DEF HolderTable
<1>5. QED
  BY <1>1, <1>2, <1>3, <1>4, TableUpdate

\* Some rows of a binding move together.
LEMMA MoveIntro ==
    ASSUME NEW b \in Binding, NEW ids, NEW from, NEW to, NEW o,
           \A m \in ids : m \in Message /\ rows[b][m].status \in from,
           \A m \in ids : Becomes(rows'[b][m], to, o),
           \A c \in Binding, m \in Message :
              ~(c = b /\ m \in ids) => SameRow(c, m)
    PROVE  Contract!Move(b, ids, from, to, o)
<1>1. \A m \in ids : StatusTable[b][m] \in from
  BY DEF StatusTable
<1>2. StatusTable' = [StatusTable EXCEPT ![b] =
         [m \in Message |-> IF m \in ids THEN to ELSE StatusTable[b][m]]]
  <2> DEFINE f == [m \in Message |-> IF m \in ids THEN to ELSE StatusTable[b][m]]
  <2>1. f = [m \in Message |-> f[m]]
    OBVIOUS
  <2>2. \A m \in Message : rows'[b][m].status = f[m]
    BY DEF StatusTable, SameRow, Same, Becomes
  <2>3. \A c \in Binding \ {b}, m \in Message :
           rows'[c][m].status = rows[c][m].status
    BY DEF SameRow, Same
  <2> HIDE DEF f
  <2>4. QED
    BY <2>1, <2>2, <2>3, StatusUpdate DEF f
<1>3. HolderTable' = [HolderTable EXCEPT ![b] =
         [m \in Message |-> IF m \in ids THEN o ELSE HolderTable[b][m]]]
  <2> DEFINE f == [m \in Message |-> IF m \in ids THEN o ELSE HolderTable[b][m]]
  <2>1. f = [m \in Message |-> f[m]]
    OBVIOUS
  <2>2. \A m \in Message : rows'[b][m].owner = f[m]
    BY DEF HolderTable, SameRow, Same, Becomes
  <2>3. \A c \in Binding \ {b}, m \in Message :
           rows'[c][m].owner = rows[c][m].owner
    BY DEF SameRow, Same
  <2> HIDE DEF f
  <2>4. QED
    BY <2>1, <2>2, <2>3, HolderUpdate DEF f
<1>4. QED
  BY <1>1, <1>2, <1>3 DEF Contract!Move, StatusTable, HolderTable

\* The holder gives its rows up, some for good.
LEMMA FailIntro ==
    ASSUME NEW b \in Binding, NEW ids, NEW dead, NEW o,
           \A m \in ids : /\ m \in Message
                          /\ rows[b][m].status = "leased"
                          /\ rows[b][m].owner = o,
           \A m \in ids : Becomes(rows'[b][m], IF m \in dead THEN "dead_letter"
                                               ELSE "failed", NoOwner),
           \A c \in Binding, m \in Message :
              ~(c = b /\ m \in ids) => SameRow(c, m)
    PROVE  Contract!Fail(b, ids, dead, o)
<1>1. \A m \in ids : StatusTable[b][m] = "leased" /\ HolderTable[b][m] = o
  BY DEF StatusTable, HolderTable
<1>2. StatusTable' = [StatusTable EXCEPT ![b] = [m \in Message |-> IF m \in ids
                          THEN IF m \in dead THEN "dead_letter" ELSE "failed"
                          ELSE StatusTable[b][m]]]
  <2> DEFINE f == [m \in Message |-> IF m \in ids
                          THEN IF m \in dead THEN "dead_letter" ELSE "failed"
                          ELSE StatusTable[b][m]]
  <2>1. f = [m \in Message |-> f[m]]
    OBVIOUS
  <2>2. \A m \in Message : rows'[b][m].status = f[m]
    BY DEF StatusTable, SameRow, Same, Becomes
  <2>3. \A c \in Binding \ {b}, m \in Message :
           rows'[c][m].status = rows[c][m].status
    BY DEF SameRow, Same
  <2> HIDE DEF f
  <2>4. QED
    BY <2>1, <2>2, <2>3, StatusUpdate DEF f
<1>3. HolderTable' = [HolderTable EXCEPT ![b] =
         [m \in Message |-> IF m \in ids THEN NoOwner ELSE HolderTable[b][m]]]
  <2> DEFINE f == [m \in Message |-> IF m \in ids THEN NoOwner ELSE HolderTable[b][m]]
  <2>1. f = [m \in Message |-> f[m]]
    OBVIOUS
  <2>2. \A m \in Message : rows'[b][m].owner = f[m]
    BY DEF HolderTable, SameRow, Same, Becomes
  <2>3. \A c \in Binding \ {b}, m \in Message :
           rows'[c][m].owner = rows[c][m].owner
    BY DEF SameRow, Same
  <2> HIDE DEF f
  <2>4. QED
    BY <2>1, <2>2, <2>3, HolderUpdate DEF f
<1>4. QED
  BY <1>1, <1>2, <1>3 DEF Contract!Fail, StatusTable, HolderTable

\* Rows appear and rows are consumed; nobody holds them.
LEMMA SyncIntro ==
    ASSUME NEW b \in Binding, NEW new, NEW gone,
           \A m \in new : m \in Message /\ rows[b][m].status = "absent",
           \A m \in gone : m \in Message /\ rows[b][m].status \in {"pending", "failed"},
           \A m \in new : Becomes(rows'[b][m], "pending", rows[b][m].owner),
           \A m \in gone : Becomes(rows'[b][m], "delivered", rows[b][m].owner),
           \A c \in Binding, m \in Message :
              ~(c = b /\ m \in new \cup gone) => SameRow(c, m)
    PROVE  Contract!Sync(b, new, gone)
<1>1. /\ \A m \in new : StatusTable[b][m] = "absent"
      /\ \A m \in gone : StatusTable[b][m] \in {"pending", "failed"}
  BY DEF StatusTable
<1>2. StatusTable' = [StatusTable EXCEPT ![b] = [m \in Message |-> IF m \in new THEN "pending"
                                          ELSE IF m \in gone THEN "delivered"
                                          ELSE StatusTable[b][m]]]
  <2> DEFINE f == [m \in Message |-> IF m \in new THEN "pending"
                                          ELSE IF m \in gone THEN "delivered"
                                          ELSE StatusTable[b][m]]
  <2>1. f = [m \in Message |-> f[m]]
    OBVIOUS
  <2>2. \A m \in Message : rows'[b][m].status = f[m]
    BY DEF StatusTable, SameRow, Same, Becomes
  <2>3. \A c \in Binding \ {b}, m \in Message :
           rows'[c][m].status = rows[c][m].status
    BY DEF SameRow, Same
  <2> HIDE DEF f
  <2>4. QED
    BY <2>1, <2>2, <2>3, StatusUpdate DEF f
<1>3. HolderTable' = HolderTable
  BY DEF HolderTable, SameRow, Same, Becomes
<1>4. QED
  BY <1>1, <1>2, <1>3 DEF Contract!Sync, StatusTable, HolderTable

-----------------------------------------------------------------------------
(* The steps of the bridge.                                                 *)

\* The rows of one binding change, those of the others do not.
LEMMA OneBinding ==
    ASSUME TypeOK, NEW b \in Binding, NEW r, rows' = [rows EXCEPT ![b] = r]
    PROVE  /\ rows'[b] = r
           /\ \A c \in Binding, m \in Message : c # b => SameRow(c, m)
BY DEF TypeOK, SameRow, Same

\* A failed attempt of owner o, whichever way it failed.
LEMMA FailStep ==
    ASSUME TypeOK, NEW b \in Binding, NEW ids, NEW o \in Owner, NEW t,
           rows' = [rows EXCEPT ![b] = MarkFailed(rows[b], ids, o, t)]
    PROVE  Contract!Next
<1>1. PICK held \in SUBSET Message : held = HeldRows(rows[b], ids, o)
  BY DEF HeldRows
<1>2. PICK dead \in SUBSET held :
        dead = {m \in held : rows'[b][m].status = "dead_letter"}
  OBVIOUS
<1>3. GoodRows(rows[b])
  BY DEF TypeOK, GoodRows
<1>4. /\ rows'[b] = MarkFailed(rows[b], ids, o, t)
      /\ \A c \in Binding, m \in Message : c # b => SameRow(c, m)
  BY OneBinding
<1>5. \A m \in held : /\ m \in Message
                      /\ rows[b][m].status = "leased"
                      /\ rows[b][m].owner = o
  BY <1>1 DEF HeldRows
<1>6. \A m \in held : Becomes(rows'[b][m], IF m \in dead THEN "dead_letter"
                                           ELSE "failed", NoOwner)
  BY <1>1, <1>2, <1>3, <1>4, MarkFailedRow DEF Becomes
<1>7. \A m \in Message : m \notin held => SameRow(b, m)
  BY <1>1, <1>3, <1>4, MarkFailedRow DEF SameRow
<1>8. Contract!Fail(b, held, dead, o)
  BY <1>4, <1>5, <1>6, <1>7, FailIntro
<1>9. QED
  BY <1>8 DEF Contract!Next

\* How the attempt went reaches the rows its process still holds.
LEMMA FinishMarkStep ==
    ASSUME TypeOK, Ownership, NEW b \in Binding, FinishMark(b)
    PROVE  Contract!Next
<1>1. PICK o \in Owner, ids \in SUBSET Message :
        o = inflight[b].owner /\ ids = inflight[b].ids
  BY DEF FinishMark, Working, Ownership, Owns, InFlight, TypeOK, Attempt
<1>2. \/ rows' = [rows EXCEPT ![b] = MarkDelivered(rows[b], ids, o)]
      \/ \E t \in BOOLEAN :
            rows' = [rows EXCEPT ![b] = MarkFailed(rows[b], ids, o, t)]
  BY <1>1 DEF FinishMark
<1>3. CASE rows' = [rows EXCEPT ![b] = MarkDelivered(rows[b], ids, o)]
  <2>1. PICK held \in SUBSET Message : held = HeldRows(rows[b], ids, o)
    BY DEF HeldRows
  <2>2. GoodRows(rows[b])
    BY DEF TypeOK, GoodRows
  <2>3. \A m \in held : rows[b][m].status = "leased" /\ rows[b][m].owner = o
    BY <2>1 DEF HeldRows
  <2>4. /\ rows'[b] = MarkDelivered(rows[b], ids, o)
        /\ \A c \in Binding, m \in Message : c # b => SameRow(c, m)
    BY <1>3, OneBinding
  <2>5. \A m \in held : Becomes(rows'[b][m], "delivered", NoOwner)
    BY <2>1, <2>2, <2>4, MarkDeliveredRow
  <2>6. \A m \in Message : m \notin held => SameRow(b, m)
    BY <2>1, <2>2, <2>4, MarkDeliveredRow DEF SameRow
  <2>7. Contract!Move(b, held, {"leased"}, "delivered", NoOwner)
    BY <2>3, <2>4, <2>5, <2>6, MoveIntro
  <2>8. \A m \in held : HolderTable[b][m] = o
    BY <2>3 DEF HolderTable
  <2>9. Contract!Deliver(b, held, o)
    BY <2>7, <2>8 DEF Contract!Deliver, HolderTable
  <2>10. QED
    BY <2>9 DEF Contract!Next
<1>4. ASSUME NEW t \in BOOLEAN,
             rows' = [rows EXCEPT ![b] = MarkFailed(rows[b], ids, o, t)]
      PROVE  Contract!Next
  BY <1>4, FailStep
<1>5. QED
  BY <1>2, <1>3, <1>4

\* The process could not be started: the worker still holds its claim.
LEMMA LaunchFailsStep ==
    ASSUME TypeOK, Ownership, NEW b \in Binding, LaunchFails(b)
    PROVE  Contract!Next
<1>1. claim[b] \in Owner
  BY DEF LaunchFails, Working, Ownership, Owns
<1>2. rows' = [rows EXCEPT ![b] =
                 MarkFailed(rows[b], batch[b], claim[b], FALSE)]
  BY DEF LaunchFails
<1>3. QED
  BY <1>1, <1>2, FailStep

\* The poll of the signal files.
LEMMA ScanStep ==
    ASSUME TypeOK, NEW b \in Binding, Scan(b)
    PROVE  Contract!Next
<1>1. PICK seen :
        rows' = [rows EXCEPT ![b] = ReconcileAbsent(Observe(rows[b], seen), seen)]
  BY DEF Scan
<1>0. PICK new \in SUBSET Message, gone \in SUBSET Message :
        /\ new = {m \in Message : m \in seen /\ rows[b][m].status = "absent"}
        /\ gone = {m \in Message : /\ m \notin seen
                                   /\ rows[b][m].status \in {"pending", "failed"}}
  OBVIOUS
<1>2. /\ rows'[b] = ReconcileAbsent(Observe(rows[b], seen), seen)
      /\ \A c \in Binding, m \in Message : c # b => SameRow(c, m)
  BY <1>1, OneBinding
<1>3. GoodRows(rows[b])
  BY DEF TypeOK, GoodRows
<1>4. \A m \in new : Becomes(rows'[b][m], "pending", rows[b][m].owner)
  BY <1>0, <1>2, <1>3, ScanRow
<1>5. \A m \in gone : Becomes(rows'[b][m], "delivered", rows[b][m].owner)
  BY <1>0, <1>2, <1>3, ScanRow
<1>6. \A m \in Message : m \notin new \cup gone => SameRow(b, m)
  BY <1>0, <1>2, <1>3, ScanRow DEF SameRow
<1>7. /\ \A m \in new : m \in Message /\ rows[b][m].status = "absent"
      /\ \A m \in gone : /\ m \in Message
                         /\ rows[b][m].status \in {"pending", "failed"}
  BY <1>0
<1>8. \A c \in Binding, m \in Message :
         ~(c = b /\ m \in new \cup gone) => SameRow(c, m)
  BY <1>2, <1>6
<1>9. Contract!Sync(b, new, gone)
  BY <1>4, <1>5, <1>7, <1>8, SyncIntro
<1>10. QED
  BY <1>9 DEF Contract!Next

\* The selection of a batch recovers what is due.
LEMMA SelectStep ==
    ASSUME TypeOK, NEW b \in Binding, Select(b)
    PROVE  Contract!Next
<1>0. PICK due \in SUBSET Message : due = {m \in Message : ~SameRow(b, m)}
  OBVIOUS
<1>1. /\ rows'[b] = Recovered(b)
      /\ \A c \in Binding, m \in Message : c # b => SameRow(c, m)
  BY OneBinding DEF Select
<1>2. GoodRows(rows[b])
  BY DEF TypeOK, GoodRows
<1>3. \A m \in due : /\ rows[b][m].status \in {"leased", "failed"}
                     /\ Becomes(rows'[b][m], "pending", NoOwner)
  <2>1. CASE batch[b] = {}
    BY <1>0, <1>1, <2>1 DEF Recovered, SameRow, Same
  <2>2. CASE batch[b] # {}
    BY <1>0, <1>1, <1>2, <2>2, RecoverRow DEF Recovered, SameRow
  <2>3. QED
    BY <2>1, <2>2
<1>4. Contract!Reopen(b, due)
  BY <1>0, <1>1, <1>3, MoveIntro DEF Contract!Reopen
<1>5. QED
  BY <1>4 DEF Contract!Next

\* The batch is leased to a fresh owner.
LEMMA AcquireStep ==
    ASSUME TypeOK, NEW b \in Binding, AcquireLease(b)
    PROVE  Contract!Next
<1>1. PICK o \in Owner : rows' = [rows EXCEPT ![b] = Acquire(rows[b], batch[b], o)]
  BY DEF AcquireLease
<1>0. PICK ids : ids = Acquirable(rows[b], batch[b])
  OBVIOUS
<1>2. /\ rows'[b] = Acquire(rows[b], batch[b], o)
      /\ \A c \in Binding, m \in Message : c # b => SameRow(c, m)
  BY <1>1, OneBinding
<1>3. GoodRows(rows[b]) /\ ids \in SUBSET Message
  BY <1>0 DEF TypeOK, GoodRows, Acquirable
<1>4. \A m \in ids : rows[b][m].status \in {"pending"}
  BY <1>0 DEF Acquirable
<1>5. \A m \in ids : Becomes(rows'[b][m], "leased", o)
  BY <1>0, <1>2, <1>3, AcquireRow
<1>6. \A m \in Message : m \notin ids => SameRow(b, m)
  BY <1>0, <1>2, <1>3, AcquireRow DEF SameRow
<1>7. Contract!Claim(b, ids, o)
  BY <1>2, <1>3, <1>4, <1>5, <1>6, MoveIntro DEF Contract!Claim
<1>8. QED
  BY <1>3, <1>7 DEF Contract!Next

\* The operator resets one row.
LEMMA RequeueStep ==
    ASSUME TypeOK, NEW b \in Binding, NEW m \in Message, OperatorRequeue(b, m)
    PROVE  Contract!Next
<1>1. /\ rows'[b] = Requeue(rows[b], m)
      /\ \A c \in Binding, n \in Message : c # b => SameRow(c, n)
  BY OneBinding DEF OperatorRequeue
<1>2. GoodRows(rows[b])
  BY DEF TypeOK, GoodRows
<1>3. Becomes(rows'[b][m], "pending", NoOwner)
  BY <1>1, <1>2, RequeueRow
<1>4. \A n \in Message : n # m => SameRow(b, n)
  BY <1>1, <1>2, RequeueRow DEF SameRow
<1>5. rows[b][m].status \in {"failed", "dead_letter"}
  BY DEF OperatorRequeue, CanRequeue
<1>6. Contract!Reset(b, m)
  BY <1>1, <1>3, <1>4, <1>5, MoveIntro DEF Contract!Reset
<1>7. QED
  BY <1>6 DEF Contract!Next

\* Each step of the cold wake is a step of the contract, or none.
LEMMA StepImplements ==
    ASSUME TypeOK, Ownership, [Next]_vars
    PROVE  [Contract!Next]_(Contract!vars)
<1>1. ASSUME UNCHANGED rows PROVE UNCHANGED Contract!vars
  BY <1>1, StutterIntro DEF SameRow, Same
<1>2. CASE UNCHANGED vars
  BY <1>1, <1>2 DEF vars
<1>3. ASSUME NEW b \in Binding, Tick(b) PROVE [Contract!Next]_(Contract!vars)
  <2>1. CASE FinishMark(b)
    BY <2>1, FinishMarkStep
  <2>2. CASE Scan(b)
    BY <2>2, ScanStep
  <2>3. CASE HoldNotReady(b) \/ TakeReady(b)
    BY <2>3, SelectStep DEF HoldNotReady, TakeReady
  <2>4. CASE AcquireLease(b)
    BY <2>4, AcquireStep
  <2>5. CASE LaunchFails(b)
    BY <2>5, LaunchFailsStep
  <2>6. CASE FinishRecord(b) \/ Launch(b) \/ Record(b)
    BY <1>1, <2>6 DEF FinishRecord, Launch, Record
  <2>7. CASE \/ HoldWaking(b) \/ HoldTokenless(b) \/ HoldBlocked(b)
             \/ HoldSettled(b) \/ HoldWorking(b) \/ HoldSubagent(b)
             \/ HoldDegraded(b) \/ HoldRateLimited(b)
    BY <1>1, <2>7
    DEF HoldWaking, HoldTokenless, HoldBlocked, HoldSettled, HoldWorking,
        HoldSubagent, HoldDegraded, HoldRateLimited, Hold
  <2>8. QED
    BY <1>3, <2>1, <2>2, <2>3, <2>4, <2>5, <2>6, <2>7 DEF Tick
<1>4. CASE TimePasses
  <2>1. \A c \in Binding : GoodRows(rows[c]) /\ rows'[c] = Elapse(rows[c])
    BY <1>4 DEF TimePasses, TypeOK, GoodRows
  <2>2. QED
    BY <2>1, ElapseRow, StutterIntro DEF SameRow
<1>5. ASSUME NEW b \in Binding, NEW m \in Message, OperatorRequeue(b, m)
      PROVE  [Contract!Next]_(Contract!vars)
  BY <1>5, RequeueStep
<1>6. ASSUME NEW b \in Binding,
             \/ MarkDormant(b) \/ StartTurn(b) \/ EndTurn(b) \/ Fetch(b)
             \/ \E o \in Owner : Prompt(b, o) \/ Stop(b, o)
             \/ \E o \in Owner, outcome \in Outcome : Exit(b, o, outcome)
             \/ \E m \in Message : Emit(b, m)
      PROVE  UNCHANGED rows
  BY <1>6
  DEF MarkDormant, StartTurn, EndTurn, Fetch, Prompt, Stop, Exit, Emit
<1>7. CASE TickStart \/ ProcessEvent \/ ReplayRetry \/ Crash \/ Restart \/ LoadSpool
  BY <1>1, <1>7, EventFrame DEF TickStart, Crash, Restart, LoadSpool
<1>8. QED
  BY <1>1, <1>2, <1>3, <1>4, <1>5, <1>6, <1>7
  DEF Next, Worker, Session, Outside

\* The delivery table starts empty.
LEMMA InitImplements == Init => Contract!Init
BY DEF Init, Contract!Init, NoRow

\* The bridge keeps the contract of the delivery table: rows only make the
\* transitions its trigger allows, and a claim is settled by its holder, by
\* its lapse, and by nobody else.
THEOREM BridgeImplementsContract == Spec => ImplementsContract
<1>1. TypeOK /\ Ownership /\ [Next]_vars => [Contract!Next]_(Contract!vars)
  BY StepImplements
<1>2. QED
  BY <1>1, InitImplements, TypeCorrect, OwnershipInvariant, PTL
  DEF Spec, ImplementsContract, Contract!Spec
=============================================================================
