------------------------------ MODULE ColdWake ------------------------------
(***************************************************************************)
(* The cold wake of Codex App sessions: WakeCoordinator.tick, run by the   *)
(* single worker thread of the bridge daemon, turns the signal files of    *)
(* unread mail into leased delivery rows and resume processes              *)
(* (wake.py, daemon.py, snapshot.py, delivery.py of integrations/codex_app,*)
(* storage.py of agentstack_mail for the signal files).                    *)
(*                                                                         *)
(* Actors: the worker thread (one step per transaction, process start or   *)
(* snapshot write of the tick), the resume processes, the user's own turns *)
(* in the session, the mail server writing and clearing signals, the       *)
(* operator, the clock, and crashes of the daemon.  Rows, snapshots,       *)
(* signals, the hook spool, the retry file and the processes outlive a     *)
(* crash; attempts in flight, the wake history and the event queue do not. *)
(* BridgeEvents has the way of an event and of its registration in full.   *)
(***************************************************************************)
EXTENDS DeliveryLease, Sequences, FiniteSets

CONSTANTS
    Binding,         \* external ids of the registered sessions
    Kind,            \* the kinds of binding a run starts from
    SystemMail,      \* messages from the agent itself or a system sender
    ProcessTimeout,  \* WakePolicy.process_timeout_seconds
    WakesPerHour,    \* WakePolicy.wakes_per_hour
    Hour,            \* 3600 seconds
    DiesMidTurn,     \* may a resume process die before its Stop hook?
    SurvivesTerm,    \* may a process outlive terminate() and wait(2)?
    SignalUnreadable,\* may reading a signal file fail for one poll?
    MaxCrashes,      \* bound: daemon crashes
    MaxTurns,        \* bound: turns the user starts
    MaxRefusals,     \* bound: registrations Agent Mail refuses
    MaxRequeues      \* bound: operator requeues

ASSUME KindAssumption == Kind \subseteq {"root", "subagent", "tokenless"}
ASSUME TimingAssumption ==
    /\ ProcessTimeout \in Nat \ {0}
    /\ WakesPerHour \in Nat \ {0}
    /\ Hour \in Nat \ {0}
ASSUME BoundAssumption ==
    /\ {MaxCrashes, MaxTurns, MaxRefusals, MaxRequeues} \subseteq Nat
    /\ {DiesMidTurn, SurvivesTerm, SignalUnreadable} \subseteq BOOLEAN

VARIABLES
    rows,      \* delivery.sqlite3
    signals,   \* signal files present, by binding
    emitted,   \* messages whose signal was ever written
    snap,      \* runtime snapshot: session state and wake status
    procs,     \* resume processes, by binding and lease owner
    inflight,  \* WakeCoordinator._inflight
    hist,      \* WakeCoordinator._wake_history: ages of the wakes, oldest first
    stage,     \* where the worker stands with each binding
    batch,     \* the message ids the worker carries from stage to stage
    claim,     \* the lease owner the worker is about to start a process for
    verdict,   \* how the attempt just marked went, until it is recorded
    queue,     \* events accepted from the socket, not yet processed
    spool,     \* events the hook wrote to its spool file instead
    retry,     \* events of the retry file: their registration was refused
    daemon,    \* "up", "loading" (spool not yet queued) or "down"
    turn,      \* does the user's own turn run in the session?
    kind,      \* the kind of each binding
    used,      \* crashes, turns, refusals and requeues so far
    consumed,  \* history: messages the agent's fetch_inbox took the signal of
    served     \* history: messages of a process that exited well

mail == <<signals, emitted, consumed>>
worker == <<stage, batch, claim, verdict>>
events == <<queue, spool, retry>>
vars == <<rows, mail, snap, procs, inflight, hist, worker, events, daemon,
          turn, kind, used, served>>

-----------------------------------------------------------------------------
(* Types *)

SessionState == {"working", "waiting", "dormant", "degraded", "blocked"}
WakeStatus == {"idle", "pending", "waking", "wake_failed", "blocked",
               "dead_letter", "identity_auth_required"}
Stage == {"idle", "finish", "marked", "scan", "gate", "acquire", "launch",
          "record"}
Running == {"started", "turn", "stopped"}
Outcome == {"ok", "failed", "fatal"}

MaxAge == IF ProcessTimeout > LeaseSeconds THEN ProcessTimeout ELSE LeaseSeconds

Proc == [phase : Running \cup Outcome \cup {"none"},
         ids   : SUBSET Message,
         age   : 0..MaxAge]
Attempt == [owner   : Owner \cup {NoOwner},   \* NoOwner: nothing in flight
            ids     : SUBSET Message,
            prior   : SessionState,           \* prior_state
            touched : BOOLEAN]                \* last_seen_at moved since

NoProc == [phase |-> "none", ids |-> {}, age |-> 0]
NoAttempt == [owner |-> NoOwner, ids |-> {}, prior |-> "waiting",
              touched |-> FALSE]

\* "start" is SessionStart or SubagentStart, which shows "waiting" as well.
Event == [b : Binding, state : {"start", "working", "waiting"}]

TypeOK ==
    /\ rows \in [Binding -> Rows]
    /\ \A b \in Binding, m \in Message : LeaseShape(rows[b][m])
    /\ signals \in [Binding -> SUBSET Message]
    /\ emitted \in [Binding -> SUBSET Message]
    /\ snap \in [Binding -> [state : SessionState, wake : WakeStatus]]
    /\ procs \in [Binding -> [Owner -> Proc]]
    /\ inflight \in [Binding -> Attempt]
    /\ hist \in [Binding -> Seq(Nat)]
    /\ stage \in [Binding -> Stage]
    /\ batch \in [Binding -> SUBSET Message]
    /\ claim \in [Binding -> Owner \cup {NoOwner}]
    /\ verdict \in [Binding -> Outcome \cup {"none", "timeout"}]
    /\ queue \in Seq(Event)
    /\ spool \in Seq(Event)
    /\ retry \in SUBSET Event
    /\ daemon \in {"up", "loading", "down"}
    /\ turn \in [Binding -> BOOLEAN]
    /\ kind \in [Binding -> Kind]
    /\ used \in [crashes : Nat, turns : Nat, refusals : Nat, requeues : Nat]
    /\ consumed \in [Binding -> SUBSET Message]
    /\ served \in [Binding -> SUBSET Message]

Init ==
    /\ rows = [b \in Binding |-> [m \in Message |-> NoRow]]
    /\ signals = [b \in Binding |-> {}]
    /\ emitted = [b \in Binding |-> {}]
    /\ snap = [b \in Binding |-> [state |-> "waiting", wake |-> "idle"]]
    /\ procs = [b \in Binding |-> [o \in Owner |-> NoProc]]
    /\ inflight = [b \in Binding |-> NoAttempt]
    /\ hist = [b \in Binding |-> <<>>]
    /\ stage = [b \in Binding |-> "idle"]
    /\ batch = [b \in Binding |-> {}]
    /\ claim = [b \in Binding |-> NoOwner]
    /\ verdict = [b \in Binding |-> "none"]
    /\ queue = <<>>
    /\ spool = <<>>
    /\ retry = {}
    /\ daemon = "up"
    /\ turn = [b \in Binding |-> FALSE]
    /\ kind \in [Binding -> Kind]
    /\ used = [crashes |-> 0, turns |-> 0, refusals |-> 0, requeues |-> 0]
    /\ consumed = [b \in Binding |-> {}]
    /\ served = [b \in Binding |-> {}]

-----------------------------------------------------------------------------
(* The worker thread.  It waits for an event or a tick; a tick first        *)
(* finishes attempts, then takes the bindings one after the other.          *)

WorkerFree == daemon # "down" /\ \A b \in Binding : stage[b] = "idle"

\* b is at stage s and nothing else is under way in the single worker thread.
Working(b, s, others) ==
    /\ daemon # "down"
    /\ stage[b] = s
    /\ \A c \in Binding \ {b} : stage[c] \in others

At(b, s) == stage' = [stage EXCEPT ![b] = s]

\* The worker is done with b for this tick.
Done(b) ==
    /\ At(b, "idle")
    /\ batch' = [batch EXCEPT ![b] = {}]
    /\ claim' = [claim EXCEPT ![b] = NoOwner]
    /\ UNCHANGED verdict

Wake(b, status) == snap' = [snap EXCEPT ![b].wake = status]

InFlight(b) == inflight[b].owner # NoOwner
Process(b) == procs[b][inflight[b].owner]
Exited(b) == Process(b).phase \in Outcome
TimedOut(b) == Process(b).phase \in Running /\ Process(b).age >= ProcessTimeout

\* _finish_attempts looks at every attempt; those still running are left.
TickStart ==
    /\ WorkerFree
    /\ stage' = [b \in Binding |->
                    IF InFlight(b) /\ (Exited(b) \/ TimedOut(b))
                    THEN "finish" ELSE "scan"]
    /\ UNCHANGED <<rows, mail, snap, procs, inflight, hist, batch, claim,
                   verdict, events, daemon, turn, kind, used, served>>

\* The outcome of an attempt reaches its rows, in one transaction.  A process
\* that timed out is terminated first, and may survive that.
FinishMark(b) ==
    LET o == inflight[b].owner
        ids == inflight[b].ids
        phase == Process(b).phase
        outcome == IF Exited(b) THEN phase ELSE "timeout"
    IN  /\ Working(b, "finish", {"finish", "scan"})
        /\ rows' = [rows EXCEPT ![b] =
                      IF outcome = "ok"
                      THEN MarkDelivered(@, ids, o)
                      ELSE MarkFailed(@, ids, o, outcome # "failed")]
        /\ \E end \in {"none"} \cup
                      (IF ~Exited(b) /\ SurvivesTerm THEN {phase} ELSE {}) :
              procs' = [procs EXCEPT ![b][o] =
                          IF end = "none" THEN NoProc ELSE @]
        /\ served' = IF outcome = "ok"
                     THEN [served EXCEPT ![b] = @ \cup ids] ELSE served
        /\ verdict' = [verdict EXCEPT ![b] = outcome]
        /\ At(b, "marked")
        /\ UNCHANGED <<mail, snap, inflight, hist, batch, claim, events,
                       daemon, turn, kind, used>>

\* The session state goes back to what it was, unless a hook event came
\* between (last_seen_at moved); an attempt that cannot be retried blocks it.
FinishedState(b) ==
    CASE verdict[b] = "fatal"  -> "blocked"
      [] verdict[b] # "fatal" /\ inflight[b].touched -> snap[b].state
      [] verdict[b] = "timeout" /\ ~inflight[b].touched -> "blocked"
      [] OTHER -> inflight[b].prior

FinishedWake(b) ==
    CASE verdict[b] \in {"fatal", "timeout"} -> "blocked"
      [] verdict[b] = "ok" -> IF AnyOpen(rows[b]) THEN "pending" ELSE "idle"
      [] OTHER -> IF AnyDead(rows[b]) THEN "dead_letter" ELSE "wake_failed"

FinishRecord(b) ==
    /\ Working(b, "marked", {"finish", "scan"})
    /\ snap' = [snap EXCEPT ![b] = [state |-> FinishedState(b),
                                    wake |-> FinishedWake(b)]]
    /\ inflight' = [inflight EXCEPT ![b] = NoAttempt]
    /\ verdict' = [verdict EXCEPT ![b] = "none"]
    /\ At(b, "scan")
    /\ UNCHANGED <<rows, mail, procs, hist, batch, claim, events, daemon,
                   turn, kind, used, served>>

\* Read the signal files, insert the new rows, deliver those whose signal is
\* gone.  Mail from the agent itself and from the bridge is passed over, and so
\* is a file whose read fails just now.
Scan(b) ==
    \E seen \in IF SignalUnreadable THEN SUBSET (signals[b] \ SystemMail)
                ELSE {signals[b] \ SystemMail} :
        /\ Working(b, "scan", {"idle", "scan"})
        /\ rows' = [rows EXCEPT ![b] = ReconcileAbsent(Observe(@, seen), seen)]
        /\ batch' = [batch EXCEPT ![b] = seen]
        /\ At(b, "gate")
        /\ UNCHANGED <<mail, snap, procs, inflight, hist, claim, verdict,
                       events, daemon, turn, kind, used, served>>

\* The early continues of tick, in their order: each one writes the wake
\* status and leaves the binding until the next tick.
Gate(b) == Working(b, "gate", {"idle", "scan"})

GatePasses(b) ==   \* ... but for a wake under way, or a missing owner token
    ~InFlight(b) /\ kind[b] # "tokenless"

Hold(b, status) ==
    /\ Gate(b)
    /\ Wake(b, status)
    /\ Done(b)
    /\ UNCHANGED <<rows, mail, procs, inflight, hist, events, daemon, turn,
                   kind, used, served>>

HoldWaking(b) == InFlight(b) /\ Hold(b, "waking")

HoldTokenless(b) ==
    /\ ~InFlight(b) /\ kind[b] = "tokenless"
    /\ Hold(b, IF AnyOpen(rows[b]) THEN "identity_auth_required"
               ELSE snap[b].wake)

HoldBlocked(b) ==
    GatePasses(b) /\ snap[b].state = "blocked" /\ Hold(b, "blocked")

HoldSettledUnfailed(b) ==   \* mutant: failed rows are not counted as open
    /\ GatePasses(b) /\ snap[b].state # "blocked"
    /\ \A m \in Message : rows[b][m].status \notin {"pending", "leased"}
    /\ Hold(b, IF AnyDead(rows[b]) THEN "dead_letter" ELSE "idle")

\* Nothing is open: no wake is due.
HoldSettled(b) ==
    /\ GatePasses(b) /\ snap[b].state # "blocked" /\ ~AnyOpen(rows[b])
    /\ Hold(b, IF AnyDead(rows[b]) THEN "dead_letter" ELSE "idle")

\* An active turn gets its notice from the PostToolUse hook instead.
HoldWorking(b) ==
    /\ GatePasses(b) /\ AnyOpen(rows[b])
    /\ snap[b].state = "working"
    /\ Hold(b, "pending")

\* A subagent is not resumed, whatever its state is otherwise.
HoldSubagent(b) ==
    /\ GatePasses(b) /\ AnyOpen(rows[b]) /\ kind[b] = "subagent"
    /\ snap[b].state \notin {"blocked", "working"}
    /\ Hold(b, "blocked")

\* A session whose last registration was refused waits for the next one.
HoldDegraded(b) ==
    /\ GatePasses(b) /\ AnyOpen(rows[b]) /\ kind[b] = "root"
    /\ snap[b].state = "degraded"
    /\ Hold(b, "pending")

Wakeable(b) ==
    /\ GatePasses(b) /\ AnyOpen(rows[b]) /\ kind[b] = "root"
    /\ snap[b].state \in {"waiting", "dormant"}

WakesThisHour(b) == Len(hist[b])

HoldRateLimited(b) ==
    /\ Wakeable(b) /\ WakesThisHour(b) >= WakesPerHour
    /\ Hold(b, "blocked")

SelectOneMore(b) ==         \* mutant: one wake past the limit
    /\ Gate(b) /\ Wakeable(b)
    /\ WakesThisHour(b) <= WakesPerHour
    /\ rows' = [rows EXCEPT ![b] = IF batch[b] = {} THEN rows[b]
                                   ELSE Recover(rows[b])]
    /\ UNCHANGED <<mail, procs, inflight, hist, events, daemon, turn, kind,
                   used, served>>

\* ready_ids recovers leases and failures only when a signal is present.
Recovered(b) == IF batch[b] = {} THEN rows[b] ELSE Recover(rows[b])

Select(b) ==
    /\ Gate(b) /\ Wakeable(b)
    /\ WakesThisHour(b) < WakesPerHour
    /\ rows' = [rows EXCEPT ![b] = Recovered(b)]
    /\ UNCHANGED <<mail, procs, inflight, hist, events, daemon, turn, kind,
                   used, served>>

\* The status was counted before the recovery.
HoldNotReady(b) ==
    /\ Select(b)
    /\ Ready(Recovered(b), batch[b]) = {}
    /\ Wake(b, IF AnyFailed(rows[b]) THEN "wake_failed" ELSE "pending")
    /\ Done(b)

TakeReady(b) ==
    /\ Select(b)
    /\ Ready(Recovered(b), batch[b]) # {}
    /\ batch' = [batch EXCEPT ![b] = Ready(Recovered(b), @)]
    /\ At(b, "acquire")
    /\ UNCHANGED <<snap, claim, verdict>>

\* A uuid nobody refers to any more.
Fresh(b, o) ==
    /\ \A m \in Message : rows[b][m].owner # o
    /\ procs[b][o].phase = "none"
    /\ inflight[b].owner # o

AcquireLease(b) ==
    \E o \in Owner :
        /\ Working(b, "acquire", {"idle", "scan"})
        /\ Fresh(b, o)
        /\ rows' = [rows EXCEPT ![b] = Acquire(@, batch[b], o)]
        /\ batch' = [batch EXCEPT ![b] = Acquirable(rows[b], @)]
        /\ claim' = [claim EXCEPT ![b] = o]
        /\ At(b, "launch")
        /\ UNCHANGED <<mail, snap, procs, inflight, hist, verdict, events,
                       daemon, turn, kind, used, served>>

Launch(b) ==
    /\ Working(b, "launch", {"idle", "scan"})
    /\ procs' = [procs EXCEPT ![b][claim[b]] =
                    [phase |-> "started", ids |-> batch[b], age |-> 0]]
    /\ At(b, "record")
    /\ UNCHANGED <<rows, mail, snap, inflight, hist, batch, claim, verdict,
                   events, daemon, turn, kind, used, served>>

\* The process could not be started: a failed attempt, no wake in the history.
LaunchFails(b) ==
    LET failed == MarkFailed(rows[b], batch[b], claim[b], FALSE)
    IN  /\ Working(b, "launch", {"idle", "scan"})
        /\ rows' = [rows EXCEPT ![b] = failed]
        /\ Wake(b, IF AnyDead(failed) THEN "dead_letter" ELSE "wake_failed")
        /\ Done(b)
        /\ UNCHANGED <<mail, procs, inflight, hist, events, daemon, turn,
                       kind, used, served>>

\* The attempt is remembered and the session shown as working.
Record(b) ==
    /\ Working(b, "record", {"idle", "scan"})
    /\ inflight' = [inflight EXCEPT ![b] =
                      [owner |-> claim[b], ids |-> batch[b],
                       prior |-> snap[b].state, touched |-> FALSE]]
    /\ hist' = [hist EXCEPT ![b] = Append(@, 0)]
    /\ snap' = [snap EXCEPT ![b] = [state |-> "working", wake |-> "waking"]]
    /\ Done(b)
    /\ UNCHANGED <<rows, mail, procs, events, daemon, turn, kind, used, served>>

\* _process_normalized_event on a binding that exists already.  A start, or
\* any event of a degraded session, registers it again first.
Registers(e) == e.state = "start" \/ snap[e.b].state = "degraded"
ShownBy(e) == IF e.state = "start" THEN "waiting" ELSE e.state

Shows(b, state) ==
    /\ snap' = [snap EXCEPT ![b].state = state]
    /\ inflight' = [inflight EXCEPT ![b].touched = InFlight(b)]

\* Without an owner token the event is dropped.
LacksToken(e, others) ==
    /\ kind[e.b] = "tokenless"
    /\ Shows(e.b, "degraded")
    /\ retry' = others /\ UNCHANGED used

Accepted(e, others) ==
    /\ kind[e.b] # "tokenless"
    /\ Shows(e.b, ShownBy(e))
    /\ retry' = others /\ UNCHANGED used

\* A refused registration is tried again, up to its limits of number and age.
Refused(e, others) ==
    /\ kind[e.b] # "tokenless" /\ Registers(e)
    /\ used.refusals < MaxRefusals
    /\ used' = [used EXCEPT !.refusals = @ + 1]
    /\ Shows(e.b, "degraded")
    /\ retry' \in {others, others \cup {e}}

Handle(e, others) ==
    LacksToken(e, others) \/ Accepted(e, others) \/ Refused(e, others)

ProcessEvent ==
    /\ WorkerFree /\ queue # <<>>
    /\ Handle(Head(queue), retry)
    /\ queue' = Tail(queue)
    /\ UNCHANGED <<rows, mail, procs, hist, worker, spool, daemon, turn, kind,
                   served>>

\* replay_spool, on a queue found empty: a row whose backoff is over is
\* processed as if its event came now, one past its limits or of a retired
\* agent is dropped.  A crash in the middle of the file is in BridgeEvents.
ReplayRetry ==
    /\ WorkerFree /\ queue = <<>>
    /\ \E e \in retry :
          \/ Handle(e, retry \ {e})
          \/ retry' = retry \ {e} /\ UNCHANGED <<snap, inflight, used>>
    /\ UNCHANGED <<rows, mail, procs, hist, worker, queue, spool, daemon, turn,
                   kind, served>>

\* mark_waiting_dormant_older_than, its threshold left open.
MarkDormant(b) ==
    /\ WorkerFree
    /\ snap[b].state = "waiting"
    /\ snap' = [snap EXCEPT ![b].state = "dormant"]
    /\ UNCHANGED <<rows, mail, procs, inflight, hist, worker, events, daemon,
                   turn, kind, used, served>>

-----------------------------------------------------------------------------
(* Crash and restart of the daemon.  The resume processes run in sessions   *)
(* of their own and survive it.                                             *)

Crash ==
    /\ daemon # "down" /\ used.crashes < MaxCrashes
    /\ daemon' = "down"
    /\ used' = [used EXCEPT !.crashes = @ + 1]
    /\ stage' = [b \in Binding |-> "idle"]
    /\ batch' = [b \in Binding |-> {}]
    /\ claim' = [b \in Binding |-> NoOwner]
    /\ verdict' = [b \in Binding |-> "none"]
    /\ inflight' = [b \in Binding |-> NoAttempt]
    /\ hist' = [b \in Binding |-> <<>>]
    /\ queue' = <<>>
    /\ procs' = [b \in Binding |-> [o \in Owner |->
                    IF procs[b][o].phase \in Outcome THEN NoProc
                    ELSE procs[b][o]]]
    /\ UNCHANGED <<rows, mail, snap, spool, retry, turn, kind, served>>

Restart ==
    /\ daemon = "down"
    /\ daemon' = "loading"
    /\ UNCHANGED <<rows, mail, snap, procs, inflight, hist, worker, events,
                   turn, kind, used, served>>

\* queue_spool, in the listener thread: the worker may have ticked before it.
LoadSpool ==
    /\ daemon = "loading"
    /\ daemon' = "up"
    /\ queue' = queue \o spool
    /\ spool' = <<>>
    /\ UNCHANGED <<rows, mail, snap, procs, inflight, hist, worker, retry,
                   turn, kind, used, served>>

-----------------------------------------------------------------------------
(* The session: the user's turns, and the resume processes.                 *)

\* The hook hands each event to the socket, or else to the spool file.
Hook(b, states) ==
    LET sent == [i \in DOMAIN states |-> [b |-> b, state |-> states[i]]]
    IN  /\ IF daemon = "up"
           THEN queue' = queue \o sent /\ UNCHANGED spool
           ELSE spool' = spool \o sent /\ UNCHANGED queue
        /\ UNCHANGED retry

\* A turn's UserPromptSubmit, after a SessionStart if it opens the session.
Openings == {<<"working">>, <<"start", "working">>}

StartTurn(b) ==
    /\ ~turn[b] /\ used.turns < MaxTurns
    /\ turn' = [turn EXCEPT ![b] = TRUE]
    /\ used' = [used EXCEPT !.turns = @ + 1]
    /\ \E states \in Openings : Hook(b, states)
    /\ UNCHANGED <<rows, mail, snap, procs, inflight, hist, worker, daemon,
                   kind, served>>

EndTurn(b) ==
    /\ turn[b]
    /\ turn' = [turn EXCEPT ![b] = FALSE]
    /\ Hook(b, <<"waiting">>)
    /\ UNCHANGED <<rows, mail, snap, procs, inflight, hist, worker, daemon,
                   kind, used, served>>

\* SessionStart and UserPromptSubmit, then Stop, of the resumed turn.
Prompt(b, o) ==
    /\ procs[b][o].phase = "started"
    /\ procs' = [procs EXCEPT ![b][o].phase = "turn"]
    /\ \E states \in Openings : Hook(b, states)
    /\ UNCHANGED <<rows, mail, snap, inflight, hist, worker, daemon, turn,
                   kind, used, served>>

Stop(b, o) ==
    /\ procs[b][o].phase = "turn"
    /\ procs' = [procs EXCEPT ![b][o].phase = "stopped"]
    /\ Hook(b, <<"waiting">>)
    /\ UNCHANGED <<rows, mail, snap, inflight, hist, worker, daemon, turn,
                   kind, used, served>>

\* The worker holds a handle on the process.
Tracked(b, o) == inflight[b].owner = o \/ claim[b] = o

Exit(b, o, outcome) ==
    /\ procs[b][o].phase \in Running
    /\ outcome = "ok" => procs[b][o].phase = "stopped"
    /\ procs[b][o].phase = "turn" => DiesMidTurn /\ outcome = "failed"
    /\ procs' = [procs EXCEPT ![b][o] =
                    IF Tracked(b, o) THEN [@ EXCEPT !.phase = outcome]
                                     ELSE NoProc]
    /\ UNCHANGED <<rows, mail, snap, inflight, hist, worker, events, daemon,
                   turn, kind, used, served>>

\* fetch_inbox from a turn: every signal of the agent is removed, but those
\* too young (clear_notification_signal's grace).
Fetch(b) ==
    /\ turn[b] \/ \E o \in Owner : procs[b][o].phase = "turn"
    /\ signals[b] # {}
    /\ \E young \in SUBSET signals[b] :
          /\ signals' = [signals EXCEPT ![b] = young]
          /\ consumed' = [consumed EXCEPT ![b] = @ \cup (signals[b] \ young)]
    /\ UNCHANGED <<rows, emitted, snap, procs, inflight, hist, worker, events,
                   daemon, turn, kind, used, served>>

-----------------------------------------------------------------------------
(* Mail, operator and clock.                                                *)

Emit(b, m) ==
    /\ m \notin emitted[b]
    /\ signals' = [signals EXCEPT ![b] = @ \cup {m}]
    /\ emitted' = [emitted EXCEPT ![b] = @ \cup {m}]
    /\ UNCHANGED <<rows, consumed, snap, procs, inflight, hist, worker, events,
                   daemon, turn, kind, used, served>>

OperatorRequeue(b, m) ==
    /\ used.requeues < MaxRequeues
    /\ CanRequeue(rows[b], m)
    /\ used' = [used EXCEPT !.requeues = @ + 1]
    /\ rows' = [rows EXCEPT ![b] = Requeue(@, m)]
    /\ UNCHANGED <<mail, snap, procs, inflight, hist, worker, events, daemon,
                   turn, kind, served>>

\* A second later, _trim_wake_history has popped the head of the deque while it
\* is an hour old.
Trimmed(h) ==
    LET gone == Cardinality({i \in DOMAIN h : h[i] >= Hour - 1})
    IN  [i \in 1..(Len(h) - gone) |-> h[gone + i] + 1]

\* A second goes by.  A tick is short against a second.
TimePasses ==
    /\ WorkerFree \/ daemon = "down"
    /\ rows' = [b \in Binding |-> Elapse(rows[b])]
    /\ procs' = [b \in Binding |-> [o \in Owner |->
                    [procs[b][o] EXCEPT
                        !.age = IF procs[b][o].phase \in Running /\ @ < MaxAge
                                THEN @ + 1 ELSE @]]]
    /\ hist' = [b \in Binding |-> Trimmed(hist[b])]
    /\ UNCHANGED <<mail, snap, inflight, worker, events, daemon, turn, kind,
                   used, served>>

-----------------------------------------------------------------------------
Tick(b) ==
    \/ FinishMark(b) \/ FinishRecord(b)
    \/ Scan(b)
    \/ HoldWaking(b) \/ HoldTokenless(b) \/ HoldBlocked(b) \/ HoldSettled(b)
    \/ HoldWorking(b) \/ HoldSubagent(b) \/ HoldDegraded(b)
    \/ HoldRateLimited(b)
    \/ HoldNotReady(b) \/ TakeReady(b)
    \/ AcquireLease(b) \/ Launch(b) \/ LaunchFails(b) \/ Record(b)

Worker ==
    TickStart \/ ProcessEvent \/ ReplayRetry
    \/ \E b \in Binding : Tick(b) \/ MarkDormant(b)

Session ==
    \E b \in Binding :
        \/ StartTurn(b) \/ EndTurn(b) \/ Fetch(b)
        \/ \E o \in Owner :
              \/ Prompt(b, o) \/ Stop(b, o)
              \/ \E outcome \in Outcome : Exit(b, o, outcome)

Outside ==
    \/ Crash \/ Restart \/ LoadSpool \/ TimePasses
    \/ \E b \in Binding, m \in Message : Emit(b, m) \/ OperatorRequeue(b, m)

Next == Worker \/ Session \/ Outside

Spec == Init /\ [][Next]_vars

\* The worker thread keeps looping: a started tick goes on, a queued event is
\* taken before the next tick (queue.get returns at once), and between ticks
\* there is time (poll_seconds).  launchd restarts the daemon (KeepAlive), and
\* a user's turn ends.  A resume process owes nothing: it may hang.
Fairness ==
    /\ WF_vars(TickStart)
    /\ SF_vars(ProcessEvent)
    /\ SF_vars(TimePasses)
    /\ WF_vars(Restart) /\ WF_vars(LoadSpool)
    /\ \A b \in Binding : WF_vars(Tick(b)) /\ WF_vars(EndTurn(b))

FairSpec == Spec /\ Fairness

-----------------------------------------------------------------------------
(* Properties *)

\* The result of a wake finds the rows it is about: from Record until it is
\* marked, every message of an attempt in flight stays leased to that attempt,
\* whatever ready_ids, reconcile_absent and the operator do meanwhile.
InflightOwnsRows ==
    \A b \in Binding :
        InFlight(b) /\ stage[b] # "marked" =>
            \A m \in inflight[b].ids :
                /\ rows[b][m].status = "leased"
                /\ rows[b][m].owner = inflight[b].owner

\* No message is written off unread: a delivered row's signal was taken by the
\* agent's fetch_inbox, or a resume process given the message exited well.
DeliveredMeansTaken ==
    \A b \in Binding, m \in Message :
        rows[b][m].status = "delivered" => m \in consumed[b] \cup served[b]

\* What the dashboard is shown between two ticks of a daemon that never
\* crashed: "waking" is a wake under way, and "idle" leaves nothing open.
DashboardTruthful ==
    WorkerFree /\ used.crashes = 0 =>
        \A b \in Binding :
            /\ snap[b].wake = "waking" <=> InFlight(b)
            /\ snap[b].wake = "idle" => ~AnyOpen(rows[b])

\* No more than WakesPerHour resume processes of a session within an hour of
\* the daemon's life, however fast attempts fail and are retried.
HourlyLimit == \A b \in Binding : WakesThisHour(b) <= WakesPerHour

\* mark_failed bounds the attempts; only an attempt whose daemon crashed, its
\* lease lapsing unmarked, escapes the count.
AttemptBound ==
    \A b \in Binding, m \in Message :
        rows[b][m].attempts <= MaxAttempts + used.crashes

\* A message is handed to a second resume process while the first still runs
\* only when the first has outlived its lease, or the timeout it survived.
SecondWakeOnlyAfterLease ==
    [][\A b \in Binding, o \in Owner :
          procs[b][o].phase = "none" /\ procs'[b][o].phase = "started" =>
              \A p \in Owner :
                  /\ procs[b][p].phase \in Running
                  /\ procs[b][p].ids \cap procs'[b][o].ids # {}
                  => \/ procs[b][p].age >= LeaseSeconds
                     \/ SurvivesTerm /\ procs[b][p].age >= ProcessTimeout]_vars

\* The delivery table as its trigger and its lease owners allow it to change.
Contract ==
    INSTANCE DeliveryContract WITH
        status <- [b \in Binding |-> [m \in Message |-> rows[b][m].status]],
        holder <- [b \in Binding |-> [m \in Message |-> rows[b][m].owner]]

ImplementsContract == Contract!Spec

\* A message the bridge has seen does not stay open for ever, as long as the
\* session is idle again and again: it is delivered or dead-lettered.
EventuallySettled ==
    \A b \in Binding, m \in Message :
        kind[b] = "root" /\ []<>(snap[b].state \in {"waiting", "dormant"}) =>
            [](Open(rows[b], m) => <>~Open(rows[b], m))

\* ready_ids: "Return one coalesced batch after recovering leases and due
\* retries."  A lease whose wake is gone is recovered, or settled, some time.
OrphanLeaseRecovered ==
    \A b \in Binding, m \in Message :
        kind[b] = "root" /\ []<>(snap[b].state \in {"waiting", "dormant"}) =>
            [](rows[b][m].status = "leased" => <>(rows[b][m].status # "leased"))
=============================================================================
