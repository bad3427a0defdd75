---------------------------- MODULE BridgeEvents ----------------------------
(* The way of a lifecycle event from the Codex hook to the runtime snapshot:  *)
(* hook_entry.py sends it over the Bridge's socket and spools it when no      *)
(* answer comes, daemon.py takes it from the socket and from the spool into a *)
(* queue in memory, and one worker thread registers the session's identity    *)
(* and shows its state, keeping for a retry what Agent Mail refused.          *)
(*                                                                            *)
(* Three actors run at once: the hooks, one process per event and one event   *)
(* of a session at a time; the main thread, which drains the spool once and   *)
(* then serves the socket; the worker.  A crash or kill of the daemon may     *)
(* fall between any two steps; launchd starts it again.  An event is          *)
(* <<session, n>>: the n-th of its session, n = 1 its SessionStart.           *)
EXTENDS Integers, Sequences, SequencesExt

CONSTANTS
    Sessions,
    MaxEvents,        \* bound: events of a session
    Files,            \* bound: ids of spool and drain files alive at once
    MaxFaults,        \* bound: crashes, timeouts, refusals, unreadable files
    MaxRegistrations  \* registration_retry_max_attempts

ASSUME BridgeAssumption ==
    /\ MaxEvents \in Nat \ {0} /\ MaxFaults \in Nat
    /\ MaxRegistrations \in Nat \ {0}
    /\ Files \subseteq Nat \ {0}

VARIABLES
    hook,        \* the hook process of each session: its event and where it is
    backlog,     \* payloads on connections the main thread has not accepted
    spool,       \* the file that now has the spool's name, 0 if none
    drains,      \* spool files renamed aside and not yet unlinked
    text,        \* events written to each spool file
    main,        \* main thread: where it is, the drain it reads and the line
    worker,      \* worker thread: the same, and the event it processes
    events,      \* BridgeDaemon._events, the queue in memory
    retry,       \* rows of the retry file
    retryDrains, \* retry files renamed aside, the one being read first
    binding,     \* identity store: the binding file of a session
    token,       \* identity store: sessions whose owner token is stored
    registered,  \* Agent Mail: sessions whose owner token it has recorded
    shown,       \* snapshot: the last event shown, and whether degraded
    settled,     \* history: events processed, or dropped by a rule
    forgotten,   \* history: events held in memory only when a crash came
    missed,      \* history: events written to a spool already unlinked
    detoured,    \* history: events ever written to the spool or for a retry
    faults       \* faults so far

bridgeVars == <<hook, backlog, spool, drains, text, main, worker, events,
                retry, retryDrains, binding, token, registered, shown,
                settled, forgotten, missed, detoured, faults>>
fileVars == <<spool, drains, text>>
identityVars == <<binding, token, registered>>
fates == <<settled, forgotten, missed, detoured, faults>>

Fault == faults < MaxFaults /\ faults' = faults + 1

Event == Sessions \X (1..MaxEvents)
NoEvent == <<>>
Row == [event : Event, attempt : 1..MaxRegistrations, due : BOOLEAN]

Resting == [at |-> "idle", n |-> 0, file |-> 0]
MainDown == [at |-> "down", file |-> 0, line |-> 1]
WorkerOff == [at |-> "off", todo |-> {}, file |-> 0, line |-> 1,
              job |-> NoEvent, attempt |-> 0, recovering |-> FALSE]

(* The file ids no process has open and no directory entry names.            *)
FreeFiles ==
    Files \ ({spool, main.file, worker.file} \cup drains
             \cup {hook[s].file : s \in Sessions})

-----------------------------------------------------------------------------
(* The hook                                                                   *)

HookEvent(s) == <<s, hook[s].n>>

(* The session's next event fires a hook, whose connect succeeds while the    *)
(* socket is bound and is refused when no daemon listens.                     *)
Listening == main.at \in {"bound", "draining", "serving"}

FireHook(s) ==
    /\ hook[s].at = "idle" /\ hook[s].n < MaxEvents
    /\ hook' = [hook EXCEPT ![s].n = @ + 1,
                            ![s].at = IF Listening THEN "waiting" ELSE "unheard"]
    /\ backlog' = IF Listening THEN Append(backlog, <<s, hook[s].n + 1>>)
                               ELSE backlog
    /\ UNCHANGED <<fileVars, main, worker, events, retry, retryDrains,
                   identityVars, shown, fates>>

(* 0.15 s passed without an answer; the payload stays on the connection.      *)
HookTimeout(s) ==
    /\ hook[s].at = "waiting" /\ Fault
    /\ hook' = [hook EXCEPT ![s].at = "unheard"]
    /\ UNCHANGED <<backlog, fileVars, main, worker, events, retry, retryDrains,
                   identityVars, shown, settled, forgotten, missed, detoured>>

(* append_spool: open by name, creating the file ...                          *)
OpenSpool(s) ==
    /\ hook[s].at = "unheard"
    /\ \/ spool # 0 /\ UNCHANGED <<spool, text>>
       \/ /\ spool = 0 /\ FreeFiles # {}
          /\ spool' = CHOOSE f \in FreeFiles : \A g \in FreeFiles : f <= g
          /\ text' = [text EXCEPT ![spool'] = <<>>]
    /\ hook' = [hook EXCEPT ![s].at = "writing", ![s].file = spool']
    /\ UNCHANGED <<backlog, drains, main, worker, events, retry, retryDrains,
                   identityVars, shown, fates>>

(* ... then write to the open file, which may have been renamed since, or     *)
(* read to its end and unlinked.                                              *)
WriteSpool(s) ==
    LET f == hook[s].file IN
    /\ hook[s].at = "writing"
    /\ text' = [text EXCEPT ![f] = Append(@, HookEvent(s))]
    /\ missed' = IF f = spool \/ f \in drains
                 THEN missed ELSE missed \cup {HookEvent(s)}
    /\ detoured' = detoured \cup {HookEvent(s)}
    /\ hook' = [hook EXCEPT ![s].at = "idle", ![s].file = 0]
    /\ UNCHANGED <<backlog, spool, drains, main, worker, events, retry,
                   retryDrains, identityVars, shown, settled, forgotten, faults>>

-----------------------------------------------------------------------------
(* The main thread                                                            *)

(* serve_forever starts the worker, whose recover_stale_drains lists the      *)
(* drains left by an earlier daemon, before it binds the socket.              *)
StartBridge ==
    /\ main.at = "down"
    /\ main' = [main EXCEPT !.at = "starting"]
    /\ worker' = [WorkerOff EXCEPT !.at = "started"]
    /\ UNCHANGED <<hook, backlog, fileVars, events, retry, retryDrains,
                   identityVars, shown, fates>>

BindAndPublish ==
    /\ main.at = "starting"
    /\ main' = [main EXCEPT !.at = "bound"]
    /\ UNCHANGED <<hook, backlog, fileVars, worker, events, retry, retryDrains,
                   identityVars, shown, fates>>

\* mutant: one name for every drain: the rename replaces the last one
QueueSpoolFixedName ==
    /\ main.at = "bound"
    /\ main' = IF spool = 0 THEN [main EXCEPT !.at = "serving"]
               ELSE [main EXCEPT !.at = "draining", !.file = spool, !.line = 1]
    /\ drains' = IF spool = 0 THEN drains ELSE {spool}
    /\ spool' = 0
    /\ UNCHANGED <<hook, backlog, text, worker, events, retry, retryDrains,
                   identityVars, shown, fates>>

(* queue_spool renames the spool; without one there is nothing to drain.      *)
QueueSpool ==
    /\ main.at = "bound"
    /\ main' = IF spool = 0 THEN [main EXCEPT !.at = "serving"]
               ELSE [main EXCEPT !.at = "draining", !.file = spool, !.line = 1]
    /\ drains' = drains \cup ({spool} \ {0})
    /\ spool' = 0
    /\ UNCHANGED <<hook, backlog, text, worker, events, retry, retryDrains,
                   identityVars, shown, fates>>

(* _queue_event_file queues the lines there are; at the end of the file it    *)
(* unlinks it.                                                                *)
LinesFrom(f, i) == SubSeq(text[f], i, Len(text[f]))

MainReadsDrain ==
    /\ main.at = "draining" /\ main.line <= Len(text[main.file])
    /\ events' = events \o LinesFrom(main.file, main.line)
    /\ main' = [main EXCEPT !.line = Len(text[main.file]) + 1]
    /\ UNCHANGED <<hook, backlog, fileVars, worker, retry, retryDrains,
                   identityVars, shown, fates>>

MainEndsDrain ==
    /\ main.at = "draining" /\ main.line > Len(text[main.file])
    /\ drains' = drains \ {main.file}
    /\ main' = [at |-> "serving", file |-> 0, line |-> 1]
    /\ UNCHANGED <<hook, backlog, spool, text, worker, events, retry,
                   retryDrains, identityVars, shown, fates>>

(* _handle_connection queues the payload and answers, which the hook hears if *)
(* it still waits for this event.                                             *)
HandleConnection ==
    LET e == Head(backlog) IN
    /\ main.at = "serving" /\ backlog # <<>>
    /\ backlog' = Tail(backlog)
    /\ events' = Append(events, e)
    /\ hook' = [s \in Sessions |->
                  IF hook[s].at = "waiting" /\ e = HookEvent(s)
                  THEN [hook[s] EXCEPT !.at = "idle"] ELSE hook[s]]
    /\ UNCHANGED <<fileVars, main, worker, retry, retryDrains, identityVars,
                   shown, fates>>

-----------------------------------------------------------------------------
(* The worker                                                                 *)

workerOnly == <<hook, backlog, main>>

(* recover_stale_drains lists the hook drains present: the one the main       *)
(* thread has just renamed may be among them.  Retry drains come first.       *)
ListDrains ==
    /\ worker.at = "started"
    /\ worker' = [worker EXCEPT !.at = "replaying", !.recovering = TRUE,
                                !.todo = drains]
    /\ UNCHANGED <<workerOnly, fileVars, events, retry, retryDrains,
                   identityVars, shown, fates>>

OpenDrain ==
    /\ worker.at = "recovering" /\ worker.file = 0 /\ worker.todo # {}
    /\ \E f \in worker.todo :
          worker' = [worker EXCEPT !.todo = @ \ {f}, !.line = 1,
                                   !.file = IF f \in drains THEN f ELSE 0]
    /\ UNCHANGED <<workerOnly, fileVars, events, retry, retryDrains,
                   identityVars, shown, fates>>

WorkerReadsDrain ==
    /\ worker.file # 0 /\ worker.line <= Len(text[worker.file])
    /\ events' = events \o LinesFrom(worker.file, worker.line)
    /\ worker' = [worker EXCEPT !.line = Len(text[worker.file]) + 1]
    /\ UNCHANGED <<workerOnly, fileVars, retry, retryDrains, identityVars,
                   shown, fates>>

WorkerEndsDrain ==
    /\ worker.file # 0 /\ worker.line > Len(text[worker.file])
    /\ drains' = drains \ {worker.file}
    /\ worker' = [worker EXCEPT !.file = 0, !.line = 1]
    /\ UNCHANGED <<workerOnly, spool, text, events, retry, retryDrains,
                   identityVars, shown, fates>>

(* reconcile_bindings registers every readable binding with a token again;    *)
(* a refusal leaves that binding as it is.                                    *)
ReconcileBindings ==
    /\ worker.at = "recovering" /\ worker.file = 0 /\ worker.todo = {}
    /\ worker' = [worker EXCEPT !.at = "idle", !.recovering = FALSE]
    /\ \E ok \in SUBSET {s \in token : binding[s] = "saved"} :
          registered' = registered \cup ok
    /\ UNCHANGED <<workerOnly, fileVars, events, retry, retryDrains, binding,
                   token, shown, fates>>

\* mutant: the queue is a stack
TakeNewestEvent ==
    /\ worker.at = "idle" /\ events # <<>>
    /\ events' = Front(events)
    /\ worker' = [worker EXCEPT !.at = "resolve", !.job = Last(events),
                                !.attempt = 0]
    /\ UNCHANGED <<workerOnly, fileVars, retry, retryDrains, identityVars,
                   shown, fates>>

TakeEvent ==
    /\ worker.at = "idle" /\ events # <<>>
    /\ events' = Tail(events)
    /\ worker' = [worker EXCEPT !.at = "resolve", !.job = Head(events),
                                !.attempt = 0]
    /\ UNCHANGED <<workerOnly, fileVars, retry, retryDrains, identityVars,
                   shown, fates>>

(* replay_spool, when the queue has been empty and the retry interval passed. *)
StartReplay ==
    /\ worker.at = "idle" /\ events = <<>> /\ retry # <<>>
    /\ retryDrains' = <<retry>> \o retryDrains
    /\ retry' = <<>>
    /\ worker' = [worker EXCEPT !.at = "replaying", !.line = 1]
    /\ UNCHANGED <<workerOnly, fileVars, events, identityVars, shown, fates>>

ReplayedRow == retryDrains[1][worker.line]
HasRow == retryDrains # <<>> /\ worker.line <= Len(retryDrains[1])

\* mutant: the row does not go back to the retry file
PutOffRowLost ==
    /\ worker.at = "replaying" /\ HasRow /\ ~ReplayedRow.due
    /\ worker' = [worker EXCEPT !.line = @ + 1]
    /\ UNCHANGED <<workerOnly, fileVars, events, retry, retryDrains, identityVars,
                   shown, fates>>

(* A row whose backoff has not passed goes back to the retry file.            *)
PutOffRow ==
    /\ worker.at = "replaying" /\ HasRow /\ ~ReplayedRow.due
    /\ retry' = Append(retry, ReplayedRow)
    /\ worker' = [worker EXCEPT !.line = @ + 1]
    /\ UNCHANGED <<workerOnly, fileVars, events, retryDrains, identityVars,
                   shown, fates>>

(* A row past its maximal age, or of an identity retired since, is dropped.   *)
DropRow ==
    /\ worker.at = "replaying" /\ HasRow
    /\ settled' = settled \cup {ReplayedRow.event}
    /\ worker' = [worker EXCEPT !.line = @ + 1]
    /\ UNCHANGED <<workerOnly, fileVars, events, retry, retryDrains,
                   identityVars, shown, forgotten, missed, detoured, faults>>

ReplayRow ==
    /\ worker.at = "replaying" /\ HasRow /\ ReplayedRow.due
    /\ worker' = [worker EXCEPT !.at = "resolve", !.job = ReplayedRow.event,
                                !.attempt = ReplayedRow.attempt]
    /\ UNCHANGED <<workerOnly, fileVars, events, retry, retryDrains,
                   identityVars, shown, fates>>

EndReplay ==
    /\ worker.at = "replaying" /\ ~HasRow
    /\ retryDrains' = IF retryDrains = <<>> THEN <<>> ELSE Tail(retryDrains)
    /\ worker' = [worker EXCEPT !.line = 1,
                      !.at = IF ~worker.recovering THEN "idle"
                             ELSE IF Len(retryDrains) > 1 THEN "replaying"
                             ELSE "recovering"]
    /\ UNCHANGED <<workerOnly, fileVars, events, retry, identityVars, shown,
                   fates>>

-----------------------------------------------------------------------------
(* Processing one event, from the queue (attempt 0) or from a retry row       *)

Session == worker.job[1]
Replaying == worker.attempt > 0

(* The worker after the event, having advanced past the row of a replay.      *)
AfterEvent ==
    [worker EXCEPT !.job = NoEvent, !.attempt = 0,
                   !.at = IF Replaying THEN "replaying" ELSE "idle",
                   !.line = IF Replaying THEN @ + 1 ELSE @]

\* mutant: the token is stored after the registration
CreateBindingTokenLast ==
    /\ worker.at = "resolve" /\ binding[Session] = "none"
    /\ binding' = [binding EXCEPT ![Session] = "saved"]
    /\ worker' = [worker EXCEPT !.at = "register"]
    /\ UNCHANGED <<workerOnly, fileVars, events, retry, retryDrains, token,
                   registered, shown, fates>>

(* A session without binding gets one, its file first and then its token.     *)
CreateBinding ==
    /\ worker.at = "resolve" /\ binding[Session] = "none"
    /\ binding' = [binding EXCEPT ![Session] = "saved"]
    /\ worker' = [worker EXCEPT !.at = "token"]
    /\ UNCHANGED <<workerOnly, fileVars, events, retry, retryDrains, token,
                   registered, shown, fates>>

StoreToken ==
    /\ worker.at = "token"
    /\ token' = token \cup {Session}
    /\ worker' = [worker EXCEPT !.at = "register"]
    /\ UNCHANGED <<workerOnly, fileVars, events, retry, retryDrains, binding,
                   registered, shown, fates>>

(* A known one is registered again for a start event or when shown degraded.  *)
TouchBinding ==
    /\ worker.at = "resolve" /\ binding[Session] = "saved" /\ Session \in token
    /\ worker' = [worker EXCEPT !.at =
                     IF worker.job[2] = 1 \/ shown[Session].degraded
                     THEN "register" ELSE "show"]
    /\ UNCHANGED <<workerOnly, fileVars, events, retry, retryDrains,
                   identityVars, shown, fates>>

(* Without its token the identity is shown degraded and the event dropped.    *)
TokenMissing ==
    /\ worker.at = "resolve" /\ binding[Session] = "saved" /\ Session \notin token
    /\ shown' = [shown EXCEPT ![Session] = [n |-> worker.job[2], degraded |-> TRUE]]
    /\ settled' = settled \cup {worker.job}
    /\ worker' = AfterEvent
    /\ UNCHANGED <<workerOnly, fileVars, events, retry, retryDrains,
                   identityVars, forgotten, missed, detoured, faults>>

(* An unreadable binding raises IdentityStoreError: an event of the queue is  *)
(* dropped, in recovery the rest of the drains is left for the next start,    *)
(* and a replay on the interval ends the worker thread.                       *)
BindingUnreadable ==
    /\ worker.at = "resolve" /\ binding[Session] = "unreadable"
    /\ IF ~Replaying
       THEN worker' = AfterEvent /\ settled' = settled \cup {worker.job}
       ELSE /\ worker' = IF worker.recovering
                         THEN [WorkerOff EXCEPT !.at = "recovering",
                                                !.recovering = TRUE]
                         ELSE [WorkerOff EXCEPT !.at = "dead"]
            /\ UNCHANGED settled
    /\ UNCHANGED <<workerOnly, fileVars, events, retry, retryDrains,
                   identityVars, shown, forgotten, missed, detoured, faults>>

Registered ==
    /\ worker.at = "register"
    /\ registered' = registered \cup {Session}
    /\ worker' = [worker EXCEPT !.at = "show"]
    /\ UNCHANGED <<workerOnly, fileVars, events, retry, retryDrains, binding,
                   token, shown, fates>>

(* A failure, which may have come after the server registered the name, shows *)
(* the identity degraded and keeps the event for a retry within the limit.    *)
RegistrationFails ==
    /\ worker.at = "register" /\ Fault
    /\ \E done \in {{}, {Session}} : registered' = registered \cup done
    /\ shown' = [shown EXCEPT ![Session] = [n |-> worker.job[2], degraded |-> TRUE]]
    /\ IF worker.attempt + 1 >= MaxRegistrations
       THEN settled' = settled \cup {worker.job} /\ UNCHANGED <<retry, detoured>>
       ELSE /\ retry' = Append(retry, [event |-> worker.job, due |-> FALSE,
                                       attempt |-> worker.attempt + 1])
            /\ detoured' = detoured \cup {worker.job}
            /\ UNCHANGED settled
    /\ worker' = AfterEvent
    /\ UNCHANGED <<workerOnly, fileVars, events, retryDrains, binding, token,
                   forgotten, missed>>

ShowState ==
    /\ worker.at = "show"
    /\ shown' = [shown EXCEPT ![Session] = [n |-> worker.job[2], degraded |-> FALSE]]
    /\ settled' = settled \cup {worker.job}
    /\ worker' = AfterEvent
    /\ UNCHANGED <<workerOnly, fileVars, events, retry, retryDrains,
                   identityVars, forgotten, missed, detoured, faults>>

ProcessStep ==
    \/ CreateBinding \/ StoreToken \/ TouchBinding \/ TokenMissing
    \/ BindingUnreadable \/ Registered \/ RegistrationFails \/ ShowState

-----------------------------------------------------------------------------
(* Time and faults                                                            *)

(* The backoff of a retry row passes: rows differ in theirs.                  *)
BackoffPasses ==
    /\ \E i \in DOMAIN retry :
          ~retry[i].due /\ retry' = [retry EXCEPT ![i].due = TRUE]
    /\ UNCHANGED <<workerOnly, fileVars, worker, events, retryDrains,
                   identityVars, shown, fates>>

BindingRots(s) ==
    /\ binding[s] = "saved" /\ Fault
    /\ binding' = [binding EXCEPT ![s] = "unreadable"]
    /\ UNCHANGED <<workerOnly, fileVars, worker, events, retry, retryDrains,
                   token, registered, shown, settled, forgotten, missed, detoured>>

OnDisk ==
    (UNION {ToSet(text[f]) : f \in drains \cup ({spool} \ {0})})
    \cup {r.event : r \in ToSet(retry)}
    \cup UNION {{r.event : r \in ToSet(d)} : d \in ToSet(retryDrains)}

InMemory == ToSet(events) \cup ({worker.job} \ {NoEvent})

(* The daemon dies: queue and threads are gone, connections are reset.        *)
BridgeCrash ==
    /\ main.at # "down" /\ Fault
    /\ forgotten' = forgotten \cup (InMemory \ (OnDisk \cup settled))
    /\ events' = <<>> /\ backlog' = <<>>
    /\ main' = MainDown /\ worker' = WorkerOff
    /\ hook' = [s \in Sessions |->
                  IF hook[s].at = "waiting"
                  THEN [hook[s] EXCEPT !.at = "unheard"] ELSE hook[s]]
    /\ UNCHANGED <<fileVars, retry, retryDrains, identityVars, shown, settled,
                   missed, detoured>>

-----------------------------------------------------------------------------
BridgeInit ==
    /\ hook = [s \in Sessions |-> Resting] /\ backlog = <<>>
    /\ spool = 0 /\ drains = {} /\ text = [f \in Files |-> <<>>]
    /\ main = MainDown /\ worker = WorkerOff
    /\ events = <<>> /\ retry = <<>> /\ retryDrains = <<>>
    /\ binding = [s \in Sessions |-> "none"] /\ token = {} /\ registered = {}
    /\ shown = [s \in Sessions |-> [n |-> 0, degraded |-> FALSE]]
    /\ settled = {} /\ forgotten = {} /\ missed = {} /\ detoured = {}
    /\ faults = 0

HookStep(s) == FireHook(s) \/ HookTimeout(s) \/ OpenSpool(s) \/ WriteSpool(s)
MainStep ==
    \/ StartBridge \/ BindAndPublish \/ QueueSpool
    \/ MainReadsDrain \/ MainEndsDrain \/ HandleConnection
WorkerStep ==
    \/ ListDrains \/ OpenDrain \/ WorkerReadsDrain \/ WorkerEndsDrain
    \/ ReconcileBindings \/ TakeEvent
    \/ StartReplay \/ PutOffRow \/ DropRow \/ ReplayRow \/ EndReplay
    \/ ProcessStep

BridgeNext ==
    \/ \E s \in Sessions : HookStep(s) \/ BindingRots(s)
    \/ MainStep \/ WorkerStep \/ BackoffPasses \/ BridgeCrash

BridgeSpec == BridgeInit /\ [][BridgeNext]_bridgeVars

(* launchd keeps the daemon running; its two threads and the clock go on.     *)
BridgeFairSpec ==
    /\ BridgeSpec
    /\ WF_bridgeVars(MainStep) /\ WF_bridgeVars(WorkerStep)
    /\ SF_bridgeVars(BackoffPasses)

-----------------------------------------------------------------------------
(* Types.                                                                     *)
BridgeTypeOK ==
    /\ hook \in [Sessions -> [at : {"idle", "waiting", "unheard", "writing"},
                             n : 0..MaxEvents, file : Files \cup {0}]]
    /\ \A q \in {backlog, events} : q \in Seq(Event)
    /\ spool \in Files \cup {0} /\ drains \subseteq Files
    /\ \A f \in Files : text[f] \in Seq(Event)
    /\ main.at \in {"down", "starting", "bound", "draining", "serving"}
    /\ worker.at \in {"off", "started", "replaying", "recovering", "idle",
                      "resolve", "token", "register", "show", "dead"}
    /\ \A q \in {retry} \cup ToSet(retryDrains) : q \in Seq(Row)
    /\ binding \in [Sessions -> {"none", "saved", "unreadable"}]
    /\ token \cup registered \subseteq Sessions
    /\ shown \in [Sessions -> [n : 0..MaxEvents, degraded : BOOLEAN]]
    /\ settled \cup forgotten \cup missed \cup detoured \subseteq Event

(* An event whose hook has finished is never lost without a trace of why: it  *)
(* is held by the daemon or on disk, or was processed or dropped by a rule,   *)
(* or was in memory only when the daemon died, or was written to a spool file *)
(* already read and unlinked.                                                 *)
NoEventVanishes ==
    \A s \in Sessions : \A n \in 1..MaxEvents :
        (n < hook[s].n \/ (n = hook[s].n /\ hook[s].at = "idle"))
        => <<s, n>> \in InMemory \cup OnDisk \cup settled \cup forgotten
                        \cup missed

(* Agent Mail never knows an owner token the identity store does not hold, in *)
(* any crash: the identity could not be used again.                           *)
RegisteredTokenKept == registered \subseteq token

(* The snapshot goes back to an older event of a session only for an event    *)
(* that went through the spool or the retry file.                             *)
OlderStateOnlyByDetour ==
    [][\A s \in Sessions : shown'[s].n < shown[s].n
                           => <<s, shown'[s].n>> \in detoured]_bridgeVars

(* An event in the queue or in the retry file, and an event in the spool when *)
(* the Bridge starts, is in the end processed or dropped by a rule, unless a  *)
(* crash takes it from memory or a binding file becomes unreadable.           *)
Accepted(e) ==
    \/ e \in ToSet(events) \cup {r.event : r \in ToSet(retry)}
    \/ main.at = "starting" /\ spool # 0 /\ e \in ToSet(text[spool])
EventsAreSettled ==
    \A e \in Event :
        Accepted(e) ~> \/ e \in settled \cup forgotten
                       \/ \E s \in Sessions : binding[s] = "unreadable"
=============================================================================
